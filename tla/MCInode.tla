------------------------------- MODULE MCInode ------------------------------
EXTENDS Inode
=============================================================================
