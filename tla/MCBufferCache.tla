--------------------------- MODULE MCBufferCache ---------------------------
EXTENDS BufferCache

\* Block 1 is the superblock, 2 is of the bitmap, 3 an indirect or a data block.
IndirectThenBitmap == {<<3, 2>>}
Formatted == [n \in BlockNos |-> CHOOSE v \in Vals : TRUE]
=============================================================================
