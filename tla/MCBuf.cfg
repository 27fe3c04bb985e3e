SPECIFICATION Spec
CONSTANT Size = 2
INVARIANTS BytesKept WriterStream ReaderStream
 
CHECK_DEADLOCK FALSE
