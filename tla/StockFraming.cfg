\* Buffers of 5 bytes and sockets smaller than an answer, so that every line
\* and every answer is cut; 3 orders of a multiclient, 4 pieces typed to a
\* stockclient.
SPECIFICATION FairSpec
CONSTANTS
  MAXLINE = 5
  RIO_BUFSIZE = 5
  ORDER_PER_CLIENT = 3
  RequestRoom = 2
  AnswerRoom = 2
  Typed = 4
INVARIANTS LinesAsSent InStep OthersServed
PROPERTIES BothEnd
\* Both sides end, and a stockclient may wait for ever.
CHECK_DEADLOCK FALSE
