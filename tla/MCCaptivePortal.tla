-------------------------- MODULE MCCaptivePortal ---------------------------
EXTENDS CaptivePortal

\* Plain queries, with AD set or with another opcode, and a response.
SomeQueries ==
  [flags : {{0}, {0, 13}, {0, 4}, {0, 7}}, count : {1, 2}, name : {"ok", "bad"},
   short : BOOLEAN]
=============================================================================
