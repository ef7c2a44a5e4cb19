\* Three attempts with one key; everything may fail, die and expire.
SPECIFICATION FairSpec
CONSTANTS
  Req = {q1, q2, q3}
  Nobody = Nobody
  MaxPolls = 2
INVARIANTS OncePerWindow AnswersAgree
PROPERTY Answered
\* Every attempt ends.
CHECK_DEADLOCK FALSE
