---------------------------- MODULE MCTokenStore ----------------------------
EXTENDS TokenStore
CONSTANTS r1

SomeOps ==
  {"token_off", "token_delete", "disable", "settings", "user_delete",
   "hard_delete", "override", "refund"}
=============================================================================
