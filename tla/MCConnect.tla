----------------------------- MODULE MCConnect -----------------------------
(* Three calls on a device with two slots: one with its key, one with      *)
(* another and one with a malformed key; or two with its key and one       *)
(* without a key.                                                          *)
EXTENDS Connect

Three == {"a", "b", "c"}

ThreeKeys ==
    {[a |-> "k", b |-> "other", c |-> "malformed"],
     [a |-> "k", b |-> "k", c |-> "empty"]}
=============================================================================
