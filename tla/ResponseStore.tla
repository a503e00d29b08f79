--------------------------- MODULE ResponseStore ---------------------------
(***************************************************************************)
(* What a cache promises about one key (cache/cache.go): a response        *)
(* appears as a whole, at most once, and stays until it expires or another *)
(* one takes its place.  The exceptions are named: a response in spoiled   *)
(* met a fault that its Put does not notice, and may be stored torn.       *)
(***************************************************************************)
CONSTANTS Puts, None, Torn

VARIABLES
  val,        \* the response at the key: the Put it is of, None or Torn
  published,  \* the Puts whose response has been at the key
  spoiled     \* the Puts that met such a fault

Init == val = None /\ published = {} /\ spoiled = {}

Publish(p) ==
  /\ p \in published => p \in spoiled
  /\ val' \in IF p \in spoiled THEN {p, Torn} ELSE {p}
  /\ published' = published \cup {p}
  /\ UNCHANGED spoiled

Spoil(p) ==
  /\ spoiled' = spoiled \cup {p}
  /\ UNCHANGED <<val, published>>

Expire ==
  /\ val' = None
  /\ UNCHANGED <<published, spoiled>>

Next == (\E p \in Puts : Publish(p) \/ Spoil(p)) \/ Expire

Spec == Init /\ [][Next]_<<val, published, spoiled>>
=============================================================================
