-------------------------- MODULE VersionLifecycle --------------------------
(***************************************************************************)
(* What releasing promises.  A version is claimed by one attempt of one    *)
(* job, once, and from then on it only goes forward, from its tag to a     *)
(* draft to a published release, and only while the attempt that claimed   *)
(* it is alive.  When that attempt is over the version stays as it is.     *)
(***************************************************************************)
CONSTANTS Attempt, Version, NoOwner

VARIABLES
  life,   \* of each attempt: "new", "live" or "over"
  owner,  \* the attempt that claimed a version
  stage   \* of each version

vars == <<life, owner, stage>>

Init ==
  /\ life = [a \in Attempt |-> "new"]
  /\ owner = [v \in Version |-> NoOwner]
  /\ stage = [v \in Version |-> "absent"]

Begin(a) ==
  /\ life[a] = "new" /\ life' = [life EXCEPT ![a] = "live"]
  /\ UNCHANGED <<owner, stage>>

End(a) ==
  /\ life[a] = "live" /\ life' = [life EXCEPT ![a] = "over"]
  /\ UNCHANGED <<owner, stage>>

Claim(v, a) ==
  /\ life[a] = "live" /\ owner[v] = NoOwner /\ stage[v] = "absent"
  /\ owner' = [owner EXCEPT ![v] = a] /\ stage' = [stage EXCEPT ![v] = "tagged"]
  /\ UNCHANGED life

Advance(v) ==
  /\ owner[v] \in Attempt /\ life[owner[v]] = "live"
  /\ \/ stage[v] = "tagged" /\ stage' = [stage EXCEPT ![v] = "draft"]
     \/ stage[v] = "draft" /\ stage' = [stage EXCEPT ![v] = "published"]
  /\ UNCHANGED <<life, owner>>

Next ==
  \/ \E a \in Attempt : Begin(a) \/ End(a) \/ \E v \in Version : Claim(v, a)
  \/ \E v \in Version : Advance(v)

Spec == Init /\ [][Next]_vars
=============================================================================
