---------------------------- MODULE MCAnnotations ----------------------------
(* A small instance of Annotations for TLC: five built-in keys and one of somebody else's,
   command lines that choose one key twice, and a handful of texts. *)
EXTENDS Annotations, TLC

CONSTANTS kD, kP, kS, kM, kR, kX, now, list, far, odd, zero

Builtin == [r \in Role |-> CASE r = "DaemonSet" -> kD [] r = "Deployment" -> kP
                             [] r = "StatefulSet" -> kS [] r = "RequeueAfter" -> kR
                             [] OTHER -> kM]

\* The built-in keys, and every way of giving one role the key of another or a key of
\* somebody else's.
OneKeyChanged == {[Builtin EXCEPT ![r] = k] : r \in Role, k \in Key}

\* A list with a blank entry, a workload elsewhere, a reference with too many slashes, and
\* what would be read if the time or a duration were taken for a list.
Entries ==
     now :> {<<"now">>}
  @@ list :> {<<"b">>, <<"home", "b">>, <<"c">>, <<>>}
  @@ far :> {<<"away", "b">>}
  @@ odd :> {<<"b">>, <<"away", "b", "c">>}
  @@ zero :> {<<"0s">>}

Seconds == [t \in Text |-> 0]

Annotated == {[None EXCEPT ![kP] = list], [None EXCEPT ![kS] = far, ![kR] = now]}

Changes ==
     {<<"meta", kP, t>> : t \in {Absent, odd, far}}
  \cup {<<"meta", kR, zero>>, <<"meta", kM, Absent>>, <<"meta", kS, Absent>>}
  \cup {<<l, kX, now>> : l \in Level}

Everywhere == {{}, {"home"}, {"away"}}

=============================================================================
