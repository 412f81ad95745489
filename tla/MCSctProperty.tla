---------------------------- MODULE MCSctProperty ----------------------------
(* Model-checking instances of SctProperty: the assertions with times up to   *)
(* MaxTime, and those about a rising or falling value.                        *)
EXTENDS SctProperty
CONSTANT MaxTime
Written == [kind : Kind, time : (0 .. MaxTime) \X (0 .. MaxTime)]
RoseFell == {c \in Written : c.kind \in {"rose", "fell"}}
=============================================================================
