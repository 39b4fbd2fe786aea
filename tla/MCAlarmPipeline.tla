---- MODULE MCAlarmPipeline ----
(* Three values; HIGH is raised at 3, LOW at 1.  The cfgs choose the settings *)
(* and the environment.  Each tag is on a PLC of its own.                     *)
EXTENDS AlarmPipeline, TLC

CONSTANTS t1, t2, p1, p2

OneTag == {t1}
TwoTags == {t1, t2}
MCPlcOf == t1 :> p1 @@ t2 :> p2

Limits(max, min, margin, deadband) ==
  [max |-> max, min |-> min, margin |-> margin, deadband |-> deadband]
ForAll(tags, limits) == [t \in tags |-> limits]

\* The second version has a lower HIGH and no LOW limit.
MovingLimits == <<ForAll(OneTag, Limits(3, 1, 2, 1)), ForAll(OneTag, Limits(2, None, 1, 1))>>
BothLimits   == <<ForAll(OneTag, Limits(3, 1, 1, 1))>>
WideDeadband == <<ForAll(TwoTags, Limits(3, None, 1, 2))>>

JustHigh     == <<ForAll(OneTag, Limits(3, None, 1, 1))>>

\* The second tag gets its settings later.
HighOnly     == ForAll(TwoTags, Limits(3, None, 1, 1))
LateTag      == <<ForAll(OneTag, Limits(3, None, 1, 1)), HighOnly>>
====
