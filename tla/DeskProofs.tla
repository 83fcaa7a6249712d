------------------------------- MODULE DeskProofs -------------------------------
(***************************************************************************)
(* Theorems about what an application has on the desk: the output of its   *)
(* commands goes to the client that has asked for it, and the events of    *)
(* its executers, watchers and windows are served.                         *)
(***************************************************************************)
EXTENDS MCDesk, FiniteSetTheorems, SequenceTheorems, TLAPS

--------------------------------------------------------------------------------
(***************************************************************************)
(* Executer: the object, which its methods take and return.                *)
(***************************************************************************)
ExObjects ==
    [field    : [X!AllFields -> X!Requests \cup {Null, Garbage}],
     opened   : SUBSET (X!AllFields \X X!Requests),
     callback : X!Requests \cup {Null},
     code     : X!Requests \cup {Null}]

LEMMA ExFields ==
    /\ X!Fields["Amiga"] = {"stdInRead", "stdOutWrite", "stdOutRead", "port", "packet",
                            "buffer", "sigBit"}
    /\ X!Fields["Qt"] = {"process"}
    /\ X!Fields["Windows"] = {"stdOutRead", "stdOutWrite", "stdInRead", "stdInWrite",
                              "childProcess", "buffer"}
    /\ X!AllFields = X!Fields["Amiga"] \cup X!Fields["Qt"] \cup X!Fields["Windows"]
    /\ X!Kept["Amiga"] = {"stdOutRead", "port", "packet", "buffer", "sigBit"}
    /\ X!Kept["Qt"] = {"process"}
    /\ X!Kept["Windows"] = {"stdOutRead", "stdInWrite", "childProcess", "buffer"}
BY DEF X!Fields, X!AllFields, X!Kept

LEMMA ExPlatforms ==
    ASSUME platform \in Platforms
    PROVE  /\ platform = "Amiga" \/ platform = "Qt" \/ platform = "Windows"
           /\ X!Fields[platform] \subseteq X!AllFields
           /\ X!Kept[platform] \subseteq X!Fields[platform]
<1>1. platform = "Amiga" \/ platform = "Qt" \/ platform = "Windows"
  BY CommandsAssumption
<1> QED BY <1>1, ExFields

\* The object y is x with what r has opened in the members fs.
HasSet(y, x, fs, r) ==
    /\ y \in ExObjects /\ y.callback = x.callback
    /\ y.opened = x.opened \cup (fs \X {r})
    /\ \A f \in X!AllFields : y.field[f] = IF f \in fs THEN r ELSE x.field[f]

LEMMA ExSet ==
    ASSUME NEW x \in ExObjects, NEW fs \in SUBSET X!AllFields, NEW r \in X!Requests
    PROVE  HasSet(X!Set(x, fs, r), x, fs, r)
<1> DEFINE y == X!Set(x, fs, r)
<1>1. y.field = [f \in X!AllFields |-> IF f \in fs THEN r ELSE x.field[f]]
  BY DEF X!Set, ExObjects
<1>2. y.opened = x.opened \cup (fs \X {r}) /\ y.callback = x.callback
  BY DEF X!Set, ExObjects
<1>  DEFINE fields == [f \in X!AllFields |-> IF f \in fs THEN r ELSE x.field[f]]
             uses   == x.opened \cup (fs \X {r})
<1>4. y = [x EXCEPT !.field = fields, !.opened = uses]
  BY DEF X!Set, ExObjects
<1>5. fields \in [X!AllFields -> X!Requests \cup {Null, Garbage}]
  BY DEF ExObjects
<1>6. uses \in SUBSET (X!AllFields \X X!Requests)
  BY DEF ExObjects
<1> HIDE DEF fields, uses
<1>7. [x EXCEPT !.field = fields, !.opened = uses] \in ExObjects
  BY <1>5, <1>6 DEF ExObjects
<1> QED BY <1>1, <1>2, <1>4, <1>7 DEF HasSet

LEMMA ExRelease ==
    ASSUME NEW x \in ExObjects, NEW fs \in SUBSET X!AllFields
    PROVE  /\ X!Release(x, fs) \in ExObjects
           /\ X!Release(x, fs).callback = x.callback
           /\ X!Release(x, fs).opened = x.opened \ {<<f, x.field[f]>> : f \in fs}
           /\ \A f \in X!AllFields :
                 X!Release(x, fs).field[f] = IF f \in fs THEN Null ELSE x.field[f]
<1> DEFINE y == X!Release(x, fs)
<1>1. y.field = [f \in X!AllFields |-> IF f \in fs THEN Null ELSE x.field[f]]
  BY DEF X!Release, ExObjects
<1>2. y.opened = x.opened \ {<<f, x.field[f]>> : f \in fs} /\ y.callback = x.callback
  BY DEF X!Release, ExObjects
<1>  DEFINE fields == [f \in X!AllFields |-> IF f \in fs THEN Null ELSE x.field[f]]
             uses   == x.opened \ {<<f, x.field[f]>> : f \in fs}
<1>4. y = [x EXCEPT !.field = fields, !.opened = uses]
  BY DEF X!Release, ExObjects
<1>5. fields \in [X!AllFields -> X!Requests \cup {Null, Garbage}]
  BY DEF ExObjects
<1>6. uses \in SUBSET (X!AllFields \X X!Requests)
  BY DEF ExObjects
<1> HIDE DEF fields, uses
<1>7. [x EXCEPT !.field = fields, !.opened = uses] \in ExObjects
  BY <1>5, <1>6 DEF ExObjects
<1> QED BY <1>1, <1>2, <1>4, <1>7

LEMMA ExClose ==
    ASSUME platform \in Platforms, NEW x \in ExObjects
    PROVE  /\ X!Close(x) \in ExObjects /\ X!Close(x).callback = x.callback
           /\ platform # "Qt" =>
                 /\ X!Close(x).field = X!Release(x, X!Fields[platform]).field
                 /\ X!Close(x).opened = X!Release(x, X!Fields[platform]).opened
<1> DEFINE y == X!Release(x, X!Fields[platform])
<1>1. y \in ExObjects /\ y.callback = x.callback
  BY ExPlatforms, ExRelease
<1>2. platform # "Qt" => X!Close(x) = [y EXCEPT !.code = Null]
  BY DEF X!Close
<1> HIDE DEF y
<1>3. /\ [y EXCEPT !.code = Null] \in ExObjects /\ [y EXCEPT !.code = Null].callback = y.callback
      /\ [y EXCEPT !.code = Null].field = y.field /\ [y EXCEPT !.code = Null].opened = y.opened
  BY <1>1 DEF ExObjects
<1>4. platform = "Qt" => X!Close(x) = x
  BY DEF X!Close
<1> QED BY <1>1, <1>2, <1>3, <1>4 DEF y

\* close() gives back what the object has, also when it was opened in part only.
LEMMA ExCloseAll ==
    ASSUME platform \in Platforms, platform # "Qt", NEW x \in ExObjects,
           NEW r \in X!Requests, NEW fs \in SUBSET X!Fields[platform],
           x.opened = fs \X {r}, \A f \in fs : x.field[f] = r
    PROVE  /\ X!Close(x).opened = {}
           /\ \A f \in X!Fields[platform] : X!Close(x).field[f] = Null
<1> DEFINE y == X!Release(x, X!Fields[platform])
<1>1. /\ y.opened = x.opened \ {<<f, x.field[f]>> : f \in X!Fields[platform]}
      /\ \A f \in X!AllFields :
            y.field[f] = IF f \in X!Fields[platform] THEN Null ELSE x.field[f]
  BY ExPlatforms, ExRelease
<1>2. X!Close(x).field = y.field /\ X!Close(x).opened = y.opened
  BY ExClose
<1> HIDE DEF y
<1>3. x.opened \subseteq {<<f, x.field[f]>> : f \in X!Fields[platform]}
  OBVIOUS
<1> QED BY <1>1, <1>2, <1>3, ExPlatforms

LEMMA ExRunning ==
    ASSUME platform \in Platforms, NEW x \in ExObjects
    PROVE  /\ X!HasNothing(x) /\ x.callback # Null => ~X!IsRunning(x)
           /\ X!HasNothing(x) /\ platform # "Windows" => ~X!IsRunning(x)
           /\ \A r \in X!Requests : X!IsOf(x, r) => X!IsRunning(x) /\ x.callback = r
<1>1. CASE platform = "Amiga"
  BY <1>1, ExFields, CommandsAssumption DEF X!HasNothing, X!IsOf, X!IsRunning, X!Requests
<1>2. CASE platform = "Qt"
  BY <1>2, ExFields, CommandsAssumption DEF X!HasNothing, X!IsOf, X!IsRunning, X!Requests
<1>3. CASE platform = "Windows"
  BY <1>3, ExFields, CommandsAssumption DEF X!HasNothing, X!IsOf, X!IsRunning, X!Requests
<1> QED BY <1>1, <1>2, <1>3, ExPlatforms

\* The callback of a command that could not be started is set all the same.
Nobody(x, r) == x.callback = r /\ x.opened = {} /\ \A f \in X!Fields[platform] : x.field[f] = Null

ExOutcomes == [object : ExObjects, launched : BOOLEAN, started : BOOLEAN]

ExResult(x, r, o) ==
    /\ o \in ExOutcomes
    /\ X!HasNothing(x) => IF o.launched THEN o.started /\ X!IsOf(o.object, r)
                          ELSE Nobody(o.object, r)
    /\ platform = "Amiga" /\ X!IsRunning(x) => o = X!Outcome(x, FALSE, FALSE)

\* The object x with the callback of r; on Amiga OS there is no exit code by then.
Called(x, r) == [x EXCEPT !.callback = r]

CalledAfresh(x, r) == [x EXCEPT !.callback = r, !.code = Null]

HasCallback(y, x, r) ==
    y \in ExObjects /\ y.callback = r /\ y.opened = x.opened /\ y.field = x.field

LEMMA ExCalled ==
    ASSUME NEW x \in ExObjects, NEW r \in X!Requests
    PROVE  HasCallback(Called(x, r), x, r) /\ HasCallback(CalledAfresh(x, r), x, r)
BY DEF ExObjects, HasCallback, Called, CalledAfresh

LEMMA ExOutcome ==
    ASSUME NEW x \in ExObjects, NEW launched \in BOOLEAN, NEW started \in BOOLEAN
    PROVE  /\ X!Outcome(x, launched, started) \in ExOutcomes
           /\ X!Outcome(x, launched, started).object = x
           /\ X!Outcome(x, launched, started).launched = launched
           /\ X!Outcome(x, launched, started).started = started
BY DEF X!Outcome, ExOutcomes

LEMMA ExLaunchOnQt ==
    ASSUME platform = "Qt", platform \in Platforms, NEW x \in ExObjects, NEW r \in X!Requests,
           NEW o \in X!LaunchOnQt(x, r)
    PROVE  ExResult(x, r, o)
<1> DEFINE y == Called(x, r)
           z == X!Set(y, {"process"}, r)
<1>1. y \in ExObjects /\ y.callback = r /\ y.opened = x.opened /\ y.field = x.field
  BY ExCalled DEF HasCallback
<1> HIDE DEF y
<1>2. /\ z \in ExObjects /\ z.callback = y.callback /\ z.opened = y.opened \cup ({"process"} \X {r})
      /\ z.field["process"] = r
  <2>1. {"process"} \in SUBSET X!AllFields
    BY ExFields
  <2>2. HasSet(z, y, {"process"}, r)
    BY <1>1, <2>1, ExSet
  <2> QED BY <2>1, <2>2 DEF HasSet
<1> HIDE DEF z
<1>3. \/ o = X!Outcome(y, FALSE, FALSE)
      \/ o = X!Outcome(z, TRUE, TRUE) /\ ~X!IsRunning(x)
  BY DEF X!LaunchOnQt, Called, y, z
<1>4. CASE o = X!Outcome(y, FALSE, FALSE)
  <2>1. o \in ExOutcomes /\ o.object = y /\ o.launched = FALSE
    BY <1>1, <1>4, ExOutcome
  <2> QED BY <1>1, <2>1, ExFields DEF ExResult, X!HasNothing, Nobody
<1>5. CASE o = X!Outcome(z, TRUE, TRUE)
  <2>1. o \in ExOutcomes /\ o.object = z /\ o.launched = TRUE /\ o.started = TRUE
    BY <1>2, <1>5, ExOutcome
  <2>2. X!HasNothing(x) => X!IsOf(z, r)
    BY <1>1, <1>2, ExFields DEF X!HasNothing, X!IsOf
  <2> QED BY <2>1, <2>2 DEF ExResult
<1> QED BY <1>3, <1>4, <1>5

\* What was opened for a launch that fails is closed.
LEMMA ExClosed ==
    ASSUME platform \in Platforms, platform # "Qt", NEW x \in ExObjects, NEW r \in X!Requests,
           x.callback = r, NEW fs \in SUBSET X!Fields[platform],
           x.opened \subseteq fs \X {r}, \A f \in fs : <<f, r>> \in x.opened => x.field[f] = r
    PROVE  Nobody(X!Close(x), r)
<1> DEFINE gs == {f \in fs : <<f, r>> \in x.opened}
<1>1. gs \subseteq X!Fields[platform] /\ x.opened = gs \X {r} /\ \A f \in gs : x.field[f] = r
  OBVIOUS
<1> HIDE DEF gs
<1> QED BY <1>1, ExCloseAll, ExClose DEF Nobody

LEMMA ExLaunchOnAmiga ==
    ASSUME platform = "Amiga", platform \in Platforms, NEW x \in ExObjects,
           NEW r \in X!Requests, NEW o \in X!LaunchOnAmiga(x, r)
    PROVE  ExResult(x, r, o)
<1> DEFINE y == CalledAfresh(x, r)
           lent == {"stdInRead", "stdOutWrite"}
<1>1. y \in ExObjects /\ y.callback = r /\ y.opened = x.opened /\ y.field = x.field
  BY ExCalled DEF HasCallback
<1>2. X!Fields["Amiga"] \subseteq X!AllFields
  BY ExFields
<1>3. \/ X!IsRunning(x) /\ o = X!Outcome(x, FALSE, FALSE)
      \/ /\ ~X!IsRunning(x)
         /\ \E fs \in SUBSET X!Fields["Amiga"] :
               o = X!Outcome(X!Close(X!Set(y, fs, r)), FALSE, FALSE)
      \/ /\ ~X!IsRunning(x)
         /\ \E fs \in {X!Fields["Amiga"], X!Fields["Amiga"] \ {"sigBit"}} :
               o = X!Outcome(X!Release(X!Set(y, fs, r), lent), TRUE, TRUE)
  <2> DEFINE first == X!Fields["Amiga"] \ {"sigBit"}
  <2>1. first \subseteq X!Fields["Amiga"]
    OBVIOUS
  <2>2. first \cup {"sigBit"} = X!Fields["Amiga"] /\ first \cup {} = first
    BY ExFields
  <2>3. \/ X!IsRunning(x) /\ o = X!Outcome(x, FALSE, FALSE)
        \/ /\ ~X!IsRunning(x)
           /\ \/ \E fs \in SUBSET first : o = X!Outcome(X!Close(X!Set(y, fs, r)), FALSE, FALSE)
              \/ o = X!Outcome(X!Close(X!Set(y, first \cup {"sigBit"}, r)), FALSE, FALSE)
              \/ \E b \in SUBSET {"sigBit"} :
                    o = X!Outcome(X!Release(X!Set(y, first \cup b, r), lent), TRUE, TRUE)
    BY DEF X!LaunchOnAmiga, X!HandOver, CalledAfresh
  <2>4. \A b \in SUBSET {"sigBit"} : b = {} \/ b = {"sigBit"}
    OBVIOUS
  <2> HIDE DEF y, first
  <2>5. (SUBSET first) \subseteq SUBSET X!Fields["Amiga"]
    BY <2>1
  <2>6. \A b \in SUBSET {"sigBit"} :
           first \cup b \in {X!Fields["Amiga"], first}
    BY <2>2, <2>4
  <2> QED BY <2>2, <2>3, <2>5, <2>6 DEF first
<1> HIDE DEF y
<1>4. CASE X!IsRunning(x) /\ o = X!Outcome(x, FALSE, FALSE)
  BY <1>4, ExOutcome, ExRunning DEF ExResult
<1>5. ASSUME NEW fs \in SUBSET X!Fields["Amiga"], ~X!IsRunning(x),
             o = X!Outcome(X!Close(X!Set(y, fs, r)), FALSE, FALSE)
      PROVE  ExResult(x, r, o)
  <2> DEFINE z == X!Set(y, fs, r)
  <2>1. /\ z \in ExObjects /\ z.callback = r /\ z.opened = x.opened \cup (fs \X {r})
        /\ \A f \in fs : z.field[f] = r
    <3>1. fs \in SUBSET X!AllFields
      BY <1>2
    <3>2. HasSet(z, y, fs, r)
      BY <1>1, <3>1, ExSet
    <3> QED BY <1>1, <3>1, <3>2 DEF HasSet
  <2> HIDE DEF z
  <2>2. /\ X!Close(z) \in ExObjects
        /\ x.opened = {} => Nobody(X!Close(z), r)
    BY <2>1, ExClose, ExClosed
  <2>3. o \in ExOutcomes /\ o.object = X!Close(z) /\ o.launched = FALSE
    BY <1>5, <2>2, ExOutcome DEF z
  <2> QED BY <1>5, <2>2, <2>3 DEF ExResult, X!HasNothing
<1>6. ASSUME NEW fs \in {X!Fields["Amiga"], X!Fields["Amiga"] \ {"sigBit"}}, ~X!IsRunning(x),
             o = X!Outcome(X!Release(X!Set(y, fs, r), lent), TRUE, TRUE)
      PROVE  ExResult(x, r, o)
  <2> DEFINE got  == X!Set(y, fs, r)
             kept == X!Release(got, lent)
  <2>1. /\ got \in ExObjects /\ got.callback = r /\ got.opened = x.opened \cup (fs \X {r})
        /\ \A f \in X!AllFields : got.field[f] = IF f \in fs THEN r ELSE x.field[f]
    <3>1. fs \in SUBSET X!AllFields
      BY <1>2
    <3>2. HasSet(got, y, fs, r)
      BY <1>1, <3>1, ExSet
    <3> QED BY <1>1, <3>2 DEF HasSet
  <2> HIDE DEF got
  <2>2. /\ kept \in ExObjects /\ kept.callback = r
        /\ kept.opened = got.opened \ {<<f, got.field[f]>> : f \in lent}
        /\ \A f \in X!AllFields : kept.field[f] = IF f \in lent THEN Null ELSE got.field[f]
    BY <2>1, ExRelease, ExFields
  <2>3. o \in ExOutcomes /\ o.object = kept /\ o.launched = TRUE /\ o.started = TRUE
    BY <1>6, <2>2, ExOutcome DEF got
  <2> HIDE DEF kept
  <2>4. {<<f, got.field[f]>> : f \in lent} = {<<"stdInRead", r>>, <<"stdOutWrite", r>>}
    BY <2>1, ExFields
  <2> DEFINE left == fs \ lent
  <2>5. left \in {X!Kept["Amiga"], X!Kept["Amiga"] \ {"sigBit"}}
    <3>1. CASE fs = X!Fields["Amiga"]
      <4>1. left = X!Kept["Amiga"]
        BY <3>1, ExFields
      <4> QED BY <4>1
    <3>2. CASE fs = X!Fields["Amiga"] \ {"sigBit"}
      <4>1. left = X!Kept["Amiga"] \ {"sigBit"}
        BY <3>2, ExFields
      <4> QED BY <4>1
    <3> QED BY <1>6, <3>1, <3>2
  <2>6. X!HasNothing(x) => kept.opened = left \X {r}
    BY <2>1, <2>2, <2>4 DEF X!HasNothing
  <2>7. X!HasNothing(x) =>
           \A f \in X!Fields["Amiga"] : kept.field[f] = IF f \in left THEN r ELSE Null
    BY <1>2, <2>1, <2>2 DEF X!HasNothing
  <2> HIDE DEF left
  <2>8. X!HasNothing(x) => X!IsOf(kept, r)
    BY <2>2, <2>5, <2>6, <2>7 DEF X!IsOf
  <2> QED BY <1>6, <2>3, <2>8 DEF ExResult
<1> QED BY <1>3, <1>4, <1>5, <1>6

LEMMA ExLaunchOnWindows ==
    ASSUME platform = "Windows", platform \in Platforms, NEW x \in ExObjects,
           NEW r \in X!Requests, NEW o \in X!LaunchOnWindows(x, r)
    PROVE  ExResult(x, r, o)
<1> DEFINE y  == Called(x, r)
           s3 == {"stdOutRead", "stdOutWrite", "stdInRead", "stdInWrite"}
           z1 == X!Set(y, s3, r)
           z2 == X!Set(z1, {"childProcess"}, r)
           z3 == X!Release(z2, {"stdOutWrite", "stdInRead"})
           z4 == X!Set(z3, {"buffer"}, r)
<1>1. y \in ExObjects /\ y.callback = r /\ y.opened = x.opened /\ y.field = x.field
  BY ExCalled DEF HasCallback
<1>2. /\ X!Fields["Windows"] \subseteq X!AllFields
      /\ s3 \subseteq X!Fields["Windows"] /\ "childProcess" \in X!Fields["Windows"]
      /\ "buffer" \in X!Fields["Windows"]
  BY ExFields
<1>3. \/ \E fs \in SUBSET X!Fields["Windows"] :
            o = X!Outcome(X!Close(X!Set(y, fs, r)), FALSE, FALSE)
      \/ o = X!Outcome(X!Close(y), FALSE, FALSE)
      \/ o = X!Outcome(z4, TRUE, TRUE)
      \/ o = X!Outcome(X!Close(z4), FALSE, TRUE)
  <2> DEFINE steps == <<{"stdOutRead"}, {"stdOutRead", "stdOutWrite"}, s3>>
  <2>1. \A i \in 1 .. 3 : steps[i] \in SUBSET X!Fields["Windows"]
    BY ExFields
  <2>2. X!ChildProcess(z1, r) = z3
    BY DEF X!ChildProcess
  <2>3. \/ o \in {X!Outcome(X!Close(X!Set(y, steps[i], r)), FALSE, FALSE) : i \in 1 .. 3}
        \/ o = X!Outcome(X!Close(y), FALSE, FALSE)
        \/ o = X!Outcome(X!Set(X!ChildProcess(z1, r), {"buffer"}, r), TRUE, TRUE)
        \/ o = X!Outcome(X!Close(X!Set(X!ChildProcess(z1, r), {"buffer"}, r)), FALSE, TRUE)
    BY DEF X!LaunchOnWindows, Called
  <2> HIDE DEF steps, y, z1, z3, s3
  <2> QED BY <2>1, <2>2, <2>3
<1> HIDE DEF y
<1>4. ASSUME NEW fs \in SUBSET X!Fields["Windows"],
             o = X!Outcome(X!Close(X!Set(y, fs, r)), FALSE, FALSE)
      PROVE  ExResult(x, r, o)
  <2> DEFINE z == X!Set(y, fs, r)
  <2>1. /\ z \in ExObjects /\ z.callback = r /\ z.opened = x.opened \cup (fs \X {r})
        /\ \A f \in fs : z.field[f] = r
    <3>1. fs \in SUBSET X!AllFields
      BY <1>2
    <3>2. HasSet(z, y, fs, r)
      BY <1>1, <3>1, ExSet
    <3> QED BY <1>1, <3>1, <3>2 DEF HasSet
  <2> HIDE DEF z
  <2>2. /\ X!Close(z) \in ExObjects
        /\ x.opened = {} => Nobody(X!Close(z), r)
    BY <2>1, ExClose, ExClosed
  <2>3. o \in ExOutcomes /\ o.object = X!Close(z) /\ o.launched = FALSE
    BY <1>4, <2>2, ExOutcome DEF z
  <2> QED BY <2>2, <2>3 DEF ExResult, X!HasNothing
<1>5. CASE o = X!Outcome(X!Close(y), FALSE, FALSE)
  <2>1. /\ X!Close(y) \in ExObjects
        /\ x.opened = {} => Nobody(X!Close(y), r)
    BY <1>1, ExClose, ExClosed
  <2>2. o \in ExOutcomes /\ o.object = X!Close(y) /\ o.launched = FALSE
    BY <1>5, <2>1, ExOutcome
  <2> QED BY <2>1, <2>2 DEF ExResult, X!HasNothing
<1>6. /\ z1 \in ExObjects /\ z1.callback = r /\ z1.opened = x.opened \cup (s3 \X {r})
      /\ \A f \in s3 : z1.field[f] = r
  <2>1. s3 \in SUBSET X!AllFields
    BY <1>2
  <2>2. HasSet(z1, y, s3, r)
    BY <1>1, <2>1, ExSet
  <2> QED BY <1>1, <2>1, <2>2 DEF HasSet
<1> HIDE DEF z1
<1>7. /\ z2 \in ExObjects /\ z2.callback = r
      /\ z2.opened = z1.opened \cup ({"childProcess"} \X {r})
      /\ \A f \in s3 \cup {"childProcess"} : z2.field[f] = r
  <2>1. {"childProcess"} \subseteq X!AllFields
    BY <1>2
  <2>2. /\ z2 \in ExObjects /\ z2.callback = z1.callback
        /\ z2.opened = z1.opened \cup ({"childProcess"} \X {r})
        /\ \A f \in X!AllFields :
              z2.field[f] = IF f \in {"childProcess"} THEN r ELSE z1.field[f]
    <3>1. HasSet(z2, z1, {"childProcess"}, r)
      BY <1>6, <2>1, ExSet
    <3> QED BY <3>1 DEF HasSet
  <2> HIDE DEF z2
  <2> QED BY <1>2, <1>6, <2>2
<1> HIDE DEF z2
<1>8. /\ z3 \in ExObjects /\ z3.callback = r
      /\ z3.opened = z2.opened \ {<<"stdOutWrite", r>>, <<"stdInRead", r>>}
      /\ z3.field["stdOutRead"] = r /\ z3.field["stdInWrite"] = r
      /\ z3.field["childProcess"] = r
      /\ z3.field["stdOutWrite"] = Null /\ z3.field["stdInRead"] = Null
  <2>1. {<<f, z2.field[f]>> : f \in {"stdOutWrite", "stdInRead"}}
           = {<<"stdOutWrite", r>>, <<"stdInRead", r>>}
    BY <1>7
  <2>2. /\ z3 \in ExObjects /\ z3.callback = z2.callback
        /\ z3.opened = z2.opened \ {<<f, z2.field[f]>> : f \in {"stdOutWrite", "stdInRead"}}
        /\ \A f \in X!AllFields :
              z3.field[f] = IF f \in {"stdOutWrite", "stdInRead"} THEN Null ELSE z2.field[f]
    BY <1>2, <1>7, ExRelease
  <2> HIDE DEF z3
  <2> QED BY <1>2, <1>7, <2>1, <2>2
<1> HIDE DEF z3
<1>9. /\ z4 \in ExObjects /\ z4.callback = r /\ z4.opened = z3.opened \cup ({"buffer"} \X {r})
      /\ X!HasNothing(x) => X!IsOf(z4, r)
  <2>1. /\ z4 \in ExObjects /\ z4.callback = z3.callback
        /\ z4.opened = z3.opened \cup ({"buffer"} \X {r})
        /\ \A f \in X!AllFields : z4.field[f] = IF f \in {"buffer"} THEN r ELSE z3.field[f]
    <3>1. {"buffer"} \subseteq X!AllFields
      BY <1>2
    <3>2. HasSet(z4, z3, {"buffer"}, r)
      BY <1>8, <3>1, ExSet
    <3> QED BY <3>2 DEF HasSet
  <2> HIDE DEF z4
  <2>2. x.opened = {} => z4.opened = X!Kept["Windows"] \X {r}
    BY <1>6, <1>7, <1>8, <2>1, ExFields
  <2>3. \A f \in X!Fields["Windows"] : z4.field[f] = IF f \in X!Kept["Windows"] THEN r ELSE Null
    BY <1>2, <1>8, <2>1, ExFields
  <2> QED BY <1>8, <2>1, <2>2, <2>3 DEF X!HasNothing, X!IsOf
<1> HIDE DEF z4
<1>10. CASE o = X!Outcome(z4, TRUE, TRUE)
  <2>1. o \in ExOutcomes /\ o.object = z4 /\ o.launched = TRUE /\ o.started = TRUE
    BY <1>9, <1>10, ExOutcome
  <2> QED BY <1>9, <2>1 DEF ExResult
<1>11. CASE o = X!Outcome(X!Close(z4), FALSE, TRUE)
  <2>1. X!Close(z4) \in ExObjects /\ (X!HasNothing(x) => Nobody(X!Close(z4), r))
    <3>1. X!Close(z4) \in ExObjects
      BY <1>9, ExClose
    <3>2. ASSUME X!HasNothing(x) PROVE Nobody(X!Close(z4), r)
      <4>1. /\ X!Kept["Windows"] \subseteq X!Fields["Windows"]
            /\ X!Kept["Windows"] \ {"sigBit"} = X!Kept["Windows"]
        BY ExFields
      <4>2. /\ z4.opened \subseteq X!Kept["Windows"] \X {r}
            /\ \A f \in X!Kept["Windows"] : z4.field[f] = r
        BY <1>9, <3>2, <4>1 DEF X!IsOf
      <4> QED BY <1>9, <4>1, <4>2, ExClosed
    <3> QED BY <3>1, <3>2
  <2>2. o \in ExOutcomes /\ o.object = X!Close(z4) /\ o.launched = FALSE
    BY <1>11, <2>1, ExOutcome
  <2> QED BY <2>1, <2>2 DEF ExResult
<1> QED BY <1>3, <1>4, <1>5, <1>10, <1>11

\* launchCommand() of an object that has nothing, and of one that is busy on Amiga OS.
LEMMA ExLaunch ==
    ASSUME platform \in Platforms, NEW x \in ExObjects, NEW r \in X!Requests,
           NEW o \in X!LaunchCommand(x, r)
    PROVE  ExResult(x, r, o)
<1>1. CASE platform = "Amiga"
  BY <1>1, ExLaunchOnAmiga DEF X!LaunchCommand
<1>2. CASE platform = "Qt"
  BY <1>2, ExLaunchOnQt DEF X!LaunchCommand
<1>3. CASE platform = "Windows"
  BY <1>3, ExLaunchOnWindows DEF X!LaunchCommand
<1> QED BY <1>1, <1>2, <1>3, ExPlatforms

--------------------------------------------------------------------------------
(***************************************************************************)
(* Executer: what a client was told and the pipes, in the order of what    *)
(* has been written.                                                       *)
(***************************************************************************)
ExEnds == {"out", "err"}

ExPipes == [ExEnds -> Seq(X!Things)]

\* The first k pieces of a channel are taken, and told.
Takes(t, u, p, q, c, k) ==
    /\ k \in 0 .. Len(p[c]) /\ \A i \in 1 .. k : p[c][i].n > 0
    /\ Len(u) = Len(t) + k
    /\ \A i \in DOMAIN t : u[i] = t[i]
    /\ \A i \in 1 .. k : u[Len(t) + i] = p[c][i]
    /\ \A d \in ExEnds \ {c} : q[d] = p[d]
    /\ Len(q[c]) = Len(p[c]) - k
    /\ \A j \in 1 .. Len(q[c]) : q[c][j] = p[c][k + j]

LEMMA ExTake ==
    ASSUME NEW r \in X!Requests, NEW t \in Seq(X!Things), NEW p \in ExPipes, NEW w \in Nat,
           X!InOrder(r, t, p, w), NEW u \in Seq(X!Things), NEW q \in ExPipes,
           NEW c \in ExEnds, NEW k, Takes(t, u, p, q, c, k)
    PROVE  X!InOrder(r, u, q, w)
<1>0. /\ k \in 0 .. Len(p[c]) /\ \A i \in 1 .. k : p[c][i].n > 0
      /\ Len(u) = Len(t) + k
      /\ \A i \in DOMAIN t : u[i] = t[i]
      /\ \A i \in 1 .. k : u[Len(t) + i] = p[c][i]
      /\ \A d \in ExEnds \ {c} : q[d] = p[d]
      /\ Len(q[c]) = Len(p[c]) - k
      /\ \A j \in 1 .. Len(q[c]) : q[c][j] = p[c][k + j]
  BY DEF Takes
<1> USE <1>0
<1>1. /\ DOMAIN t = 1 .. Len(t) /\ DOMAIN u = 1 .. Len(u)
      /\ Len(t) \in Nat /\ Len(u) \in Nat
  OBVIOUS
<1>2. \A d \in ExEnds : /\ p[d] \in Seq(X!Things) /\ q[d] \in Seq(X!Things)
                        /\ DOMAIN p[d] = 1 .. Len(p[d]) /\ DOMAIN q[d] = 1 .. Len(q[d])
                        /\ Len(p[d]) \in Nat /\ Len(q[d]) \in Nat
  BY DEF ExPipes
\* Where each of them was.
<1>3. \A i \in DOMAIN u :
         \/ i \in DOMAIN t /\ u[i] = t[i]
         \/ i > Len(t) /\ i - Len(t) \in 1 .. k /\ u[i] = p[c][i - Len(t)]
  <2> TAKE i \in DOMAIN u
  <2>1. CASE i <= Len(t)
    BY <1>1, <2>1
  <2>2. CASE i > Len(t)
    <3> DEFINE m == i - Len(t)
    <3>1. m \in 1 .. k /\ i = Len(t) + m
      BY <1>1, <2>2
    <3> QED BY <2>2, <3>1
  <2> QED BY <1>1, <2>1, <2>2
<1>4. \A i \in DOMAIN t : i \in DOMAIN u /\ u[i] = t[i]
  BY <1>1
<1>5. \A i \in 1 .. k : Len(t) + i \in DOMAIN u /\ u[Len(t) + i] = p[c][i]
  <2> TAKE i \in 1 .. k
  <2>1. k \in Nat /\ i \in Nat /\ i <= k /\ i > 0
    BY <1>2
  <2>2. Len(t) + i \in 1 .. Len(u)
    BY <1>1, <2>1
  <2>3. u[Len(t) + i] = p[c][i]
    OBVIOUS
  <2> QED BY <1>1, <2>2, <2>3
<1>6. \A j \in DOMAIN q[c] : k + j \in DOMAIN p[c] /\ k + j > k /\ q[c][j] = p[c][k + j]
  <2> TAKE j \in DOMAIN q[c]
  <2>1. j \in Nat /\ j > 0 /\ j <= Len(q[c]) /\ k \in Nat
    BY <1>2
  <2>2. k + j \in 1 .. Len(p[c]) /\ k + j > k
    BY <1>2, <2>1
  <2>3. j \in 1 .. Len(q[c])
    BY <1>2
  <2>4. q[c][j] = p[c][k + j]
    BY <2>3
  <2> QED BY <1>2, <2>2, <2>4
<1>7. \A j \in DOMAIN p[c] : j > k => j - k \in DOMAIN q[c] /\ q[c][j - k] = p[c][j]
  <2> TAKE j \in DOMAIN p[c]
  <2> DEFINE m == j - k
  <2>1. j \in Nat /\ k \in Nat
    BY <1>2
  <2>2. j > k => m \in 1 .. Len(q[c]) /\ j = k + m
    BY <1>2, <2>1
  <2> HIDE DEF m
  <2>3. j > k => m \in DOMAIN q[c] /\ q[c][m] = p[c][j]
    BY <1>2, <2>2
  <2> QED BY <2>3 DEF m
<1>8. 1 .. k \subseteq DOMAIN p[c]
  BY <1>2
<1>9. /\ \A i \in DOMAIN t : t[i].n \in 0 .. w /\ (t[i].n > 0 => t[i].of = r)
      /\ \A d \in ExEnds : \A j \in DOMAIN p[d] :
            p[d][j].of = r /\ p[d][j].by = d /\ p[d][j].n \in 0 .. w
  BY DEF X!InOrder, ExEnds
<1>10. \A i \in DOMAIN t, d \in ExEnds : \A j \in DOMAIN p[d] :
          t[i].n > 0 /\ p[d][j].n > 0 =>
             t[i].n # p[d][j].n /\ (t[i].by = d => t[i].n < p[d][j].n)
  BY DEF X!InOrder, ExEnds
<1>11. \A d \in ExEnds : \A j, l \in DOMAIN p[d] :
          p[d][j].n > 0 /\ p[d][l].n > 0 /\ j < l => p[d][j].n < p[d][l].n
  BY DEF X!InOrder, ExEnds
<1>12. \A d \in ExEnds : d # c => \A i \in DOMAIN p[c], j \in DOMAIN p[d] :
          p[c][i].n > 0 /\ p[d][j].n > 0 => p[c][i].n # p[d][j].n
  BY DEF X!InOrder, ExEnds
<1>13. \A i, j \in DOMAIN t : t[i].n > 0 /\ t[j].n > 0 /\ i < j =>
          t[i].n # t[j].n /\ (t[i].by = t[j].by => t[i].n < t[j].n)
  BY DEF X!InOrder
<1>14. \A m \in 1 .. w :
          \/ \E i \in DOMAIN t : t[i].n = m
          \/ \E d \in ExEnds : \E j \in DOMAIN p[d] : p[d][j].n = m
  BY DEF X!InOrder, ExEnds
<1>15. \A d \in ExEnds : \A j \in DOMAIN q[d] :
          \E l \in DOMAIN p[d] : q[d][j] = p[d][l] /\ (d = c => l = k + j) /\ (d # c => l = j)
  <2>1. \A j \in DOMAIN q[c] : \E l \in DOMAIN p[c] : q[c][j] = p[c][l] /\ l = k + j
    BY <1>6
  <2>2. \A d \in ExEnds : d # c => q[d] = p[d]
    OBVIOUS
  <2> QED BY <2>1, <2>2
<1>21. \A i \in DOMAIN u : u[i].n \in 0 .. w /\ (u[i].n > 0 => u[i].of = r)
  <2> TAKE i \in DOMAIN u
  <2>1. CASE i \in DOMAIN t /\ u[i] = t[i]
    BY <1>9, <2>1
  <2>2. CASE i - Len(t) \in 1 .. k /\ u[i] = p[c][i - Len(t)]
    <3> DEFINE m == i - Len(t)
    <3>1. m \in DOMAIN p[c] /\ u[i] = p[c][m]
      BY <1>8, <2>2
    <3> HIDE DEF m
    <3> QED BY <1>9, <3>1
  <2> QED BY <1>3, <2>1, <2>2
<1>22. \A d \in ExEnds : \A j \in DOMAIN q[d] :
          /\ q[d][j].of = r /\ q[d][j].by = d /\ q[d][j].n \in 0 .. w
          /\ \A i \in DOMAIN u : u[i].n > 0 /\ q[d][j].n > 0 =>
                u[i].n # q[d][j].n /\ (u[i].by = d => u[i].n < q[d][j].n)
          /\ \A l \in DOMAIN q[d] :
                q[d][j].n > 0 /\ q[d][l].n > 0 /\ j < l => q[d][j].n < q[d][l].n
  <2> TAKE d \in ExEnds
  <2> TAKE j \in DOMAIN q[d]
  <2>1. PICK l \in DOMAIN p[d] :
           q[d][j] = p[d][l] /\ (d = c => l = k + j) /\ (d # c => l = j)
    BY <1>15
  <2>2. q[d][j].of = r /\ q[d][j].by = d /\ q[d][j].n \in 0 .. w
    BY <1>9, <2>1
  <2>3. ASSUME NEW i \in DOMAIN u, u[i].n > 0, q[d][j].n > 0
        PROVE  u[i].n # q[d][j].n /\ (u[i].by = d => u[i].n < q[d][j].n)
    <3>1. CASE i \in DOMAIN t /\ u[i] = t[i]
      BY <1>10, <2>1, <2>3, <3>1
    <3>2. CASE i > Len(t) /\ i - Len(t) \in 1 .. k /\ u[i] = p[c][i - Len(t)]
      <4> DEFINE m == i - Len(t)
      <4>1. m \in 1 .. k /\ u[i] = p[c][m]
        BY <3>2
      <4> HIDE DEF m
      <4>2. m \in DOMAIN p[c] /\ u[i].by = c /\ u[i].n \in 0 .. w
        BY <1>8, <1>9, <4>1
      <4>3. CASE d = c
        <5>1. l \in DOMAIN p[c] /\ l = k + j /\ j \in 1 .. Len(q[c]) /\ Len(q[c]) \in Nat
          BY <1>2, <2>1, <4>3
        <5>2. m < l
          BY <1>2, <4>1, <5>1
        <5>3. p[c][m].n < p[c][l].n
          BY <1>11, <2>1, <2>3, <4>1, <4>2, <4>3, <5>1, <5>2, SMTT(30)
        <5> QED BY <2>1, <2>2, <4>1, <4>2, <4>3, <5>3
      <4>4. CASE d # c
        BY <1>12, <2>1, <2>3, <4>1, <4>2, <4>4
      <4> QED BY <4>3, <4>4
    <3> QED BY <1>3, <3>1, <3>2
  <2>4. ASSUME NEW i \in DOMAIN q[d], q[d][j].n > 0, q[d][i].n > 0, j < i
        PROVE  q[d][j].n < q[d][i].n
    <3>1. PICK m \in DOMAIN p[d] :
             q[d][i] = p[d][m] /\ (d = c => m = k + i) /\ (d # c => m = i)
      BY <1>15
    <3>2. i \in Nat /\ j \in Nat /\ k \in Nat
      BY <1>2
    <3>3. l < m
      BY <2>1, <2>4, <3>1, <3>2
    <3> QED BY <1>11, <2>1, <2>4, <3>1, <3>3
  <2> QED BY <2>2, <2>3, <2>4
<1>23. \A i \in DOMAIN q["out"], j \in DOMAIN q["err"] :
          q["out"][i].n > 0 => q["out"][i].n # q["err"][j].n
  <2> TAKE i \in DOMAIN q["out"], j \in DOMAIN q["err"]
  <2>1. PICK l \in DOMAIN p["out"] : q["out"][i] = p["out"][l]
    BY <1>15 DEF ExEnds
  <2>2. PICK m \in DOMAIN p["err"] : q["err"][j] = p["err"][m]
    BY <1>15 DEF ExEnds
  <2> QED BY <2>1, <2>2 DEF X!InOrder
<1>24. \A i, j \in DOMAIN u : u[i].n > 0 /\ u[j].n > 0 /\ i < j =>
          u[i].n # u[j].n /\ (u[i].by = u[j].by => u[i].n < u[j].n)
  <2> SUFFICES ASSUME NEW i \in DOMAIN u, NEW j \in DOMAIN u,
                      u[i].n > 0, u[j].n > 0, i < j
               PROVE  u[i].n # u[j].n /\ (u[i].by = u[j].by => u[i].n < u[j].n)
    OBVIOUS
  <2>1. CASE j \in DOMAIN t /\ u[j] = t[j]
    <3>1. i \in DOMAIN t
      BY <1>1, <2>1
    <3> QED BY <1>4, <1>13, <2>1, <3>1
  <2>2. CASE j > Len(t) /\ j - Len(t) \in 1 .. k /\ u[j] = p[c][j - Len(t)]
    <3> DEFINE m == j - Len(t)
    <3>1. m \in 1 .. k /\ u[j] = p[c][m]
      BY <2>2
    <3> HIDE DEF m
    <3>2. m \in DOMAIN p[c] /\ u[j].by = c /\ u[j].n \in 0 .. w
      BY <1>8, <1>9, <3>1
    <3>3. CASE i \in DOMAIN t /\ u[i] = t[i]
      BY <1>10, <3>1, <3>2, <3>3
    <3>4. CASE i > Len(t) /\ i - Len(t) \in 1 .. k /\ u[i] = p[c][i - Len(t)]
      <4> DEFINE l == i - Len(t)
      <4>1. l \in 1 .. k /\ u[i] = p[c][l]
        BY <3>4
      <4>2. l < m
        BY <1>1 DEF m
      <4> HIDE DEF l
      <4>3. l \in DOMAIN p[c] /\ u[i].n \in 0 .. w
        BY <1>8, <1>9, <4>1
      <4>4. u[i].n < u[j].n
        BY <1>11, <3>1, <3>2, <4>1, <4>2, <4>3
      <4> QED BY <3>2, <4>3, <4>4
    <3> QED BY <1>3, <3>3, <3>4
  <2> QED BY <1>3, <2>1, <2>2
<1>25. \A m \in 1 .. w :
          \/ \E i \in DOMAIN u : u[i].n = m
          \/ \E d \in ExEnds : \E j \in DOMAIN q[d] : q[d][j].n = m
  <2> TAKE m \in 1 .. w
  <2>1. CASE \E i \in DOMAIN t : t[i].n = m
    BY <1>4, <2>1
  <2>2. ASSUME NEW d \in ExEnds, NEW j \in DOMAIN p[d], p[d][j].n = m
        PROVE  \/ \E i \in DOMAIN u : u[i].n = m
               \/ \E e \in ExEnds : \E i \in DOMAIN q[e] : q[e][i].n = m
    <3>1. CASE d = c /\ j <= k
      <4>1. j \in 1 .. k
        BY <1>2, <3>1
      <4> QED BY <1>5, <2>2, <3>1, <4>1
    <3>2. CASE d = c /\ j > k
      BY <1>7, <2>2, <3>2
    <3>3. CASE d # c
      BY <2>2, <3>3
    <3>4. d = c => j <= k \/ j > k
      BY <1>2
    <3> QED BY <3>1, <3>2, <3>3, <3>4
  <2> QED BY <1>14, <2>1, <2>2
<1> QED BY <1>21, <1>22, <1>23, <1>24, <1>25 DEF X!InOrder, ExEnds

\* A command writes, or on Windows writes no bytes.
LEMMA ExAdd ==
    ASSUME NEW r \in X!Requests, NEW t \in Seq(X!Things), NEW p \in ExPipes, NEW w \in Nat,
           X!InOrder(r, t, p, w), NEW c \in ExEnds, NEW x \in X!Things, NEW v \in Nat,
           x.of = r, x.by = c, (x.n = w + 1 /\ v = w + 1) \/ (x.n = 0 /\ v = w),
           NEW q \in ExPipes, \A d \in ExEnds \ {c} : q[d] = p[d],
           Len(q[c]) = Len(p[c]) + 1, q[c][Len(p[c]) + 1] = x,
           \A j \in 1 .. Len(p[c]) : q[c][j] = p[c][j]
    PROVE  X!InOrder(r, t, q, v)
<1>1. \A d \in ExEnds : /\ p[d] \in Seq(X!Things) /\ q[d] \in Seq(X!Things)
                        /\ DOMAIN p[d] = 1 .. Len(p[d]) /\ DOMAIN q[d] = 1 .. Len(q[d])
                        /\ Len(p[d]) \in Nat /\ Len(q[d]) \in Nat
  BY DEF ExPipes
<1>2. \A d \in ExEnds : \A j \in DOMAIN q[d] :
         \/ j \in DOMAIN p[d] /\ q[d][j] = p[d][j]
         \/ d = c /\ q[d][j] = x /\ j = Len(p[c]) + 1
  <2>1. \A d \in ExEnds : d # c => q[d] = p[d]
    OBVIOUS
  <2>2. \A j \in DOMAIN q[c] : \/ j \in DOMAIN p[c] /\ q[c][j] = p[c][j]
                               \/ q[c][j] = x /\ j = Len(p[c]) + 1
    <3> TAKE j \in DOMAIN q[c]
    <3>1. j \in 1 .. Len(p[c]) \/ j = Len(p[c]) + 1
      BY <1>1
    <3>2. CASE j \in 1 .. Len(p[c])
      BY <1>1, <3>2
    <3>3. CASE j = Len(p[c]) + 1
      BY <1>1, <3>3
    <3> QED BY <3>1, <3>2, <3>3
  <2> QED BY <2>1, <2>2
<1>3. \A d \in ExEnds : \A j \in DOMAIN p[d] : j \in DOMAIN q[d] /\ q[d][j] = p[d][j]
  <2>1. \A d \in ExEnds : d # c => q[d] = p[d]
    OBVIOUS
  <2>2. \A j \in DOMAIN p[c] : j \in DOMAIN q[c] /\ q[c][j] = p[c][j]
    <3> TAKE j \in DOMAIN p[c]
    <3>1. j \in 1 .. Len(p[c]) /\ Len(p[c]) \in Nat /\ DOMAIN q[c] = 1 .. Len(p[c]) + 1
      BY <1>1
    <3> QED BY <3>1
  <2> QED BY <2>1, <2>2
<1>4. Len(p[c]) + 1 \in DOMAIN q[c] /\ q[c][Len(p[c]) + 1] = x
  BY <1>1
<1>5. /\ \A i \in DOMAIN t : t[i].n \in 0 .. w /\ (t[i].n > 0 => t[i].of = r)
      /\ \A d \in ExEnds : \A j \in DOMAIN p[d] :
            p[d][j].of = r /\ p[d][j].by = d /\ p[d][j].n \in 0 .. w
  BY DEF X!InOrder, ExEnds
<1>6. \A i \in DOMAIN t, d \in ExEnds : \A j \in DOMAIN p[d] :
         t[i].n > 0 /\ p[d][j].n > 0 =>
            t[i].n # p[d][j].n /\ (t[i].by = d => t[i].n < p[d][j].n)
  BY DEF X!InOrder, ExEnds
<1>7. \A d \in ExEnds : \A j, l \in DOMAIN p[d] :
         p[d][j].n > 0 /\ p[d][l].n > 0 /\ j < l => p[d][j].n < p[d][l].n
  BY DEF X!InOrder, ExEnds
<1>8. \A m \in 1 .. w :
         \/ \E i \in DOMAIN t : t[i].n = m
         \/ \E d \in ExEnds : \E j \in DOMAIN p[d] : p[d][j].n = m
  BY DEF X!InOrder, ExEnds
<1>11. \A i \in DOMAIN t : t[i].n \in 0 .. v /\ (t[i].n > 0 => t[i].of = r)
  BY <1>5
<1>12. \A d \in ExEnds : \A j \in DOMAIN q[d] :
          /\ q[d][j].of = r /\ q[d][j].by = d /\ q[d][j].n \in 0 .. v
          /\ \A i \in DOMAIN t : t[i].n > 0 /\ q[d][j].n > 0 =>
                t[i].n # q[d][j].n /\ (t[i].by = d => t[i].n < q[d][j].n)
          /\ \A l \in DOMAIN q[d] :
                q[d][j].n > 0 /\ q[d][l].n > 0 /\ j < l => q[d][j].n < q[d][l].n
  <2> TAKE d \in ExEnds
  <2> TAKE j \in DOMAIN q[d]
  <2>1. CASE j \in DOMAIN p[d] /\ q[d][j] = p[d][j]
    <3>1. q[d][j].of = r /\ q[d][j].by = d /\ q[d][j].n \in 0 .. w
      BY <1>5, <2>1
    <3>2. \A i \in DOMAIN t : t[i].n > 0 /\ q[d][j].n > 0 =>
             t[i].n # q[d][j].n /\ (t[i].by = d => t[i].n < q[d][j].n)
      BY <1>6, <2>1
    <3>3. ASSUME NEW l \in DOMAIN q[d], q[d][j].n > 0, q[d][l].n > 0, j < l
          PROVE  q[d][j].n < q[d][l].n
      <4>1. CASE l \in DOMAIN p[d] /\ q[d][l] = p[d][l]
        BY <1>7, <2>1, <3>3, <4>1
      <4>2. CASE q[d][l] = x
        BY <3>1, <3>3, <4>2
      <4> QED BY <1>2, <4>1, <4>2
    <3> QED BY <3>1, <3>2, <3>3
  <2>2. CASE d = c /\ q[d][j] = x /\ j = Len(p[c]) + 1
    <3>1. \A l \in DOMAIN q[d] : ~(j < l)
      <4>1. DOMAIN q[d] = 1 .. j /\ j \in Nat
        BY <1>1, <2>2
      <4> QED BY <4>1
    <3> QED BY <1>5, <2>2, <3>1
  <2> QED BY <1>2, <2>1, <2>2
<1>13. \A i \in DOMAIN q["out"], j \in DOMAIN q["err"] :
          q["out"][i].n > 0 => q["out"][i].n # q["err"][j].n
  <2> TAKE i \in DOMAIN q["out"], j \in DOMAIN q["err"]
  <2>1. CASE /\ i \in DOMAIN p["out"] /\ q["out"][i] = p["out"][i]
             /\ j \in DOMAIN p["err"] /\ q["err"][j] = p["err"][j]
    BY <2>1 DEF X!InOrder
  <2>2. CASE /\ c = "out" /\ q["out"][i] = x
             /\ j \in DOMAIN p["err"] /\ q["err"][j] = p["err"][j]
    BY <1>5, <2>2 DEF ExEnds
  <2>3. CASE /\ i \in DOMAIN p["out"] /\ q["out"][i] = p["out"][i]
             /\ c = "err" /\ q["err"][j] = x
    BY <1>5, <2>3 DEF ExEnds
  <2> QED BY <1>2, <2>1, <2>2, <2>3 DEF ExEnds
<1>14. \A i, j \in DOMAIN t : t[i].n > 0 /\ t[j].n > 0 /\ i < j =>
          t[i].n # t[j].n /\ (t[i].by = t[j].by => t[i].n < t[j].n)
  BY DEF X!InOrder
<1>15. \A m \in 1 .. v :
          \/ \E i \in DOMAIN t : t[i].n = m
          \/ \E d \in ExEnds : \E j \in DOMAIN q[d] : q[d][j].n = m
  <2> TAKE m \in 1 .. v
  <2>1. CASE m \in 1 .. w
    <3>1. CASE \E i \in DOMAIN t : t[i].n = m
      BY <3>1
    <3>2. ASSUME NEW d \in ExEnds, NEW j \in DOMAIN p[d], p[d][j].n = m
          PROVE  \E l \in DOMAIN q[d] : q[d][l].n = m
      BY <1>3, <3>2
    <3> QED BY <1>8, <2>1, <3>1, <3>2
  <2>2. CASE m = w + 1 /\ x.n = w + 1
    BY <1>4, <2>2
  <2> QED BY <2>1, <2>2
<1> QED BY <1>11, <1>12, <1>13, <1>14, <1>15 DEF X!InOrder, ExEnds

\* The end is told.
LEMMA ExEnd ==
    ASSUME NEW r \in X!Requests, NEW t \in Seq(X!Things), NEW p \in ExPipes, NEW w \in Nat,
           X!InOrder(r, t, p, w), NEW e \in X!Things, e.n = 0
    PROVE  X!InOrder(r, Append(t, e), p, w)
<1> DEFINE u == Append(t, e)
<1>1. /\ DOMAIN t = 1 .. Len(t) /\ DOMAIN u = 1 .. Len(t) + 1 /\ Len(t) \in Nat
      /\ \A i \in DOMAIN t : u[i] = t[i]
      /\ u[Len(t) + 1] = e
  BY AppendProperties
<1> HIDE DEF u
<1>2. \A i \in DOMAIN u : (i \in DOMAIN t /\ u[i] = t[i]) \/ u[i].n = 0
  BY <1>1
<1>3. \A i \in DOMAIN t : i \in DOMAIN u /\ u[i] = t[i]
  BY <1>1
<1>11. \A i \in DOMAIN u : u[i].n \in 0 .. w /\ (u[i].n > 0 => u[i].of = r)
  BY <1>2 DEF X!InOrder
<1>12. \A i \in DOMAIN u : u[i].n > 0 => i \in DOMAIN t /\ u[i] = t[i]
  BY <1>2
<1>13. \A m \in 1 .. w :
          \/ \E i \in DOMAIN u : u[i].n = m
          \/ \E c \in {"out", "err"} : \E j \in DOMAIN p[c] : p[c][j].n = m
  BY <1>3 DEF X!InOrder
<1>14. \A i, j \in DOMAIN u : u[i].n > 0 /\ u[j].n > 0 /\ i < j =>
          u[i].n # u[j].n /\ (u[i].by = u[j].by => u[i].n < u[j].n)
  BY <1>12 DEF X!InOrder
<1>15. \A c \in {"out", "err"} : \A j \in DOMAIN p[c] :
          /\ p[c][j].of = r /\ p[c][j].by = c /\ p[c][j].n \in 0 .. w
          /\ \A i \in DOMAIN u : u[i].n > 0 /\ p[c][j].n > 0 =>
                u[i].n # p[c][j].n /\ (u[i].by = c => u[i].n < p[c][j].n)
          /\ \A k \in DOMAIN p[c] : p[c][j].n > 0 /\ p[c][k].n > 0 /\ j < k =>
                p[c][j].n < p[c][k].n
  BY <1>12 DEF X!InOrder
<1>16. \A i \in DOMAIN p["out"], j \in DOMAIN p["err"] :
          p["out"][i].n > 0 => p["out"][i].n # p["err"][j].n
  BY DEF X!InOrder
<1>17. X!InOrder(r, u, p, w)
  BY <1>11, <1>13, <1>14, <1>15, <1>16 DEF X!InOrder
<1> QED BY <1>17 DEF u

\* No bytes are read.
LEMMA ExDrop ==
    ASSUME NEW r \in X!Requests, NEW t \in Seq(X!Things), NEW p \in ExPipes, NEW w \in Nat,
           X!InOrder(r, t, p, w), NEW c \in ExEnds,
           p[c] # <<>>, p[c][1].n = 0,
           NEW q \in ExPipes, \A d \in ExEnds \ {c} : q[d] = p[d],
           q[c] = Tail(p[c])
    PROVE  X!InOrder(r, t, q, w)
<1>1. \A d \in ExEnds : /\ p[d] \in Seq(X!Things) /\ q[d] \in Seq(X!Things)
                        /\ DOMAIN p[d] = 1 .. Len(p[d]) /\ DOMAIN q[d] = 1 .. Len(q[d])
                        /\ Len(p[d]) \in Nat /\ Len(q[d]) \in Nat
  BY DEF ExPipes
<1>2. /\ Len(p[c]) > 0 /\ Len(q[c]) = Len(p[c]) - 1
      /\ \A j \in 1 .. Len(q[c]) : q[c][j] = p[c][j + 1]
  BY <1>1, HeadTailProperties
<1>3. \A d \in ExEnds : \A j \in DOMAIN q[d] :
         \E l \in DOMAIN p[d] : q[d][j] = p[d][l] /\ l = IF d = c THEN j + 1 ELSE j
  <2>1. \A j \in DOMAIN q[c] : j + 1 \in DOMAIN p[c] /\ q[c][j] = p[c][j + 1]
    BY <1>1, <1>2
  <2>2. \A d \in ExEnds : d # c => q[d] = p[d]
    OBVIOUS
  <2> QED BY <2>1, <2>2
<1>4. \A d \in ExEnds : \A j \in DOMAIN p[d] : p[d][j].n # 0 =>
         \E l \in DOMAIN q[d] : q[d][l] = p[d][j]
  <2>1. \A j \in DOMAIN p[c] : j > 1 => j - 1 \in DOMAIN q[c] /\ q[c][j - 1] = p[c][j]
    <3> TAKE j \in DOMAIN p[c]
    <3> DEFINE m == j - 1
    <3>1. j > 1 => m \in 1 .. Len(q[c]) /\ j = m + 1
      BY <1>1, <1>2
    <3> HIDE DEF m
    <3>2. j > 1 => m \in DOMAIN q[c] /\ q[c][m] = p[c][j]
      BY <1>1, <1>2, <3>1
    <3> QED BY <3>2 DEF m
  <2>2. \A j \in DOMAIN p[c] : j = 1 \/ j > 1
    BY <1>1
  <2>3. \A d \in ExEnds : d # c => q[d] = p[d]
    OBVIOUS
  <2> QED BY <2>1, <2>2, <2>3
<1>5. \A d \in ExEnds : \A j \in DOMAIN q[d] :
          /\ q[d][j].of = r /\ q[d][j].by = d /\ q[d][j].n \in 0 .. w
          /\ \A i \in DOMAIN t : t[i].n > 0 /\ q[d][j].n > 0 =>
                t[i].n # q[d][j].n /\ (t[i].by = d => t[i].n < q[d][j].n)
          /\ \A l \in DOMAIN q[d] :
                q[d][j].n > 0 /\ q[d][l].n > 0 /\ j < l => q[d][j].n < q[d][l].n
  <2> TAKE d \in ExEnds
  <2> TAKE j \in DOMAIN q[d]
  <2>1. PICK m \in DOMAIN p[d] : q[d][j] = p[d][m] /\ m = IF d = c THEN j + 1 ELSE j
    BY <1>3
  <2>2. /\ q[d][j].of = r /\ q[d][j].by = d /\ q[d][j].n \in 0 .. w
        /\ \A i \in DOMAIN t : t[i].n > 0 /\ q[d][j].n > 0 =>
              t[i].n # q[d][j].n /\ (t[i].by = d => t[i].n < q[d][j].n)
    BY <2>1 DEF X!InOrder, ExEnds
  <2>3. ASSUME NEW l \in DOMAIN q[d], q[d][j].n > 0, q[d][l].n > 0, j < l
        PROVE  q[d][j].n < q[d][l].n
    <3>1. PICK k \in DOMAIN p[d] : q[d][l] = p[d][k] /\ k = IF d = c THEN l + 1 ELSE l
      BY <1>3
    <3>2. m < k
      BY <1>1, <2>1, <2>3, <3>1, SMTT(30)
    <3> QED BY <2>1, <2>3, <3>1, <3>2 DEF X!InOrder, ExEnds
  <2> QED BY <2>2, <2>3
<1>6. \A i \in DOMAIN q["out"], j \in DOMAIN q["err"] :
          q["out"][i].n > 0 => q["out"][i].n # q["err"][j].n
  <2> TAKE i \in DOMAIN q["out"], j \in DOMAIN q["err"]
  <2>1. PICK l \in DOMAIN p["out"] : q["out"][i] = p["out"][l]
    BY <1>3 DEF ExEnds
  <2>2. PICK m \in DOMAIN p["err"] : q["err"][j] = p["err"][m]
    BY <1>3 DEF ExEnds
  <2> QED BY <2>1, <2>2 DEF X!InOrder
<1>7. \A m \in 1 .. w :
          \/ \E i \in DOMAIN t : t[i].n = m
          \/ \E d \in ExEnds : \E j \in DOMAIN q[d] : q[d][j].n = m
  <2> TAKE m \in 1 .. w
  <2>1. \/ \E i \in DOMAIN t : t[i].n = m
        \/ \E d \in ExEnds : \E j \in DOMAIN p[d] : p[d][j].n = m
    BY DEF X!InOrder, ExEnds
  <2>2. ASSUME NEW d \in ExEnds, NEW j \in DOMAIN p[d], p[d][j].n = m
        PROVE  \E l \in DOMAIN q[d] : q[d][l].n = m
    <3>1. p[d][j].n # 0
      BY <2>2
    <3>2. PICK l \in DOMAIN q[d] : q[d][l] = p[d][j]
      BY <1>4, <2>2, <3>1
    <3> QED BY <2>2, <3>2
  <2> QED BY <2>1, <2>2
<1>8. /\ \A i \in DOMAIN t : t[i].n \in 0 .. w /\ (t[i].n > 0 => t[i].of = r)
      /\ \A i, j \in DOMAIN t : t[i].n > 0 /\ t[j].n > 0 /\ i < j =>
          t[i].n # t[j].n /\ (t[i].by = t[j].by => t[i].n < t[j].n)
  BY DEF X!InOrder
<1> QED BY <1>5, <1>6, <1>7, <1>8 DEF X!InOrder, ExEnds

--------------------------------------------------------------------------------
(***************************************************************************)
(* Executer: the flow of the output of one request, r, on the platform pl: *)
(* t is what was told, p its pipes, w what was written, ch its command.    *)
(***************************************************************************)
EndsIn(t) == {i \in DOMAIN t : t[i].n = 0}

PiecesIn(t) == {i \in DOMAIN t : t[i].n > 0}

Flow(pl, r, t, p, w, ch) ==
    /\ X!InOrder(r, t, p, w)
    /\ \A c \in ExEnds :
          /\ c = "err" /\ pl # "Qt" => p[c] = <<>>
          /\ pl # "Windows" => \A j \in DOMAIN p[c] : p[c][j].n > 0
    /\ EndsIn(t) \subseteq {Len(t)}
    /\ ch = "none" => EndsIn(t) = {}
    /\ pl # "Amiga" /\ X!Exit(r) \in {t[i] : i \in DOMAIN t} =>
          ch \in {"closed", "exited"} /\ X!Cardinality(PiecesIn(t)) = w

LEMMA ExFlows ==
    X!OutputFlows <=>
        /\ told \in [X!Requests -> Seq(X!Things)]
        /\ pipe \in [X!Requests -> ExPipes]
        /\ \A r \in X!Requests : Flow(platform, r, told[r], pipe[r], written[r], child[r])
BY DEF X!OutputFlows, Flow, ExPipes, ExEnds, X!Channels, X!Ends, X!Pieces, EndsIn, PiecesIn

LEMMA ExFlowsNext ==
    X!OutputFlows' <=>
        /\ told' \in [X!Requests -> Seq(X!Things)]
        /\ pipe' \in [X!Requests -> ExPipes]
        /\ \A r \in X!Requests : Flow(platform', r, told'[r], pipe'[r], written'[r], child'[r])
BY DEF X!OutputFlows, Flow, ExPipes, ExEnds, X!Channels, X!Ends, X!Pieces, EndsIn, PiecesIn

\* The end of a command is a thing that is told last.
LEMMA ExExit ==
    ASSUME NEW r \in X!Requests
    PROVE  /\ X!Exit(r) \in X!Things /\ X!Exit(r).of = r /\ X!Exit(r).n = 0
           /\ X!Broken(r) \in X!Things /\ X!Broken(r).of = r /\ X!Broken(r).n = 0
           /\ X!Exit(r) # X!Broken(r)
<1>1. 0 \in 0 .. MaxPieces
  BY CommandsAssumption
<1> QED BY <1>1 DEF X!Exit, X!Broken, X!Things

LEMMA ExNoExit ==
    ASSUME NEW r \in X!Requests, NEW t, EndsIn(t) = {}
    PROVE  X!Exit(r) \notin {t[i] : i \in DOMAIN t}
BY ExExit DEF EndsIn

\* A command that has told no end may come to any state.
LEMMA ExFlowMoves ==
    ASSUME NEW pl, NEW r \in X!Requests, NEW t, NEW p, NEW w, NEW ch, NEW ch2,
           Flow(pl, r, t, p, w, ch), ch2 # "none", EndsIn(t) = {}
    PROVE  Flow(pl, r, t, p, w, ch2)
BY ExNoExit DEF Flow

LEMMA ExFlowCloses ==
    ASSUME NEW pl, NEW r \in X!Requests, NEW t, NEW p, NEW w,
           NEW ch \in {"running", "closed"}, Flow(pl, r, t, p, w, ch),
           NEW ch2 \in {"closed", "exited"}
    PROVE  Flow(pl, r, t, p, w, ch2)
BY DEF Flow

\* When the pipes are empty, the client has been told all of the output.
LEMMA ExCount ==
    ASSUME NEW r \in X!Requests, NEW t \in Seq(X!Things), NEW p, NEW w \in Nat,
           X!InOrder(r, t, p, w), p["out"] = <<>>, p["err"] = <<>>
    PROVE  X!Cardinality(PiecesIn(t)) = w
<1> DEFINE f == [m \in 1 .. w |-> CHOOSE i \in DOMAIN t : t[i].n = m]
<1>1. \A m \in 1 .. w : \E i \in DOMAIN t : t[i].n = m
  BY DEF X!InOrder
<1>2. \A m \in 1 .. w : f[m] \in DOMAIN t /\ t[f[m]].n = m
  BY <1>1
<1>3. \A i \in PiecesIn(t) : t[i].n \in 1 .. w
  BY DEF X!InOrder, PiecesIn
<1>4. DOMAIN f = 1 .. w
  OBVIOUS
<1>9. f = [m \in 1 .. w |-> f[m]]
  OBVIOUS
<1> HIDE DEF f
<1>5. DOMAIN t \subseteq Nat
  OBVIOUS
<1>6. \A i, j \in PiecesIn(t) : t[i].n = t[j].n => i = j
  <2> SUFFICES ASSUME NEW i \in PiecesIn(t), NEW j \in PiecesIn(t), t[i].n = t[j].n, i # j
               PROVE  FALSE
    OBVIOUS
  <2>1. i \in DOMAIN t /\ j \in DOMAIN t /\ t[i].n > 0 /\ t[j].n > 0
    BY DEF PiecesIn
  <2>2. i < j \/ j < i
    BY <1>5, <2>1
  <2> QED BY <2>1, <2>2 DEF X!InOrder
<1>7. f \in [1 .. w -> PiecesIn(t)]
  <2>1. \A m \in 1 .. w : f[m] \in PiecesIn(t)
    BY <1>2 DEF PiecesIn
  <2> QED BY <1>9, <2>1
<1>8. ExistsBijection(1 .. w, PiecesIn(t))
  <2>1. f \in Injection(1 .. w, PiecesIn(t))
    BY <1>2, <1>7 DEF Injection, IsInjective
  <2>2. \A i \in PiecesIn(t) : \E m \in 1 .. w : f[m] = i
    <3> TAKE i \in PiecesIn(t)
    <3>1. t[i].n \in 1 .. w
      BY <1>3
    <3>2. f[t[i].n] \in PiecesIn(t) /\ t[f[t[i].n]].n = t[i].n
      BY <1>2, <1>7, <3>1
    <3>3. f[t[i].n] = i
      BY <1>6, <3>2
    <3> QED BY <3>1, <3>3
  <2>3. f \in Surjection(1 .. w, PiecesIn(t))
    BY <1>7, <2>2 DEF Surjection
  <2> QED BY <2>1, <2>3 DEF ExistsBijection, Bijection
<1>10. Cardinality(PiecesIn(t)) = w
  BY <1>8, FS_CountingElements
<1>11. X!Cardinality(PiecesIn(t)) = Cardinality(PiecesIn(t))
  BY DEF X!Cardinality, Cardinality
<1> QED BY <1>10, <1>11

LEMMA ExAppend ==
    ASSUME NEW t \in Seq(X!Things), NEW e \in X!Things
    PROVE  /\ Append(t, e) \in Seq(X!Things)
           /\ t \o <<e>> = Append(t, e)
           /\ Len(Append(t, e)) = Len(t) + 1
           /\ DOMAIN Append(t, e) = 1 .. Len(t) + 1
           /\ \A i \in DOMAIN t : Append(t, e)[i] = t[i]
           /\ Append(t, e)[Len(t) + 1] = e
BY AppendProperties

LEMMA ExEndsAfter ==
    ASSUME NEW t \in Seq(X!Things), NEW e \in X!Things, EndsIn(t) = {}
    PROVE  /\ EndsIn(Append(t, e)) \subseteq {Len(Append(t, e))}
           /\ e.n > 0 => EndsIn(Append(t, e)) = {}
           /\ e.n = 0 => PiecesIn(Append(t, e)) = PiecesIn(t)
<1> DEFINE u == Append(t, e)
<1>1. /\ Len(u) = Len(t) + 1 /\ DOMAIN u = 1 .. Len(t) + 1 /\ DOMAIN t = 1 .. Len(t)
      /\ Len(t) \in Nat
      /\ \A i \in DOMAIN t : u[i] = t[i]
      /\ u[Len(t) + 1] = e
  BY ExAppend
<1> HIDE DEF u
<1>2. \A i \in DOMAIN u : (i \in DOMAIN t /\ u[i] = t[i]) \/ (i = Len(u) /\ u[i] = e)
  BY <1>1
<1>3. \A i \in DOMAIN t : i \in DOMAIN u /\ u[i] = t[i]
  BY <1>1
<1>4. EndsIn(u) \subseteq {Len(u)}
  BY <1>2 DEF EndsIn
<1>5. e.n > 0 => EndsIn(u) = {}
  BY <1>2 DEF EndsIn
<1>6. e.n = 0 => PiecesIn(u) = PiecesIn(t)
  BY <1>2, <1>3 DEF PiecesIn
<1> QED BY <1>4, <1>5, <1>6 DEF u

\* The client is told an end: its exit code when all of the output has been told, but
\* on Amiga OS, or that reading went wrong.
LEMMA ExFlowEnds ==
    ASSUME NEW pl, NEW r \in X!Requests, NEW t \in Seq(X!Things), NEW p \in ExPipes, NEW w \in Nat,
           NEW ch \in {"running", "closed", "exited"}, Flow(pl, r, t, p, w, ch), EndsIn(t) = {},
           NEW e \in X!Things, e.n = 0,
           e = X!Exit(r) /\ pl # "Amiga" =>
              ch \in {"closed", "exited"} /\ \A c \in ExEnds : p[c] = <<>>
    PROVE  Flow(pl, r, Append(t, e), p, w, ch)
<1> DEFINE u == Append(t, e)
<1>2. X!InOrder(r, u, p, w)
  BY ExEnd DEF Flow
<1>3. EndsIn(u) \subseteq {Len(u)} /\ PiecesIn(u) = PiecesIn(t)
  BY ExEndsAfter
<1>4. X!Exit(r) \in {u[i] : i \in DOMAIN u} => e = X!Exit(r)
  BY ExAppend, ExNoExit
<1>5. e = X!Exit(r) /\ pl # "Amiga" => X!Cardinality(PiecesIn(t)) = w
  BY ExCount DEF Flow, ExEnds
<1> HIDE DEF u
<1>6. Flow(pl, r, u, p, w, ch)
  BY <1>2, <1>3, <1>4, <1>5 DEF Flow
<1> QED BY <1>6 DEF u

\* The client of a command has not been told its end.
Going(pl, r, t, p, w, ch) ==
    /\ t \in Seq(X!Things) /\ p \in ExPipes
    /\ Flow(pl, r, t, p, w, ch) /\ EndsIn(t) = {}

\* The client is told a piece of output.
Rest(p, c) == [p EXCEPT ![c] = Tail(@)]

More(t, p, c) == Append(t, Head(p[c]))

Brings(p, c) == p[c] # <<>> /\ Head(p[c]).n > 0

LEMMA ExFlowTakes ==
    ASSUME NEW pl, NEW r \in X!Requests, NEW t, NEW p, NEW w \in Nat,
           NEW ch \in {"running", "closed", "exited"}, Going(pl, r, t, p, w, ch),
           NEW c \in ExEnds, Brings(p, c)
    PROVE  Going(pl, r, More(t, p, c), Rest(p, c), w, ch)
<1> USE DEF Going
<1> DEFINE x == Head(p[c])
           u == Append(t, x)
           q == Rest(p, c)
<1>1. p[c] \in Seq(X!Things)
  BY DEF ExPipes
<1>2. /\ x \in X!Things /\ Tail(p[c]) \in Seq(X!Things) /\ x = p[c][1]
      /\ Len(p[c]) \in Nat /\ Len(p[c]) > 0
      /\ Len(Tail(p[c])) = Len(p[c]) - 1
      /\ \A j \in 1 .. Len(Tail(p[c])) : Tail(p[c])[j] = p[c][j + 1]
  BY <1>1, HeadTailProperties DEF Brings
<1>3. /\ u \in Seq(X!Things) /\ Len(u) = Len(t) + 1
      /\ \A i \in DOMAIN t : u[i] = t[i]
      /\ u[Len(t) + 1] = x
  BY <1>2, ExAppend
<1>4. q \in ExPipes /\ q[c] = Tail(p[c]) /\ \A d \in ExEnds \ {c} : q[d] = p[d]
  BY <1>2 DEF ExPipes, Rest
<1>5. EndsIn(u) = {}
  BY <1>2, ExEndsAfter DEF Brings
<1> HIDE DEF u, q
<1>6. X!InOrder(r, u, q, w)
  <2>1. 1 \in 0 .. Len(p[c]) /\ Len(q[c]) = Len(p[c]) - 1
    BY <1>2, <1>4
  <2>2. \A i \in 1 .. 1 : u[Len(t) + i] = p[c][i] /\ p[c][i].n > 0
    BY <1>2, <1>3 DEF Brings
  <2>3. \A j \in 1 .. Len(q[c]) : q[c][j] = p[c][1 + j]
    BY <1>2, <1>4
  <2>4. X!InOrder(r, t, p, w)
    BY DEF Flow
  <2>5. Takes(t, u, p, q, c, 1)
    BY <1>3, <1>4, <2>1, <2>2, <2>3 DEF Takes
  <2> QED BY <1>3, <1>4, <2>4, <2>5, ExTake
<1>7. X!Exit(r) \notin {u[i] : i \in DOMAIN u}
  BY <1>5, ExNoExit
<1>8. \A d \in ExEnds : /\ d = "err" /\ pl # "Qt" => q[d] = <<>>
                        /\ pl # "Windows" => \A j \in DOMAIN q[d] : q[d][j].n > 0
  <2>1. \A d \in ExEnds : d # c => q[d] = p[d]
    BY <1>4
  <2>2. ~(c = "err" /\ pl # "Qt")
    BY DEF Flow, Brings
  <2>3. pl # "Windows" => \A j \in DOMAIN q[c] : q[c][j].n > 0
    <3>1. DOMAIN q[c] = 1 .. Len(q[c]) /\ DOMAIN p[c] = 1 .. Len(p[c])
      BY <1>1, <1>2, <1>4
    <3>2. \A j \in DOMAIN q[c] : j + 1 \in DOMAIN p[c] /\ q[c][j] = p[c][j + 1]
      BY <1>2, <1>4, <3>1
    <3> QED BY <3>2 DEF Flow
  <2> QED BY <2>1, <2>2, <2>3 DEF Flow
<1>9. Flow(pl, r, u, q, w, ch)
  BY <1>5, <1>6, <1>7, <1>8 DEF Flow
<1> QED BY <1>3, <1>4, <1>5, <1>9 DEF u, q, More

\* The client is told all that a channel holds.
Emptied(p, c) == [p EXCEPT ![c] = <<>>]

LEMMA ExFlowTakesAll ==
    ASSUME NEW pl, pl # "Windows", NEW r \in X!Requests, NEW t,
           NEW p, NEW w \in Nat, NEW ch \in {"running", "closed", "exited"},
           Going(pl, r, t, p, w, ch), NEW c \in ExEnds
    PROVE  Going(pl, r, t \o p[c], Emptied(p, c), w, ch)
<1> USE DEF Going
<1> DEFINE u == t \o p[c]
           q == Emptied(p, c)
           k == Len(p[c])
<1>1. p[c] \in Seq(X!Things) /\ k \in Nat /\ DOMAIN p[c] = 1 .. k
  BY DEF ExPipes
<1>2. /\ u \in Seq(X!Things) /\ Len(u) = Len(t) + k
      /\ \A i \in 1 .. Len(t) + k : u[i] = IF i <= Len(t) THEN t[i] ELSE p[c][i - Len(t)]
  BY <1>1, ConcatProperties
<1>3. DOMAIN u = 1 .. Len(t) + k /\ DOMAIN t = 1 .. Len(t) /\ Len(t) \in Nat
  BY <1>2
<1>4. q \in ExPipes /\ q[c] = <<>> /\ \A d \in ExEnds \ {c} : q[d] = p[d]
  <2>1. <<>> \in Seq(X!Things)
    OBVIOUS
  <2> QED BY <2>1 DEF ExPipes, Emptied
<1> HIDE DEF u, q
<1>5. \A i \in 1 .. k : u[Len(t) + i] = p[c][i]
  <2> TAKE i \in 1 .. k
  <2>1. Len(t) + i \in 1 .. Len(t) + k /\ ~(Len(t) + i <= Len(t)) /\ (Len(t) + i) - Len(t) = i
    BY <1>1, <1>3
  <2> QED BY <1>2, <2>1
<1>6. \A i \in DOMAIN t : u[i] = t[i]
  BY <1>1, <1>2, <1>3
<1>7. \A i \in DOMAIN p[c] : p[c][i].n > 0
  BY DEF Flow
<1>8. X!InOrder(r, u, q, w)
  <2>1. k \in 0 .. Len(p[c]) /\ Len(q[c]) = Len(p[c]) - k /\ Len(q[c]) = 0
    BY <1>1, <1>4
  <2>2. \A i \in 1 .. k : p[c][i].n > 0
    BY <1>1, <1>7
  <2>3. \A j \in 1 .. Len(q[c]) : q[c][j] = p[c][k + j]
    BY <2>1
  <2> HIDE DEF k
  <2>4. Takes(t, u, p, q, c, k)
    BY <1>2, <1>4, <1>5, <1>6, <2>1, <2>2, <2>3 DEF Takes
  <2>5. X!InOrder(r, t, p, w)
    BY DEF Flow
  <2> QED BY <1>2, <1>4, <2>4, <2>5, ExTake
<1>9. EndsIn(u) = {}
  <2>1. \A i \in DOMAIN u : u[i].n # 0
    <3> TAKE i \in DOMAIN u
    <3>1. CASE i <= Len(t)
      BY <1>2, <1>3, <3>1 DEF EndsIn
    <3>2. CASE i > Len(t)
      <4> DEFINE m == i - Len(t)
      <4>1. m \in DOMAIN p[c] /\ u[i] = p[c][m]
        BY <1>1, <1>2, <1>3, <3>2
      <4> HIDE DEF m
      <4> QED BY <1>7, <4>1
    <3> QED BY <1>3, <3>1, <3>2
  <2> QED BY <2>1 DEF EndsIn
<1>10. X!Exit(r) \notin {u[i] : i \in DOMAIN u}
  BY <1>9, ExNoExit
<1>11. \A d \in ExEnds : /\ d = "err" /\ pl # "Qt" => q[d] = <<>>
                         /\ pl # "Windows" => \A j \in DOMAIN q[d] : q[d][j].n > 0
  <2>1. \A d \in ExEnds : d # c => q[d] = p[d]
    BY <1>4
  <2>2. DOMAIN q[c] = {}
    BY <1>4
  <2> QED BY <1>4, <2>1, <2>2 DEF Flow
<1>12. Flow(pl, r, u, q, w, ch)
  BY <1>8, <1>9, <1>10, <1>11 DEF Flow
<1> QED BY <1>2, <1>4, <1>9, <1>12 DEF u, q

\* A read that brings no bytes.
LEMMA ExFlowDrops ==
    ASSUME NEW r \in X!Requests, NEW t \in Seq(X!Things), NEW p \in ExPipes, NEW w \in Nat,
           NEW ch \in {"running", "closed", "exited"}, Flow("Windows", r, t, p, w, ch),
           p["out"] # <<>>, Head(p["out"]).n = 0
    PROVE  Rest(p, "out") \in ExPipes /\ Flow("Windows", r, t, Rest(p, "out"), w, ch)
<1> DEFINE q == Rest(p, "out")
<1>1. p["out"] \in Seq(X!Things) /\ "out" \in ExEnds
  BY DEF ExPipes, ExEnds
<1>2. Tail(p["out"]) \in Seq(X!Things) /\ p["out"][1].n = 0
  BY <1>1, HeadTailProperties
<1>3. q \in ExPipes /\ q["out"] = Tail(p["out"]) /\ \A d \in ExEnds \ {"out"} : q[d] = p[d]
  BY <1>1, <1>2 DEF ExPipes, Rest
<1> HIDE DEF q
<1>4. X!InOrder(r, t, q, w)
  BY <1>1, <1>2, <1>3, ExDrop DEF Flow
<1>5. q["err"] = p["err"]
  BY <1>3 DEF ExEnds
<1>6. Flow("Windows", r, t, q, w, ch)
  BY <1>4, <1>5 DEF Flow
<1> QED BY <1>3, <1>6 DEF q

\* A command writes, or on Windows writes no bytes.
LEMMA ExFlowWrites ==
    ASSUME NEW pl, NEW r \in X!Requests, NEW t \in Seq(X!Things), NEW p \in ExPipes, NEW w \in Nat,
           Flow(pl, r, t, p, w, "running"),
           NEW c \in ExEnds, c = "err" => pl = "Qt",
           NEW v \in Nat, NEW n \in 0 .. MaxPieces,
           \/ n = w + 1 /\ v = w + 1
           \/ n = 0 /\ v = w /\ pl = "Windows"
    PROVE  LET q == [p EXCEPT ![c] = Append(@, X!Piece(r, c, n))]
           IN  q \in ExPipes /\ Flow(pl, r, t, q, v, "running")
<1> DEFINE x == X!Piece(r, c, n)
           q == [p EXCEPT ![c] = Append(@, x)]
<1>1. x \in X!Things /\ x.of = r /\ x.by = c /\ x.n = n
  BY DEF X!Piece, X!Things, ExEnds
<1> HIDE DEF x
<1>2. p[c] \in Seq(X!Things)
  BY DEF ExPipes
<1>3. /\ Append(p[c], x) \in Seq(X!Things)
      /\ Len(Append(p[c], x)) = Len(p[c]) + 1
      /\ DOMAIN Append(p[c], x) = 1 .. Len(p[c]) + 1
      /\ \A i \in 1 .. Len(p[c]) : Append(p[c], x)[i] = p[c][i]
      /\ Append(p[c], x)[Len(p[c]) + 1] = x
      /\ DOMAIN p[c] = 1 .. Len(p[c]) /\ Len(p[c]) \in Nat
  BY <1>1, <1>2, ExAppend
<1>4. q \in ExPipes /\ q[c] = Append(p[c], x) /\ \A d \in ExEnds \ {c} : q[d] = p[d]
  BY <1>3 DEF ExPipes
<1> HIDE DEF q
<1>5. X!InOrder(r, t, q, v)
  <2>1. /\ (x.n = w + 1 /\ v = w + 1) \/ (x.n = 0 /\ v = w)
        /\ Len(q[c]) = Len(p[c]) + 1 /\ q[c][Len(p[c]) + 1] = x
        /\ \A j \in 1 .. Len(p[c]) : q[c][j] = p[c][j]
        /\ X!InOrder(r, t, p, w)
    BY <1>1, <1>3, <1>4 DEF Flow
  <2> QED BY <1>1, <1>4, <2>1, ExAdd, SMTT(30)
<1>6. \A d \in ExEnds : /\ d = "err" /\ pl # "Qt" => q[d] = <<>>
                        /\ pl # "Windows" => \A j \in DOMAIN q[d] : q[d][j].n > 0
  <2>1. \A d \in ExEnds : d # c => q[d] = p[d]
    BY <1>4
  <2>2. pl # "Windows" => \A j \in DOMAIN q[c] : q[c][j].n > 0
    <3>1. \A j \in DOMAIN q[c] : (j \in DOMAIN p[c] /\ q[c][j] = p[c][j]) \/ q[c][j] = x
      BY <1>3, <1>4
    <3> QED BY <1>1, <3>1 DEF Flow
  <2> QED BY <2>1, <2>2 DEF Flow
<1>7. Flow(pl, r, t, q, v, "running")
  BY <1>5, <1>6 DEF Flow
<1> QED BY <1>4, <1>7 DEF q, x

--------------------------------------------------------------------------------
(***************************************************************************)
(* Executer: the type invariant.                                           *)
(***************************************************************************)
LEMMA ExObject ==
    ASSUME X!TypeOK
    PROVE  /\ X!Object \in ExObjects
           /\ X!Object.field = field /\ X!Object.opened = opened /\ X!Object.callback = callback
           /\ X!Object.code = exitCode
BY DEF X!TypeOK, X!Object, ExObjects

LEMMA ExBecomes ==
    ASSUME NEW x \in ExObjects, X!Becomes(x)
    PROVE  /\ X!Object' = x
           /\ field' \in [X!AllFields -> X!Requests \cup {Null, Garbage}]
           /\ opened' \in SUBSET (X!AllFields \X X!Requests)
           /\ callback' \in X!Requests \cup {Null} /\ exitCode' \in X!Requests \cup {Null}
<1>1. x = [field |-> x.field, opened |-> x.opened, callback |-> x.callback, code |-> x.code]
  BY DEF ExObjects
<1>2. /\ x.field \in [X!AllFields -> X!Requests \cup {Null, Garbage}]
      /\ x.opened \in SUBSET (X!AllFields \X X!Requests)
      /\ x.callback \in X!Requests \cup {Null} /\ x.code \in X!Requests \cup {Null}
  BY DEF ExObjects
<1>3. /\ field' = x.field /\ opened' = x.opened
      /\ callback' = x.callback /\ exitCode' = x.code
  BY DEF X!Becomes
<1>4. X!Object' = x
  BY <1>1, <1>3 DEF X!Object
<1> QED BY <1>2, <1>3, <1>4

\* What asking for a request changes, and what it leaves.
LEMMA ExAsked ==
    ASSUME X!TypeOK, NEW r \in X!Requests, X!Fresh(r), NEW o \in ExOutcomes, X!Asked(r, o)
    PROVE  /\ child' \in [X!Requests -> {"none", "refused", "running", "closed", "exited"}]
           /\ accepted' \subseteq X!Requests
           /\ child[r] = "none"
           /\ child'[r] = IF o.started THEN "running" ELSE "refused"
           /\ \A q \in X!Requests : q # r => child'[q] = child[q]
<1>1. child' = [child EXCEPT ![r] = X!StateAfter(o)]
  BY DEF X!Asked
<1>2. X!StateAfter(o) = IF o.started THEN "running" ELSE "refused"
  BY DEF X!StateAfter
<1> QED BY <1>1, <1>2 DEF X!TypeOK, X!Asked, X!Fresh

\* What the client does from its callback.
LEMMA ExAfter ==
    ASSUME X!TypeOK, NEW a \in X!AfterCallback
    PROVE  /\ a.outcome \in ExOutcomes
           /\ \/ a.request = Null /\ a.outcome = X!Outcome(X!Object, FALSE, FALSE)
              \/ /\ a.request \in X!Requests /\ X!Fresh(a.request)
                 /\ ExResult(X!Object, a.request, a.outcome)
<1>1. X!Outcome(X!Object, FALSE, FALSE) \in ExOutcomes
  BY ExObject, ExOutcome
<1>2. CASE a = [request |-> Null, outcome |-> X!Outcome(X!Object, FALSE, FALSE)]
  BY <1>1, <1>2
<1>3. ASSUME NEW r \in X!Requests, X!Fresh(r), NEW o \in X!LaunchCommand(X!Object, r),
             a = [request |-> r, outcome |-> o]
      PROVE  /\ a.outcome \in ExOutcomes /\ a.request \in X!Requests /\ X!Fresh(a.request)
             /\ ExResult(X!Object, a.request, a.outcome)
  <2>1. ExResult(X!Object, r, o)
    BY ExObject, ExLaunch DEF X!TypeOK
  <2> QED BY <1>3, <2>1 DEF ExResult
<1> QED BY <1>2, <1>3 DEF X!AfterCallback

Moved ==
    \A q \in X!Requests : child'[q] = child[q] \/ (child[q] = "none" /\ child'[q] # "none")

LEMMA ExAskedAfter ==
    ASSUME X!TypeOK, NEW a \in X!AfterCallback, X!AskedAfter(a)
    PROVE  /\ child' \in [X!Requests -> {"none", "refused", "running", "closed", "exited"}]
           /\ accepted' \subseteq X!Requests /\ overlapped' \in BOOLEAN
           /\ overlapped => overlapped'
           /\ Moved
           /\ \/ overlapped' /\ ExResult(X!Object, a.request, a.outcome)
              \/ a.outcome = X!Outcome(X!Object, FALSE, FALSE)
<1>1. CASE a.request = Null
  <2>1. UNCHANGED <<child, accepted, overlapped>>
    BY <1>1 DEF X!AskedAfter, X!asked
  <2>2. a.outcome = X!Outcome(X!Object, FALSE, FALSE)
    BY <1>1, ExAfter, CommandsAssumption DEF X!Requests
  <2> QED BY <2>1, <2>2 DEF X!TypeOK, Moved
<1>2. CASE a.request # Null
  <2>1. X!Asked(a.request, a.outcome) /\ overlapped' = TRUE
    BY <1>2 DEF X!AskedAfter
  <2>2. /\ a.request \in X!Requests /\ X!Fresh(a.request) /\ a.outcome \in ExOutcomes
        /\ ExResult(X!Object, a.request, a.outcome)
    BY <1>2, ExAfter
  <2> DEFINE r == a.request
  <2>3. /\ child' \in [X!Requests -> {"none", "refused", "running", "closed", "exited"}]
        /\ accepted' \subseteq X!Requests
        /\ child[r] = "none"
        /\ child'[r] = IF a.outcome.started THEN "running" ELSE "refused"
        /\ \A q \in X!Requests : q # r => child'[q] = child[q]
    BY <2>1, <2>2, ExAsked
  <2>4. Moved
    BY <2>3 DEF Moved
  <2> QED BY <2>1, <2>2, <2>3, <2>4
<1> QED BY <1>1, <1>2

LEMMA ExTold ==
    ASSUME X!TypeOK, NEW things, X!Tell(things)
    PROVE  /\ DOMAIN told' = X!Requests
           /\ \A r \in X!Requests : callback = r =>
                 told' = [told EXCEPT ![r] = @ \o things]
<1>1. CASE callback = Null
  BY <1>1, CommandsAssumption DEF X!Tell, X!TypeOK, X!Requests
<1>2. CASE callback # Null
  BY <1>2 DEF X!Tell, X!TypeOK
<1> QED BY <1>1, <1>2

\* launchCommand(), from the main loop.
LEMMA ExTypeLaunch ==
    ASSUME X!TypeOK, NEW r \in X!Requests, X!Launch(r)
    PROVE  X!TypeOK'
<1>1. PICK o \in X!LaunchCommand(X!Object, r) :
         /\ X!Becomes(o.object)
         /\ X!Asked(r, o)
         /\ reading' = IF o.launched THEN r ELSE reading
         /\ overlapped' = (overlapped \/ (X!IsRunning(X!Object) /\ callback # Null))
  BY DEF X!Launch
<1>2. X!Fresh(r) /\ UNCHANGED <<platform, signals, pipe, written, hushed, told>>
  BY DEF X!Launch, X!output
<1>3. o \in ExOutcomes /\ o.object \in ExObjects
  BY ExObject, ExLaunch DEF X!TypeOK, ExResult, ExOutcomes
<1>4. /\ field' \in [X!AllFields -> X!Requests \cup {Null, Garbage}]
      /\ opened' \in SUBSET (X!AllFields \X X!Requests)
      /\ callback' \in X!Requests \cup {Null} /\ exitCode' \in X!Requests \cup {Null}
  BY <1>1, <1>3, ExBecomes
<1>5. /\ child' \in [X!Requests -> {"none", "refused", "running", "closed", "exited"}]
      /\ accepted' \subseteq X!Requests
  BY <1>1, <1>2, <1>3, ExAsked
<1>6. reading' \in X!Requests \cup {Null}
  BY <1>1 DEF X!TypeOK
<1>7. overlapped' \in BOOLEAN
  BY <1>1, Zenon DEF X!TypeOK
<1> QED BY <1>2, <1>4, <1>5, <1>6, <1>7 DEF X!TypeOK

\* A step after which the object is x, what the callback was given is more, and the
\* client may have asked again.
LEMMA ExTypeAfter ==
    ASSUME X!TypeOK, NEW things, X!Tell(things), NEW a \in X!AfterCallback, X!AskedAfter(a),
           NEW x \in ExObjects, X!Becomes(x), reading' = Null, signals' \in SUBSET {"data", "exit"},
           UNCHANGED <<platform, pipe, written, hushed>>
    PROVE  X!TypeOK'
BY ExTold, ExAskedAfter, ExBecomes DEF X!TypeOK

LEMMA ExTypeRunning ==
    ASSUME X!TypeOK, NEW r \in X!Requests,
           X!WriteNothing(r) \/ X!CloseOutput(r) \/ X!ExitChild(r)
              \/ \E c \in {"out", "err"} : X!Write(r, c)
    PROVE  X!TypeOK'
<1>1. CASE X!WriteNothing(r)
  BY <1>1 DEF X!WriteNothing, X!TypeOK, X!object, X!asked
<1>2. CASE X!CloseOutput(r)
  BY <1>2 DEF X!CloseOutput, X!TypeOK, X!object, X!asked, X!output
<1>3. CASE X!ExitChild(r)
  BY <1>3 DEF X!ExitChild, X!TypeOK, X!object, X!asked, X!output
<1>4. CASE \E c \in {"out", "err"} : X!Write(r, c)
  <2>1. PICK c \in {"out", "err"} : X!Write(r, c)
    BY <1>4
  <2>2. /\ written[r] < MaxPieces /\ written' = [written EXCEPT ![r] = @ + 1]
        /\ DOMAIN pipe' = X!Requests
        /\ UNCHANGED <<platform, field, opened, callback, exitCode, reading, signals, child, hushed, told,
                       accepted, overlapped>>
    BY <2>1 DEF X!Write, X!TypeOK, X!object, X!asked
  <2>3. written' \in [X!Requests -> 0 .. MaxPieces]
    BY <2>2, CommandsAssumption DEF X!TypeOK
  <2> QED BY <2>2, <2>3 DEF X!TypeOK
<1> QED BY <1>1, <1>2, <1>3, <1>4

LEMMA ExTypeServes ==
    ASSUME X!TypeOK, X!Serves
    PROVE  X!TypeOK'
<1>1. CASE X!ReplyPacket
  BY <1>1 DEF X!ReplyPacket, X!TypeOK, X!object, X!asked, X!output
<1>2. CASE X!DataAvailable
  <2>1. /\ signals' = {}
        /\ UNCHANGED <<platform, written, hushed, child, accepted, overlapped>>
    BY <1>2 DEF X!DataAvailable, X!asked, X!output
  <2>2. CASE pipe[reading]["out"] # <<>>
    <3>1. /\ X!Tell(<<Head(pipe[reading]["out"])>>)
          /\ DOMAIN pipe' = X!Requests
          /\ UNCHANGED <<field, opened, callback, exitCode, reading>>
      BY <1>2, <2>2 DEF X!DataAvailable, X!object, X!TypeOK
    <3>2. DOMAIN told' = X!Requests
      BY <3>1, ExTold
    <3> QED BY <2>1, <3>1, <3>2 DEF X!TypeOK
  <2>3. CASE ~(pipe[reading]["out"] # <<>>)
    <3>1. X!Becomes(X!Close(X!Object)) /\ reading' = Null /\ UNCHANGED <<told, pipe>>
      BY <1>2, <2>3 DEF X!DataAvailable
    <3>2. X!Close(X!Object) \in ExObjects
      BY ExObject, ExClose DEF X!TypeOK
    <3> QED BY <2>1, <3>1, <3>2, ExBecomes DEF X!TypeOK
  <2> QED BY <2>2, <2>3
<1>3. CASE X!ChildExited
  <2>1. PICK a \in X!AfterCallback : X!Becomes(X!Close(a.outcome.object)) /\ X!AskedAfter(a)
    BY <1>3 DEF X!ChildExited
  <2>2. X!Close(a.outcome.object) \in ExObjects
    BY ExAfter, ExClose DEF X!TypeOK, ExOutcomes
  <2>3. /\ X!Tell(<<X!Exit(exitCode)>>) /\ reading' = Null /\ signals' = {}
        /\ UNCHANGED <<platform, pipe, written, hushed>>
    BY <1>3 DEF X!ChildExited, X!output
  <2> QED BY <2>1, <2>2, <2>3, ExTypeAfter
<1>4. CASE X!OnReadyRead
  <2>1. /\ X!Tell(pipe[reading]["out"] \o pipe[reading]["err"])
        /\ DOMAIN pipe' = X!Requests
        /\ UNCHANGED <<platform, written, hushed, field, opened, callback, exitCode, reading, signals,
                       child, accepted, overlapped>>
    BY <1>4 DEF X!OnReadyRead, X!object, X!asked, X!output, X!TypeOK
  <2>2. DOMAIN told' = X!Requests
    BY <2>1, ExTold
  <2> QED BY <2>1, <2>2 DEF X!TypeOK
<1>5. CASE X!OnFinished
  <2>1. PICK a \in X!AfterCallback :
           X!Becomes(X!Release(a.outcome.object, {"process"})) /\ X!AskedAfter(a)
    BY <1>5 DEF X!OnFinished
  <2>2. X!Release(a.outcome.object, {"process"}) \in ExObjects
    <3>1. a.outcome.object \in ExObjects /\ {"process"} \in SUBSET X!AllFields
      BY ExAfter, ExFields DEF ExOutcomes
    <3> QED BY <3>1, ExRelease
  <2>3. /\ X!Tell(<<X!Exit(reading)>>) /\ reading' = Null /\ signals' = signals
        /\ UNCHANGED <<platform, pipe, written, hushed>>
    BY <1>5 DEF X!OnFinished, X!output
  <2>4. signals' \in SUBSET {"data", "exit"}
    BY <2>3 DEF X!TypeOK
  <2> QED BY <2>1, <2>2, <2>3, <2>4, ExTypeAfter
<1>6. CASE X!ReadSome
  <2>1. /\ UNCHANGED <<platform, written, hushed, signals, child, accepted, overlapped>>
        /\ DOMAIN pipe' = X!Requests
    BY <1>6 DEF X!ReadSome, X!output, X!asked, X!TypeOK
  <2> DEFINE piece == Head(pipe[reading]["out"])
  <2>2. \/ X!Tell(<<piece>>) /\ UNCHANGED <<field, opened, callback, exitCode, reading>>
        \/ X!Tell(<<piece, X!Broken(reading)>>) /\ X!Becomes(X!Close(X!Object)) /\ reading' = Null
        \/ reading' = Null /\ UNCHANGED <<told, field, opened, callback, exitCode>>
    BY <1>6 DEF X!ReadSome, X!object
  <2> HIDE DEF piece
  <2>3. X!Close(X!Object) \in ExObjects
    BY ExObject, ExClose DEF X!TypeOK
  <2>4. DOMAIN told' = X!Requests
    BY <2>2, ExTold DEF X!TypeOK
  <2>5. CASE UNCHANGED <<field, opened, callback, exitCode>> /\ reading' \in {reading, Null}
    BY <2>1, <2>4, <2>5 DEF X!TypeOK
  <2>6. CASE X!Becomes(X!Close(X!Object)) /\ reading' = Null
    BY <2>1, <2>3, <2>4, <2>6, ExBecomes DEF X!TypeOK
  <2> QED BY <2>2, <2>5, <2>6
<1>7. CASE X!PipeBroken
  <2>1. PICK a \in X!AfterCallback : X!Becomes(X!Close(a.outcome.object)) /\ X!AskedAfter(a)
    BY <1>7 DEF X!PipeBroken
  <2>2. X!Close(a.outcome.object) \in ExObjects
    BY ExAfter, ExClose DEF X!TypeOK, ExOutcomes
  <2>3. /\ X!Tell(<<X!Exit(reading)>>) /\ reading' = Null /\ signals' = signals
        /\ UNCHANGED <<platform, pipe, written, hushed>>
    BY <1>7 DEF X!PipeBroken, X!output
  <2>4. signals' \in SUBSET {"data", "exit"}
    BY <2>3 DEF X!TypeOK
  <2> QED BY <2>1, <2>2, <2>3, <2>4, ExTypeAfter
<1> QED BY <1>1, <1>2, <1>3, <1>4, <1>5, <1>6, <1>7 DEF X!Serves

LEMMA ExType ==
    ASSUME X!TypeOK, X!Next
    PROVE  X!TypeOK'
BY ExTypeLaunch, ExTypeRunning, ExTypeServes DEF X!Next

--------------------------------------------------------------------------------
(***************************************************************************)
(* Executer: one command at a time, whose output flows to its client.      *)
(***************************************************************************)
LEMMA ExServing ==
    ASSUME X!TypeOK, X!OneCommand, reading # Null \/ signals # {}
    PROVE  \E r \in X!Requests :
              X!Serving(r) /\ (reading # Null => reading = r) /\ callback = r
BY ExObject DEF X!OneCommand, X!Serving, X!IsOf

LEMMA ExFlowOf ==
    ASSUME X!TypeOK, X!OutputFlows, NEW r \in X!Requests
    PROVE  /\ told[r] \in Seq(X!Things) /\ pipe[r] \in ExPipes
           /\ written[r] \in Nat /\ written[r] \in 0 .. MaxPieces
           /\ Flow(platform, r, told[r], pipe[r], written[r], child[r])
           /\ told \in [X!Requests -> Seq(X!Things)] /\ pipe \in [X!Requests -> ExPipes]
BY ExFlows, CommandsAssumption DEF X!TypeOK

LEMMA ExFlowServing ==
    ASSUME X!TypeOK, X!OutputFlows, NEW r \in X!Requests, X!Serving(r)
    PROVE  EndsIn(told[r]) = {} /\ child[r] \in {"running", "closed", "exited"} /\ callback = r
BY ExObject DEF X!Serving, X!IsOf, X!Ends, EndsIn

\* The rest of the requests, when a step is about one of them.
Touches(r) ==
    \A q \in X!Requests \ {r} :
        /\ told'[q] = told[q] /\ pipe'[q] = pipe[q] /\ written'[q] = written[q]
        /\ child'[q] = child[q] \/ (child[q] = "none" /\ child'[q] # "none")

LEMMA ExFlowsStep ==
    ASSUME X!TypeOK, X!OutputFlows, platform' = platform, NEW r \in X!Requests, Touches(r),
           told' \in [X!Requests -> Seq(X!Things)], pipe' \in [X!Requests -> ExPipes],
           Flow(platform, r, told'[r], pipe'[r], written'[r], child'[r])
    PROVE  X!OutputFlows'
<1>1. ASSUME NEW q \in X!Requests
      PROVE  Flow(platform', q, told'[q], pipe'[q], written'[q], child'[q])
  <2>1. CASE q = r
    BY <2>1
  <2>2. CASE q # r
    <3>1. Flow(platform, q, told[q], pipe[q], written[q], child[q])
      BY ExFlowOf
    <3>2. CASE child'[q] = child[q]
      BY <2>2, <3>1, <3>2 DEF Touches
    <3>3. CASE child[q] = "none" /\ child'[q] # "none"
      <4>1. EndsIn(told[q]) = {}
        BY <3>1, <3>3 DEF Flow
      <4>2. Flow(platform, q, told[q], pipe[q], written[q], child'[q])
        BY <3>1, <3>3, <4>1, ExFlowMoves
      <4> QED BY <2>2, <4>2 DEF Touches
    <3> QED BY <2>2, <3>2, <3>3 DEF Touches
  <2> QED BY <2>1, <2>2
<1> QED BY <1>1, ExFlowsNext

\* Nothing changes but the commands.
LEMMA ExFlowsStay ==
    ASSUME X!TypeOK, X!OutputFlows, UNCHANGED <<platform, told, pipe, written>>,
           \A q \in X!Requests :
              \/ child'[q] = child[q]
              \/ child[q] = "none" /\ child'[q] # "none"
              \/ child[q] \in {"running", "closed"} /\ child'[q] \in {"closed", "exited"}
    PROVE  X!OutputFlows'
<1>1. ASSUME NEW q \in X!Requests
      PROVE  Flow(platform, q, told[q], pipe[q], written[q], child'[q])
  <2>1. Flow(platform, q, told[q], pipe[q], written[q], child[q])
    BY ExFlowOf
  <2>2. CASE child'[q] = child[q]
    BY <2>1, <2>2
  <2>3. CASE child[q] = "none" /\ child'[q] # "none"
    <3>1. EndsIn(told[q]) = {}
      BY <2>1, <2>3 DEF Flow
    <3> QED BY <2>1, <2>3, <3>1, ExFlowMoves
  <2>4. CASE child[q] \in {"running", "closed"} /\ child'[q] \in {"closed", "exited"}
    BY <2>1, <2>4, ExFlowCloses
  <2> QED BY <2>2, <2>3, <2>4
<1>2. told' \in [X!Requests -> Seq(X!Things)] /\ pipe' \in [X!Requests -> ExPipes]
  BY ExFlows
<1> QED BY <1>1, <1>2, ExFlowsNext

\* An object that has nothing, and is not read from.
LEMMA ExIdle ==
    ASSUME NEW x \in ExObjects, X!Becomes(x), X!HasNothing(x), platform' = platform,
           reading' = Null, signals' = {}
    PROVE  X!OneCommand'
<1>1. X!Object' = x
  BY ExBecomes
<1>2. X!HasNothing(X!Object)'
  BY <1>1 DEF X!HasNothing
<1> QED BY <1>2 DEF X!OneCommand

LEMMA ExCloseServing ==
    ASSUME X!TypeOK, platform # "Qt", NEW r \in X!Requests, X!Serving(r)
    PROVE  X!Close(X!Object) \in ExObjects /\ X!HasNothing(X!Close(X!Object))
<1>1. PICK kept \in SUBSET X!Kept[platform] :
         /\ X!Object.opened = kept \X {r}
         /\ \A f \in X!Fields[platform] : X!Object.field[f] = IF f \in kept THEN r ELSE Null
  BY DEF X!Serving, X!IsOf
<1>2. kept \in SUBSET X!Fields[platform] /\ X!Object \in ExObjects
  BY ExObject, ExPlatforms DEF X!TypeOK
<1>3. /\ X!Close(X!Object).opened = {}
      /\ \A f \in X!Fields[platform] : X!Close(X!Object).field[f] = Null
  BY <1>1, <1>2, ExCloseAll DEF X!TypeOK
<1> QED BY <1>3, <1>2, ExClose DEF X!HasNothing, X!TypeOK

LEMMA ExReleaseServing ==
    ASSUME X!TypeOK, platform = "Qt", NEW r \in X!Requests, X!Serving(r)
    PROVE  /\ X!Release(X!Object, {"process"}) \in ExObjects
           /\ X!HasNothing(X!Release(X!Object, {"process"}))
<1>1. /\ X!Object.opened = {"process"} \X {r} /\ X!Object.field["process"] = r
      /\ X!Object \in ExObjects /\ {"process"} \in SUBSET X!AllFields
  BY ExObject, ExFields DEF X!Serving, X!IsOf
<1> DEFINE y == X!Release(X!Object, {"process"})
<1>2. /\ y \in ExObjects
      /\ y.opened = X!Object.opened \ {<<f, X!Object.field[f]>> : f \in {"process"}}
      /\ \A f \in X!AllFields :
            y.field[f] = IF f \in {"process"} THEN Null ELSE X!Object.field[f]
  BY <1>1, ExRelease
<1> HIDE DEF y
<1>3. y.opened = {} /\ y.field["process"] = Null
  BY <1>1, <1>2
<1>4. X!HasNothing(y)
  BY <1>3, ExFields DEF X!HasNothing
<1> QED BY <1>2, <1>4 DEF y

\* A signal that a command has exited is there only when one has, and has left its code.
ExitIsOfOne == "exit" \in signals => exitCode \in X!Requests /\ child[exitCode] = "exited"

\* The command of the object goes on: what it has, and the read, stay.
LEMMA ExServingGoesOn ==
    ASSUME X!TypeOK, NEW r \in X!Requests, X!Serving(r),
           UNCHANGED <<platform, field, opened, callback>>,
           child'[r] \in {"running", "closed", "exited"}, EndsIn(told'[r]) = {},
           reading' = reading \/ (platform = "Windows" /\ reading' = Null),
           platform = "Amiga" \/ signals' = {}, ExitIsOfOne'
    PROVE  X!OneCommand'
<1>1. X!IsOf(X!Object, r)'
  BY DEF X!Serving, X!IsOf, X!Object
<1>2. X!Serving(r)'
  BY <1>1 DEF X!Serving, X!Ends, EndsIn, ExitIsOfOne
<1> QED BY <1>2 DEF X!OneCommand

\* launchCommand(), from the main loop.
LEMMA ExFollowsLaunch ==
    ASSUME X!TypeOK, X!OneCommand, X!OutputFlows, NEW r \in X!Requests, X!Launch(r), ~X!Disturbed'
    PROVE  X!OneCommand' /\ X!OutputFlows'
<1>1. PICK o \in X!LaunchCommand(X!Object, r) :
         /\ X!Becomes(o.object)
         /\ X!Asked(r, o)
         /\ reading' = IF o.launched THEN r ELSE reading
         /\ overlapped' = (overlapped \/ (X!IsRunning(X!Object) /\ callback # Null))
  BY DEF X!Launch
<1>2. X!Fresh(r) /\ UNCHANGED <<platform, signals, pipe, written, hushed, told>>
  BY DEF X!Launch, X!output
<1>3. ExResult(X!Object, r, o) /\ o \in ExOutcomes /\ o.object \in ExObjects
  BY ExObject, ExLaunch DEF X!TypeOK, ExResult, ExOutcomes
<1>4. X!Object' = o.object
  BY <1>1, <1>3, ExBecomes
<1>5. /\ child[r] = "none" /\ child'[r] = IF o.started THEN "running" ELSE "refused"
      /\ \A q \in X!Requests : q # r => child'[q] = child[q]
  BY <1>1, <1>2, <1>3, ExAsked
<1>6. X!OutputFlows'
  <2>1. \A q \in X!Requests :
           child'[q] = child[q] \/ (child[q] = "none" /\ child'[q] # "none")
    BY <1>5
  <2> QED BY <1>2, <2>1, ExFlowsStay
<1>7. EndsIn(told[r]) = {}
  BY <1>5, ExFlowOf DEF Flow
<1>8. CASE X!HasNothing(X!Object) /\ reading = Null /\ signals = {}
  <2>1. CASE o.launched
    <3>1. o.started /\ X!IsOf(o.object, r)
      BY <1>3, <1>8, <2>1 DEF ExResult
    <3>2. X!IsOf(X!Object, r)'
      BY <1>2, <1>4, <3>1 DEF X!IsOf
    <3>3. X!Serving(r)'
      BY <1>1, <1>2, <1>5, <1>7, <1>8, <2>1, <3>1, <3>2 DEF X!Serving, X!Ends, EndsIn
    <3> QED BY <1>6, <3>3 DEF X!OneCommand
  <2>2. CASE ~o.launched
    <3>1. X!HasNothing(o.object)
      BY <1>3, <1>8, <2>2 DEF ExResult, Nobody, X!HasNothing
    <3> QED BY <1>1, <1>2, <1>3, <1>6, <1>8, <2>2, <3>1, ExIdle
  <2> QED BY <2>1, <2>2
<1>9. ASSUME NEW q \in X!Requests, X!Serving(q)
      PROVE  X!OneCommand'
  <2>1. EndsIn(told[q]) = {} /\ child[q] \in {"running", "closed", "exited"} /\ callback = q
    BY <1>9, ExFlowServing
  <2>2. X!IsRunning(X!Object) /\ callback # Null
    BY <1>9, <2>1, ExObject, ExRunning, CommandsAssumption DEF X!Serving, X!TypeOK, X!Requests
  <2>3. platform = "Amiga"
    BY <1>1, <1>2, <2>2 DEF X!Disturbed
  <2>4. o = X!Outcome(X!Object, FALSE, FALSE)
    BY <1>3, <2>2, <2>3 DEF ExResult
  <2>5. o.object = X!Object /\ o.launched = FALSE
    BY <2>4, ExObject, ExOutcome
  <2>6. UNCHANGED <<field, opened, callback, exitCode>>
    BY <1>1, <2>5, ExObject DEF X!Becomes
  <2>7. child'[q] = child[q] /\ reading' = reading /\ told' = told
    BY <1>1, <1>2, <1>5, <2>1, <2>5
  <2>8. ExitIsOfOne'
    <3>1. \A s \in X!Requests : child[s] = "exited" => child'[s] = "exited"
      BY <1>5
    <3> QED BY <1>2, <1>9, <2>6, <3>1 DEF X!Serving, ExitIsOfOne
  <2> QED BY <1>2, <1>9, <2>1, <2>3, <2>6, <2>7, <2>8, ExServingGoesOn
<1> QED BY <1>6, <1>8, <1>9 DEF X!OneCommand

LEMMA ExFollowsWrite ==
    ASSUME X!TypeOK, X!OneCommand, X!OutputFlows, NEW r \in X!Requests,
           NEW c \in ExEnds, NEW n \in 0 .. MaxPieces, NEW v \in Nat,
           c = "err" => platform = "Qt",
           \/ n = written[r] + 1 /\ v = written[r] + 1
           \/ n = 0 /\ v = written[r] /\ platform = "Windows",
           child[r] = "running",
           pipe' = [pipe EXCEPT ![r][c] = Append(@, X!Piece(r, c, n))],
           written' = [written EXCEPT ![r] = v],
           UNCHANGED <<platform, field, opened, callback, exitCode, reading, signals, child, told>>
    PROVE  X!OneCommand' /\ X!OutputFlows'
<1> DEFINE q == [pipe[r] EXCEPT ![c] = Append(@, X!Piece(r, c, n))]
<1>1. /\ told[r] \in Seq(X!Things) /\ pipe[r] \in ExPipes /\ written[r] \in Nat
      /\ Flow(platform, r, told[r], pipe[r], written[r], "running")
      /\ told \in [X!Requests -> Seq(X!Things)] /\ pipe \in [X!Requests -> ExPipes]
  BY ExFlowOf
<1>2. q \in ExPipes /\ Flow(platform, r, told[r], q, v, "running")
  BY <1>1, ExFlowWrites
<1>3. pipe' = [pipe EXCEPT ![r] = q]
  BY <1>1
<1> HIDE DEF q
<1>4. pipe' \in [X!Requests -> ExPipes] /\ pipe'[r] = q
  BY <1>1, <1>2, <1>3
<1>5. written'[r] = v
  BY DEF X!TypeOK
<1>6. Touches(r)
  BY <1>1, <1>3 DEF Touches, X!TypeOK
<1>7. X!OutputFlows'
  BY <1>1, <1>2, <1>4, <1>5, <1>6, ExFlowsStep
<1>8. X!OneCommand'
  <2>1. CASE X!HasNothing(X!Object) /\ reading = Null /\ signals = {}
    BY <2>1 DEF X!OneCommand, X!HasNothing, X!Object
  <2>2. ASSUME NEW s \in X!Requests, X!Serving(s)
        PROVE  X!OneCommand'
    BY <2>2, ExFlowServing, ExServingGoesOn DEF X!Serving, ExitIsOfOne
  <2> QED BY <2>1, <2>2 DEF X!OneCommand
<1> QED BY <1>7, <1>8

LEMMA ExFollowsRunning ==
    ASSUME X!TypeOK, X!OneCommand, X!OutputFlows, NEW r \in X!Requests,
           X!WriteNothing(r) \/ X!CloseOutput(r) \/ X!ExitChild(r)
              \/ \E c \in {"out", "err"} : X!Write(r, c)
    PROVE  X!OneCommand' /\ X!OutputFlows'
<1>1. CASE X!WriteNothing(r)
  <2>1. 0 \in 0 .. MaxPieces /\ written[r] \in Nat /\ "out" \in ExEnds
    BY ExFlowOf, CommandsAssumption DEF ExEnds
  <2>2. written' = [written EXCEPT ![r] = written[r]]
    BY <1>1 DEF X!WriteNothing, X!TypeOK
  <2>3. /\ platform = "Windows" /\ child[r] = "running"
        /\ pipe' = [pipe EXCEPT ![r]["out"] = Append(@, X!Piece(r, "out", 0))]
        /\ UNCHANGED <<platform, field, opened, callback, exitCode, reading, signals, child, told>>
    BY <1>1 DEF X!WriteNothing, X!object
  <2> QED BY <2>1, <2>2, <2>3, ExFollowsWrite
<1>2. CASE X!CloseOutput(r) \/ X!ExitChild(r)
  <2>1. /\ UNCHANGED <<platform, written, field, opened, callback, reading, pipe, told>>
        /\ child[r] \in {"running", "closed"} /\ child'[r] \in {"closed", "exited"}
        /\ \A q \in X!Requests : q # r => child'[q] = child[q]
        /\ \/ signals' = signals /\ exitCode' = exitCode
           \/ platform = "Amiga" /\ exitCode' = r /\ child'[r] = "exited"
        /\ (platform = "Amiga" /\ field["sigBit"] # Null) \/ signals' = signals
    BY <1>2 DEF X!CloseOutput, X!ExitChild, X!object, X!output, X!TypeOK
  <2>2. X!OutputFlows'
    BY <2>1, ExFlowsStay
  <2>3. CASE X!HasNothing(X!Object) /\ reading = Null /\ signals = {}
    <3>1. ~(platform = "Amiga" /\ field["sigBit"] # Null)
      BY <2>3, ExObject, ExFields, CommandsAssumption DEF X!HasNothing, X!Requests
    <3> QED BY <2>1, <2>2, <2>3, <3>1 DEF X!OneCommand, X!HasNothing, X!Object
  <2>4. ASSUME NEW s \in X!Requests, X!Serving(s)
        PROVE  X!OneCommand'
    <3>1. EndsIn(told[s]) = {} /\ child[s] \in {"running", "closed", "exited"}
      BY <2>4, ExFlowServing
    <3>2. child'[s] \in {"running", "closed", "exited"}
      BY <2>1, <3>1
    <3>3. platform = "Amiga" \/ signals' = {}
      BY <2>1, <2>4 DEF X!Serving
    <3>4. ExitIsOfOne'
      BY <2>1, <2>4 DEF X!Serving, ExitIsOfOne
    <3> QED BY <2>1, <2>4, <3>1, <3>2, <3>3, <3>4, ExServingGoesOn
  <2> QED BY <2>2, <2>3, <2>4 DEF X!OneCommand
<1>3. ASSUME NEW c \in {"out", "err"}, X!Write(r, c)
      PROVE  X!OneCommand' /\ X!OutputFlows'
  <2> DEFINE v == written[r] + 1
  <2>1. v \in 0 .. MaxPieces /\ v \in Nat /\ c \in ExEnds
    BY <1>3, ExFlowOf, CommandsAssumption DEF ExEnds, X!Write
  <2>2. c = "err" => platform = "Qt"
    BY <1>3 DEF X!Write, X!Channels
  <2>3. /\ child[r] = "running"
        /\ pipe' = [pipe EXCEPT ![r][c] = Append(@, X!Piece(r, c, v))]
        /\ written' = [written EXCEPT ![r] = v]
        /\ UNCHANGED <<platform, field, opened, callback, exitCode, reading, signals, child, told>>
    BY <1>3 DEF X!Write, X!object
  <2> HIDE DEF v
  <2>4. v = written[r] + 1
    BY DEF v
  <2> QED BY <2>1, <2>2, <2>3, <2>4, ExFollowsWrite
<1> QED BY <1>1, <1>2, <1>3

\* The client is told things, by a step about its request.
LEMMA ExTells ==
    ASSUME X!TypeOK, X!OutputFlows, NEW r \in X!Requests, callback = r,
           NEW things, X!Tell(things), told[r] \o things \in Seq(X!Things)
    PROVE  /\ told' \in [X!Requests -> Seq(X!Things)] /\ told'[r] = told[r] \o things
           /\ \A q \in X!Requests \ {r} : told'[q] = told[q]
<1> DEFINE t == told[r] \o things
<1>1. told' = [told EXCEPT ![r] = t]
  BY ExTold
<1> HIDE DEF t
<1>2. t \in Seq(X!Things) /\ told \in [X!Requests -> Seq(X!Things)]
  BY ExFlowOf DEF t
<1>3. told' \in [X!Requests -> Seq(X!Things)] /\ told'[r] = t
  BY <1>1, <1>2
<1>4. \A q \in X!Requests \ {r} : told'[q] = told[q]
  BY <1>1, <1>2
<1> QED BY <1>3, <1>4 DEF t

\* What is in the pipes of r is p.
LEMMA ExPiped ==
    ASSUME X!TypeOK, X!OutputFlows, NEW r \in X!Requests, NEW p \in ExPipes,
           pipe' = [pipe EXCEPT ![r] = p]
    PROVE  /\ pipe' \in [X!Requests -> ExPipes] /\ pipe'[r] = p
           /\ \A q \in X!Requests \ {r} : pipe'[q] = pipe[q]
BY ExFlowOf

\* The callback is told that a command has ended.
LEMMA ExFollowsEnd ==
    ASSUME X!TypeOK, X!OutputFlows, NEW r \in X!Requests, X!Serving(r),
           NEW e \in X!Things, e.n = 0, X!Tell(<<e>>), Moved, UNCHANGED <<platform, written, pipe>>,
           platform # "Amiga" =>
              child[r] \in {"closed", "exited"} /\ \A c \in ExEnds : pipe[r][c] = <<>>
    PROVE  X!OutputFlows'
<1>1. /\ told[r] \in Seq(X!Things) /\ pipe[r] \in ExPipes /\ written[r] \in Nat
      /\ Flow(platform, r, told[r], pipe[r], written[r], child[r])
      /\ pipe \in [X!Requests -> ExPipes]
  BY ExFlowOf
<1>2. EndsIn(told[r]) = {} /\ child[r] \in {"running", "closed", "exited"} /\ callback = r
  BY ExFlowServing
<1>3. /\ told[r] \o <<e>> = Append(told[r], e)
      /\ Append(told[r], e) \in Seq(X!Things)
  BY <1>1, ExAppend
<1>4. Flow(platform, r, Append(told[r], e), pipe[r], written[r], child[r])
  BY <1>1, <1>2, ExFlowEnds
<1>5. /\ told' \in [X!Requests -> Seq(X!Things)] /\ told'[r] = told[r] \o <<e>>
      /\ \A q \in X!Requests \ {r} : told'[q] = told[q]
  BY <1>2, <1>3, ExTells
<1>6. child'[r] = child[r]
  BY <1>2 DEF Moved
<1>7. Touches(r)
  BY <1>5 DEF Touches, Moved
<1> QED BY <1>1, <1>3, <1>4, <1>5, <1>6, <1>7, ExFlowsStep

LEMMA ExFollowsData ==
    ASSUME X!TypeOK, X!OneCommand, X!OutputFlows, X!DataAvailable
    PROVE  X!OneCommand' /\ X!OutputFlows'
<1>1. /\ platform = "Amiga" /\ "data" \in signals /\ signals' = {}
      /\ UNCHANGED <<platform, written, hushed, child, accepted, overlapped>>
  BY DEF X!DataAvailable, X!asked, X!output
<1>2. PICK r \in X!Requests : X!Serving(r) /\ callback = r
  BY <1>1, ExServing
<1>3. reading = r
  BY <1>1, <1>2 DEF X!Serving
<1>4. /\ told[r] \in Seq(X!Things) /\ pipe[r] \in ExPipes /\ written[r] \in Nat
      /\ Flow(platform, r, told[r], pipe[r], written[r], child[r])
      /\ pipe \in [X!Requests -> ExPipes]
  BY ExFlowOf
<1>5. EndsIn(told[r]) = {} /\ child[r] \in {"running", "closed", "exited"}
  BY <1>2, ExFlowServing
<1>6. CASE pipe[r]["out"] # <<>>
  <2> DEFINE x == Head(pipe[r]["out"])
             u == Append(told[r], x)
             q == Rest(pipe[r], "out")
  <2>1. X!Tell(<<x>>) /\ pipe' = [pipe EXCEPT ![r] = q]
        /\ UNCHANGED <<field, opened, callback, exitCode, reading>>
    BY <1>3, <1>4, <1>6 DEF X!DataAvailable, X!object, Rest
  <2>2. pipe[r]["out"] \in Seq(X!Things) /\ "out" \in ExEnds
    BY <1>4 DEF ExPipes, ExEnds
  <2>3. x \in X!Things /\ x.n > 0
    <3>1. x \in X!Things /\ x = pipe[r]["out"][1] /\ 1 \in DOMAIN pipe[r]["out"]
      BY <1>6, <2>2, HeadTailProperties
    <3> QED BY <1>1, <1>4, <2>2, <3>1 DEF Flow
  <2>4. Going(platform, r, u, q, written[r], child[r])
    <3>1. Brings(pipe[r], "out")
      BY <1>6, <2>3 DEF Brings
    <3>2. u = More(told[r], pipe[r], "out")
      BY DEF More
    <3>3. Going(platform, r, told[r], pipe[r], written[r], child[r])
      BY <1>4, <1>5 DEF Going
    <3> HIDE DEF u, x
    <3> QED BY <1>4, <1>5, <2>2, <3>1, <3>2, <3>3, ExFlowTakes
  <2>5. told[r] \o <<x>> = u
    BY <1>4, <2>3, ExAppend
  <2> HIDE DEF x, u, q
  <2>6. /\ told' \in [X!Requests -> Seq(X!Things)] /\ told'[r] = u
        /\ \A s \in X!Requests \ {r} : told'[s] = told[s]
    BY <1>2, <2>1, <2>4, <2>5, ExTells DEF Going
  <2>7. /\ pipe' \in [X!Requests -> ExPipes] /\ pipe'[r] = q
        /\ \A s \in X!Requests \ {r} : pipe'[s] = pipe[s]
    BY <2>1, <2>4, ExPiped DEF Going
  <2>8. Touches(r)
    BY <1>1, <2>6, <2>7 DEF Touches
  <2>9. X!OutputFlows'
    BY <1>1, <2>4, <2>6, <2>7, <2>8, ExFlowsStep DEF Going
  <2>10. X!OneCommand'
    BY <1>1, <1>2, <1>5, <2>1, <2>4, <2>6, ExServingGoesOn DEF Going, ExitIsOfOne
  <2> QED BY <2>9, <2>10
<1>7. CASE ~(pipe[r]["out"] # <<>>)
  <2>1. X!Becomes(X!Close(X!Object)) /\ reading' = Null /\ UNCHANGED <<told, pipe>>
    BY <1>3, <1>7 DEF X!DataAvailable
  <2>2. X!Close(X!Object) \in ExObjects /\ X!HasNothing(X!Close(X!Object))
    BY <1>1, <1>2, ExCloseServing
  <2>3. X!OneCommand'
    BY <1>1, <2>1, <2>2, ExIdle
  <2>4. X!OutputFlows'
    BY <1>1, <2>1, ExFlowsStay
  <2> QED BY <2>3, <2>4
<1> QED BY <1>6, <1>7

LEMMA ExFollowsReply ==
    ASSUME X!TypeOK, X!OneCommand, X!OutputFlows, X!ReplyPacket
    PROVE  X!OneCommand' /\ X!OutputFlows'
<1>1. /\ platform = "Amiga" /\ reading # Null
      /\ UNCHANGED <<platform, field, opened, callback, exitCode, reading, child, pipe, told, written>>
  BY DEF X!ReplyPacket, X!object, X!output
<1>2. PICK r \in X!Requests : X!Serving(r)
  BY <1>1, ExServing
<1>3. X!OneCommand'
  <2>1. ExitIsOfOne'
    BY <1>1, <1>2 DEF X!Serving, X!ReplyPacket, ExitIsOfOne
  <2> QED BY <1>1, <1>2, <2>1, ExFlowServing, ExServingGoesOn
<1>4. X!OutputFlows'
  BY <1>1, ExFlowsStay
<1> QED BY <1>3, <1>4

\* readComplete() with the end of the command: the client may ask again from its
\* callback, and close() follows.
LEMMA ExFollowsChildExited ==
    ASSUME X!TypeOK, X!OneCommand, X!OutputFlows, X!ChildExited
    PROVE  X!OneCommand' /\ X!OutputFlows'
<1>1. PICK a \in X!AfterCallback : X!Becomes(X!Close(a.outcome.object)) /\ X!AskedAfter(a)
  BY DEF X!ChildExited
<1>2. /\ platform = "Amiga" /\ "exit" \in signals /\ X!Tell(<<X!Exit(exitCode)>>)
      /\ reading' = Null /\ signals' = {} /\ UNCHANGED <<platform, pipe, written>>
  BY DEF X!ChildExited, X!output
<1>3. PICK r \in X!Requests : X!Serving(r) /\ callback = r
  BY <1>2, ExServing
<1>4. X!Exit(exitCode) \in X!Things /\ X!Exit(exitCode).n = 0
  BY <1>2, <1>3, ExExit DEF X!Serving
<1>5. a.outcome.object = X!Object
  <2>1. X!IsRunning(X!Object)
    BY <1>3, ExObject, ExRunning DEF X!Serving, X!TypeOK
  <2>2. a.outcome = X!Outcome(X!Object, FALSE, FALSE)
    BY <1>1, <1>2, <2>1, ExAskedAfter DEF ExResult
  <2> QED BY <2>2, ExObject, ExOutcome
<1>6. X!Close(X!Object) \in ExObjects /\ X!HasNothing(X!Close(X!Object))
  BY <1>2, <1>3, ExCloseServing
<1>7. X!OneCommand'
  BY <1>1, <1>2, <1>5, <1>6, ExIdle
<1>8. X!OutputFlows'
  BY <1>1, <1>2, <1>3, <1>4, ExAskedAfter, ExFollowsEnd
<1> QED BY <1>7, <1>8

LEMMA ExFollowsFinished ==
    ASSUME X!TypeOK, X!OneCommand, X!OutputFlows, X!OnFinished, ~X!Disturbed'
    PROVE  X!OneCommand' /\ X!OutputFlows'
<1>1. PICK a \in X!AfterCallback :
         X!Becomes(X!Release(a.outcome.object, {"process"})) /\ X!AskedAfter(a)
  BY DEF X!OnFinished
<1>2. /\ platform = "Qt" /\ reading # Null /\ child[reading] = "exited" /\ X!Drained(reading)
      /\ X!Tell(<<X!Exit(reading)>>) /\ reading' = Null
      /\ UNCHANGED <<platform, pipe, written, signals>>
  BY DEF X!OnFinished, X!output
<1>3. PICK r \in X!Requests : X!Serving(r) /\ reading = r
  BY <1>2, ExServing
<1>4. a.outcome.object = X!Object
  <2>1. a.outcome = X!Outcome(X!Object, FALSE, FALSE)
    BY <1>1, <1>2, ExAskedAfter DEF X!Disturbed
  <2> QED BY <2>1, ExObject, ExOutcome
<1>5. /\ X!Release(X!Object, {"process"}) \in ExObjects
      /\ X!HasNothing(X!Release(X!Object, {"process"}))
  BY <1>2, <1>3, ExReleaseServing
<1>6. signals' = {}
  BY <1>2, <1>3 DEF X!Serving
<1>7. X!OneCommand'
  BY <1>1, <1>2, <1>4, <1>5, <1>6, ExIdle
<1>8. \A c \in ExEnds : pipe[r][c] = <<>>
  BY <1>2, <1>3 DEF X!Drained, ExEnds
<1>9. X!OutputFlows'
  BY <1>1, <1>2, <1>3, <1>8, ExAskedAfter, ExExit, ExFollowsEnd
<1> QED BY <1>7, <1>9

LEMMA ExFollowsBroken ==
    ASSUME X!TypeOK, X!OneCommand, X!OutputFlows, X!PipeBroken, ~X!Disturbed'
    PROVE  X!OneCommand' /\ X!OutputFlows'
<1>1. PICK a \in X!AfterCallback : X!Becomes(X!Close(a.outcome.object)) /\ X!AskedAfter(a)
  BY DEF X!PipeBroken
<1>2. /\ platform = "Windows" /\ reading # Null /\ X!AtEnd(reading)
      /\ X!Tell(<<X!Exit(reading)>>) /\ reading' = Null
      /\ UNCHANGED <<platform, pipe, written, signals>>
  BY DEF X!PipeBroken, X!output
<1>3. PICK r \in X!Requests : X!Serving(r) /\ reading = r
  BY <1>2, ExServing
<1>4. a.outcome.object = X!Object
  <2>1. a.outcome = X!Outcome(X!Object, FALSE, FALSE)
    BY <1>1, <1>2, ExAskedAfter DEF X!Disturbed
  <2> QED BY <2>1, ExObject, ExOutcome
<1>5. X!Close(X!Object) \in ExObjects /\ X!HasNothing(X!Close(X!Object))
  BY <1>2, <1>3, ExCloseServing
<1>6. signals' = {}
  BY <1>2, <1>3 DEF X!Serving
<1>7. X!OneCommand'
  BY <1>1, <1>2, <1>4, <1>5, <1>6, ExIdle
<1>8. child[r] \in {"closed", "exited"} /\ \A c \in ExEnds : pipe[r][c] = <<>>
  <2>1. Flow(platform, r, told[r], pipe[r], written[r], child[r])
    BY ExFlowOf
  <2>2. pipe[r]["err"] = <<>>
    BY <1>2, <2>1 DEF Flow, ExEnds
  <2> QED BY <1>2, <1>3, <2>2 DEF X!AtEnd, ExEnds
<1>9. X!OutputFlows'
  BY <1>1, <1>2, <1>3, <1>8, ExAskedAfter, ExExit, ExFollowsEnd
<1> QED BY <1>7, <1>9

\* onReadyRead(): the one channel, then the other.
LEMMA ExFollowsReady ==
    ASSUME X!TypeOK, X!OneCommand, X!OutputFlows, X!OnReadyRead
    PROVE  X!OneCommand' /\ X!OutputFlows'
<1>1. /\ platform = "Qt" /\ reading # Null
      /\ X!Tell(pipe[reading]["out"] \o pipe[reading]["err"])
      /\ pipe' = [pipe EXCEPT ![reading] = [c \in {"out", "err"} |-> <<>>]]
      /\ UNCHANGED <<platform, written, field, opened, callback, exitCode, reading, signals, child>>
  BY DEF X!OnReadyRead, X!output, X!object
<1>2. PICK r \in X!Requests : X!Serving(r) /\ reading = r /\ callback = r
  BY <1>1, ExServing
<1>3. /\ told[r] \in Seq(X!Things) /\ pipe[r] \in ExPipes /\ written[r] \in Nat
      /\ Flow(platform, r, told[r], pipe[r], written[r], child[r])
  BY ExFlowOf
<1>4. EndsIn(told[r]) = {} /\ child[r] \in {"running", "closed", "exited"}
  BY <1>2, ExFlowServing
<1>5. "out" \in ExEnds /\ "err" \in ExEnds /\ ExEnds = {"out", "err"}
  BY DEF ExEnds
<1>6. Going(platform, r, told[r], pipe[r], written[r], child[r])
  BY <1>3, <1>4 DEF Going
<1> DEFINE q == Emptied(pipe[r], "out")
           u == told[r] \o pipe[r]["out"]
           s == Emptied(q, "err")
           v == u \o q["err"]
<1>7. Going(platform, r, u, q, written[r], child[r])
  BY <1>1, <1>3, <1>4, <1>5, <1>6, ExFlowTakesAll, SMTT(30)
<1>8. q["err"] = pipe[r]["err"] /\ s = [c \in {"out", "err"} |-> <<>>]
  BY <1>3, <1>5 DEF Emptied, ExPipes
<1>9. v = told[r] \o (pipe[r]["out"] \o pipe[r]["err"])
  <2>1. pipe[r]["out"] \in Seq(X!Things) /\ pipe[r]["err"] \in Seq(X!Things)
    BY <1>3, <1>5 DEF ExPipes
  <2> HIDE DEF q, v, u, s
  <2>2. (told[r] \o pipe[r]["out"]) \o pipe[r]["err"]
           = told[r] \o (pipe[r]["out"] \o pipe[r]["err"])
    <3> DEFINE a == told[r]
               b == pipe[r]["out"]
               c == pipe[r]["err"]
               S == X!Things
    <3>1. a \in Seq(S) /\ b \in Seq(S) /\ c \in Seq(S)
      BY <1>3, <2>1
    <3> HIDE DEF a, b, c, S
    <3>2. (a \o b) \o c = a \o (b \o c)
      BY <3>1, ConcatAssociative
    <3> QED BY <3>2 DEF a, b, c
  <2>3. v = (told[r] \o pipe[r]["out"]) \o pipe[r]["err"]
    BY <1>8 DEF u, v
  <2> QED BY <2>2, <2>3
<1> HIDE DEF u, q
<1>10. Going(platform, r, v, s, written[r], child[r])
  BY <1>1, <1>3, <1>4, <1>5, <1>7, ExFlowTakesAll
<1> HIDE DEF v, s
<1>11. /\ told' \in [X!Requests -> Seq(X!Things)] /\ told'[r] = v
       /\ \A p \in X!Requests \ {r} : told'[p] = told[p]
  BY <1>1, <1>2, <1>9, <1>10, ExTells DEF Going
<1>12. /\ pipe' \in [X!Requests -> ExPipes] /\ pipe'[r] = s
       /\ \A p \in X!Requests \ {r} : pipe'[p] = pipe[p]
  BY <1>1, <1>2, <1>8, <1>10, ExPiped DEF Going
<1>13. Touches(r)
  BY <1>1, <1>11, <1>12 DEF Touches
<1>14. X!OutputFlows'
  BY <1>1, <1>10, <1>11, <1>12, <1>13, ExFlowsStep DEF Going
<1>15. X!OneCommand'
  <2>1. signals' = {}
    BY <1>1, <1>2 DEF X!Serving
  <2> QED BY <1>1, <1>2, <1>4, <1>10, <1>11, <2>1, ExServingGoesOn DEF Going, ExitIsOfOne
<1> QED BY <1>14, <1>15

LEMMA ExAppendTwo ==
    ASSUME NEW t \in Seq(X!Things), NEW x \in X!Things, NEW e \in X!Things
    PROVE  t \o <<x, e>> = Append(Append(t, x), e)
<1> DEFINE S == X!Things
           two == <<x, e>>
           u == t \o two
           v == Append(t, x)
           w == Append(v, e)
<1>1. two \in Seq(S) /\ Len(two) = 2 /\ two[1] = x /\ two[2] = e
  OBVIOUS
<1> HIDE DEF S, two
<1>2. t \in Seq(S) /\ x \in S /\ e \in S /\ Len(t) \in Nat
  BY DEF S
<1>3. /\ u \in Seq(S) /\ Len(u) = Len(t) + 2
      /\ \A i \in 1 .. Len(t) + 2 : u[i] = IF i <= Len(t) THEN t[i] ELSE two[i - Len(t)]
  <2>1. /\ u \in Seq(S) /\ Len(u) = Len(t) + Len(two)
        /\ \A i \in 1 .. Len(t) + Len(two) : u[i] = IF i <= Len(t) THEN t[i] ELSE two[i - Len(t)]
    BY <1>1, <1>2, ConcatProperties
  <2> QED BY <1>1, <2>1
<1>4. /\ v \in Seq(S) /\ Len(v) = Len(t) + 1
      /\ \A i \in 1 .. Len(t) : v[i] = t[i]
      /\ v[Len(t) + 1] = x
  BY <1>2, AppendProperties
<1> HIDE DEF u, v
<1>5. /\ w \in Seq(S) /\ Len(w) = Len(v) + 1
      /\ \A i \in 1 .. Len(v) : w[i] = v[i]
      /\ w[Len(v) + 1] = e
  BY <1>2, <1>4, AppendProperties
<1> HIDE DEF w
<1>6. \A i \in 1 .. Len(u) : u[i] = w[i]
  <2> TAKE i \in 1 .. Len(u)
  <2>1. i \in 1 .. Len(t) \/ i = Len(t) + 1 \/ i = Len(t) + 2
    BY <1>2, <1>3
  <2>2. CASE i \in 1 .. Len(t)
    BY <1>2, <1>3, <1>4, <1>5, <2>2
  <2>3. CASE i = Len(t) + 1
    <3>1. u[i] = two[1]
      BY <1>2, <1>3, <2>3
    <3>2. w[i] = v[i]
      BY <1>2, <1>4, <1>5, <2>3
    <3> QED BY <1>1, <1>4, <2>3, <3>1, <3>2
  <2>4. CASE i = Len(t) + 2
    <3>1. u[i] = two[2]
      BY <1>2, <1>3, <2>4
    <3>2. i = Len(v) + 1
      BY <1>2, <1>4, <2>4
    <3> QED BY <1>1, <1>5, <3>1, <3>2
  <2> QED BY <2>1, <2>2, <2>3, <2>4
<1>7. u = w
  <2>1. Len(u) = Len(w)
    BY <1>2, <1>3, <1>4, <1>5
  <2> QED BY <1>3, <1>5, <1>6, <2>1, SeqEqual
<1> QED BY <1>7 DEF u, v, w, two

\* The completion routine: a piece of output, which may be followed by an error, or a
\* read of no bytes.
LEMMA ExFollowsSome ==
    ASSUME X!TypeOK, X!OneCommand, X!OutputFlows, X!ReadSome
    PROVE  X!OneCommand' /\ X!OutputFlows'
<1> DEFINE x == Head(pipe[reading]["out"])
<1>1. /\ platform = "Windows" /\ reading # Null /\ pipe[reading]["out"] # <<>>
      /\ pipe' = [pipe EXCEPT ![reading]["out"] = Tail(@)]
      /\ UNCHANGED <<platform, written, signals, child>>
  BY DEF X!ReadSome, X!output
<1>2. PICK r \in X!Requests : X!Serving(r) /\ reading = r /\ callback = r
  BY <1>1, ExServing
<1>3. /\ told[r] \in Seq(X!Things) /\ pipe[r] \in ExPipes /\ written[r] \in Nat
      /\ Flow(platform, r, told[r], pipe[r], written[r], child[r])
      /\ told \in [X!Requests -> Seq(X!Things)]
      /\ pipe \in [X!Requests -> ExPipes]
  BY ExFlowOf
<1>4. EndsIn(told[r]) = {} /\ child[r] \in {"running", "closed", "exited"} /\ signals' = {}
  BY <1>1, <1>2, ExFlowServing DEF X!Serving
<1>5. Going(platform, r, told[r], pipe[r], written[r], child[r])
  BY <1>3, <1>4 DEF Going
<1> DEFINE q == Rest(pipe[r], "out")
<1>6. pipe' = [pipe EXCEPT ![r] = q]
  BY <1>1, <1>2, <1>3 DEF Rest
<1>7. \/ x.n > 0 /\ X!Tell(<<x>>) /\ UNCHANGED <<field, opened, callback, exitCode, reading>>
      \/ /\ x.n > 0 /\ X!Tell(<<x, X!Broken(r)>>)
         /\ X!Becomes(X!Close(X!Object)) /\ reading' = Null
      \/ x.n = 0 /\ reading' = Null /\ UNCHANGED <<told, field, opened, callback, exitCode>>
  BY <1>2 DEF X!ReadSome, X!object
<1>8. pipe[r]["out"] \in Seq(X!Things) /\ "out" \in ExEnds
  BY <1>3 DEF ExPipes, ExEnds
<1>9. x \in X!Things
  BY <1>1, <1>2, <1>8, HeadTailProperties
<1>10. x = Head(pipe[r]["out"]) /\ pipe[r]["out"] # <<>>
  BY <1>1, <1>2
<1> HIDE DEF x
<1>11. ASSUME x.n > 0
       PROVE  /\ Going(platform, r, Append(told[r], x), q, written[r], child[r])
              /\ told[r] \o <<x>> = Append(told[r], x)
  <2>1. Brings(pipe[r], "out")
    BY <1>10, <1>11 DEF Brings
  <2>2. Append(told[r], x) = More(told[r], pipe[r], "out")
    BY <1>10 DEF More
  <2>3. Going(platform, r, More(told[r], pipe[r], "out"), q, written[r], child[r])
    BY <1>3, <1>4, <1>5, <1>8, <2>1, ExFlowTakes
  <2> QED BY <1>3, <1>9, <2>2, <2>3, ExAppend
<1> HIDE DEF q
<1>12. CASE x.n > 0 /\ X!Tell(<<x>>) /\ UNCHANGED <<field, opened, callback, exitCode, reading>>
  <2> DEFINE u == Append(told[r], x)
  <2>1. Going(platform, r, u, q, written[r], child[r]) /\ told[r] \o <<x>> = u
    BY <1>11, <1>12
  <2> HIDE DEF u
  <2>2. /\ told' \in [X!Requests -> Seq(X!Things)] /\ told'[r] = u
        /\ \A s \in X!Requests \ {r} : told'[s] = told[s]
    BY <1>2, <1>12, <2>1, ExTells DEF Going
  <2>3. /\ pipe' \in [X!Requests -> ExPipes] /\ pipe'[r] = q
        /\ \A s \in X!Requests \ {r} : pipe'[s] = pipe[s]
    BY <1>6, <2>1, ExPiped DEF Going
  <2>4. Touches(r)
    BY <1>1, <2>2, <2>3 DEF Touches
  <2>5. X!OutputFlows'
    BY <1>1, <2>1, <2>2, <2>3, <2>4, ExFlowsStep DEF Going
  <2>6. X!OneCommand'
    BY <1>1, <1>2, <1>4, <1>12, <2>1, <2>2, ExServingGoesOn DEF Going, ExitIsOfOne
  <2> QED BY <2>5, <2>6
<1>13. CASE /\ x.n > 0 /\ X!Tell(<<x, X!Broken(r)>>)
            /\ X!Becomes(X!Close(X!Object)) /\ reading' = Null
  <2> DEFINE u == Append(told[r], x)
             v == Append(u, X!Broken(r))
  <2>1. Going(platform, r, u, q, written[r], child[r])
    BY <1>11, <1>13
  <2>2. v \in Seq(X!Things) /\ told[r] \o <<x, X!Broken(r)>> = v
    BY <1>3, <1>9, ExExit, ExAppend, ExAppendTwo
  <2>3. Flow(platform, r, v, q, written[r], child[r])
    <3>1. /\ X!Broken(r) # X!Exit(r)
          /\ X!Broken(r) \in X!Things /\ X!Broken(r).n = 0
      BY ExExit
    <3> HIDE DEF u
    <3> QED BY <1>3, <1>4, <2>1, <3>1, ExFlowEnds DEF Going
  <2> HIDE DEF u, v
  <2>4. /\ told' \in [X!Requests -> Seq(X!Things)] /\ told'[r] = v
        /\ \A s \in X!Requests \ {r} : told'[s] = told[s]
    BY <1>2, <1>13, <2>2, ExTells
  <2>5. /\ pipe' \in [X!Requests -> ExPipes] /\ pipe'[r] = q
        /\ \A s \in X!Requests \ {r} : pipe'[s] = pipe[s]
    BY <1>6, <2>1, ExPiped DEF Going
  <2>6. Touches(r)
    BY <1>1, <2>4, <2>5 DEF Touches
  <2>7. X!OutputFlows'
    BY <1>1, <2>3, <2>4, <2>5, <2>6, ExFlowsStep
  <2>8. X!Close(X!Object) \in ExObjects /\ X!HasNothing(X!Close(X!Object))
    BY <1>1, <1>2, ExCloseServing
  <2>9. X!OneCommand'
    BY <1>1, <1>4, <1>13, <2>8, ExIdle
  <2> QED BY <2>7, <2>9
<1>14. CASE x.n = 0 /\ reading' = Null /\ UNCHANGED <<told, field, opened, callback, exitCode>>
  <2>1. q \in ExPipes /\ Flow("Windows", r, told[r], q, written[r], child[r])
    <3> DEFINE t == told[r]
               p == pipe[r]
               w == written[r]
               ch == child[r]
    <3>1. /\ t \in Seq(X!Things) /\ p \in ExPipes /\ w \in Nat
          /\ ch \in {"running", "closed", "exited"}
          /\ Flow("Windows", r, t, p, w, ch)
          /\ p["out"] # <<>> /\ Head(p["out"]).n = 0
      BY <1>1, <1>3, <1>4, <1>10, <1>14
    <3> HIDE DEF t, p, w, ch
    <3>2. Rest(p, "out") \in ExPipes /\ Flow("Windows", r, t, Rest(p, "out"), w, ch)
      BY <3>1, ExFlowDrops
    <3> QED BY <3>2 DEF q, t, p, w, ch
  <2>2. /\ pipe' \in [X!Requests -> ExPipes] /\ pipe'[r] = q
        /\ \A s \in X!Requests \ {r} : pipe'[s] = pipe[s]
    BY <1>6, <2>1, ExPiped
  <2>3. Touches(r)
    BY <1>1, <1>14, <2>2 DEF Touches
  <2>4. X!OutputFlows'
    BY <1>1, <1>3, <1>14, <2>1, <2>2, <2>3, ExFlowsStep
  <2>5. X!OneCommand'
    BY <1>1, <1>2, <1>4, <1>14, ExServingGoesOn DEF ExitIsOfOne
  <2> QED BY <2>4, <2>5
<1> QED BY <1>7, <1>12, <1>13, <1>14

\* A command that has exited has done so for good.
Exited == {q \in X!Requests : child[q] = "exited"}

LEMMA ExExitedStays ==
    ASSUME X!TypeOK, X!Next
    PROVE  platform' = platform /\ Exited \subseteq Exited'
<1>1. CASE X!Serves
  <2>1. CASE X!ReplyPacket \/ X!DataAvailable \/ X!OnReadyRead \/ X!ReadSome
    BY <2>1 DEF X!ReplyPacket, X!DataAvailable, X!OnReadyRead, X!ReadSome, Exited
  <2>2. CASE X!ChildExited \/ X!OnFinished \/ X!PipeBroken
    <3>1. platform' = platform /\ \E a \in X!AfterCallback : X!AskedAfter(a)
      BY <2>2 DEF X!ChildExited, X!OnFinished, X!PipeBroken
    <3>2. Moved
      BY <3>1, ExAskedAfter
    <3> QED BY <3>1, <3>2 DEF Moved, Exited
  <2> QED BY <1>1, <2>1, <2>2 DEF X!Serves
<1>2. ASSUME NEW r \in X!Requests, X!Launch(r)
      PROVE  platform' = platform /\ Exited \subseteq Exited'
  <2>1. PICK o \in X!LaunchCommand(X!Object, r) : X!Asked(r, o)
    BY <1>2 DEF X!Launch
  <2>2. o \in ExOutcomes
    BY ExObject, ExLaunch DEF X!TypeOK, ExResult
  <2>3. X!Fresh(r) /\ platform' = platform
    BY <1>2 DEF X!Launch
  <2>4. child[r] = "none" /\ \A q \in X!Requests : q # r => child'[q] = child[q]
    BY <2>1, <2>2, <2>3, ExAsked
  <2> QED BY <2>3, <2>4 DEF Exited
<1>3. ASSUME NEW r \in X!Requests,
             X!WriteNothing(r) \/ X!CloseOutput(r) \/ X!ExitChild(r)
                \/ \E c \in {"out", "err"} : X!Write(r, c)
      PROVE  platform' = platform /\ Exited \subseteq Exited'
  BY <1>3 DEF X!WriteNothing, X!CloseOutput, X!ExitChild, X!Write, X!TypeOK, Exited
<1> QED BY <1>1, <1>2, <1>3 DEF X!Next

\* A step that tells the callback things of its own command, or on Amiga OS the end of
\* one that has exited.
OwnThing(r, x) == x.of = r \/ X!OfAnother(x)

OfAnotherThen(x) == platform' = "Amiga" /\ x.by = "end" /\ child'[x.of] = "exited"

LEMMA ExOwnTold ==
    ASSUME X!TypeOK, X!OutputFlows, \A q \in X!Requests : X!OwnThings(q),
           platform' = platform, Exited \subseteq Exited',
           NEW r \in X!Requests, callback = r,
           NEW things \in Seq(X!Things), X!Tell(things),
           \A i \in DOMAIN things : OwnThing(r, things[i])
    PROVE  \A q \in X!Requests : X!OwnThings(q)'
<1>1. told[r] \in Seq(X!Things) /\ told \in [X!Requests -> Seq(X!Things)]
  BY ExFlowOf
<1>2. told[r] \o things \in Seq(X!Things)
  BY <1>1, ConcatProperties
<1>3. /\ told'[r] = told[r] \o things
      /\ \A q \in X!Requests \ {r} : told'[q] = told[q]
  BY <1>2, ExTells
<1>4. \A x \in X!Things : X!OfAnother(x) => OfAnotherThen(x)
  BY DEF X!OfAnother, OfAnotherThen, Exited, X!Things
<1>5. ASSUME NEW q \in X!Requests, q # r
      PROVE  X!OwnThings(q)'
  <2>1. \A i \in DOMAIN told[q] : told[q][i] \in X!Things
    BY <1>1
  <2>2. told'[q] = told[q]
    BY <1>3, <1>5
  <2>3. \A i \in DOMAIN told[q] : told[q][i].of = q \/ OfAnotherThen(told[q][i])
    BY <1>4, <2>1 DEF X!OwnThings
  <2> QED BY <2>2, <2>3 DEF X!OwnThings, X!OfAnother, OfAnotherThen
<1>6. X!OwnThings(r)'
  <2> DEFINE t == told[r]
             n == Len(t)
             u == t \o things
  <2>1. /\ DOMAIN u = 1 .. n + Len(things) /\ n \in Nat /\ Len(things) \in Nat
        /\ \A i \in 1 .. n + Len(things) : u[i] = IF i <= n THEN t[i] ELSE things[i - n]
        /\ DOMAIN t = 1 .. n /\ DOMAIN things = 1 .. Len(things)
    BY <1>1, ConcatProperties
  <2>2. \A i \in DOMAIN t : t[i] \in X!Things /\ OwnThing(r, t[i])
    BY <1>1 DEF X!OwnThings, OwnThing
  <2>3. \A i \in DOMAIN things : things[i] \in X!Things
    OBVIOUS
  <2> HIDE DEF t, n, u
  <2>4. \A i \in DOMAIN u : u[i] \in X!Things /\ OwnThing(r, u[i])
    <3> TAKE i \in DOMAIN u
    <3>1. CASE i <= n
      BY <2>1, <2>2, <3>1
    <3>2. CASE ~(i <= n)
      <4>1. i - n \in DOMAIN things /\ u[i] = things[i - n]
        BY <2>1, <3>2
      <4> QED BY <2>3, <4>1
    <3> QED BY <3>1, <3>2
  <2>5. told'[r] = u
    BY <1>3 DEF u, t
  <2>6. \A i \in DOMAIN u : u[i].of = r \/ OfAnotherThen(u[i])
    BY <1>4, <2>4 DEF OwnThing
  <2> QED BY <2>5, <2>6 DEF X!OwnThings, X!OfAnother, OfAnotherThen
<1> QED BY <1>5, <1>6

LEMMA ExOwnStays ==
    ASSUME X!TypeOK, X!OutputFlows, \A q \in X!Requests : X!OwnThings(q),
           platform' = platform, Exited \subseteq Exited', told' = told
    PROVE  \A q \in X!Requests : X!OwnThings(q)'
<1>1. \A x \in X!Things : X!OfAnother(x) => X!OfAnother(x)'
  BY DEF X!OfAnother, Exited, X!Things
<1> SUFFICES ASSUME NEW q \in X!Requests
             PROVE  X!OwnThings(q)'
  OBVIOUS
<1>2. \A i \in DOMAIN told[q] : told[q][i] \in X!Things
  BY ExFlowOf
<1> QED BY <1>1, <1>2 DEF X!OwnThings

\* One thing that is told.
LEMMA ExOwnOne ==
    ASSUME X!TypeOK, X!OutputFlows, \A q \in X!Requests : X!OwnThings(q),
           platform' = platform, Exited \subseteq Exited',
           NEW r \in X!Requests, callback = r,
           NEW x \in X!Things, X!Tell(<<x>>), OwnThing(r, x)
    PROVE  \A q \in X!Requests : X!OwnThings(q)'
<1>1. <<x>> \in Seq(X!Things) /\ \A i \in DOMAIN <<x>> : OwnThing(r, <<x>>[i])
  OBVIOUS
<1> QED BY <1>1, ExOwnTold

\* What is in the pipes of a command is of that command.
LEMMA ExPipedIsOwn ==
    ASSUME X!TypeOK, X!OutputFlows, NEW r \in X!Requests, NEW c \in ExEnds
    PROVE  /\ pipe[r][c] \in Seq(X!Things)
           /\ \A i \in DOMAIN pipe[r][c] : OwnThing(r, pipe[r][c][i])
           /\ pipe[r][c] # <<>> =>
                 Head(pipe[r][c]) \in X!Things /\ OwnThing(r, Head(pipe[r][c]))
<1>1. pipe[r] \in ExPipes /\ X!InOrder(r, told[r], pipe[r], written[r])
  BY ExFlowOf DEF Flow
<1>2. pipe[r][c] \in Seq(X!Things)
  BY <1>1 DEF ExPipes
<1>3. \A i \in DOMAIN pipe[r][c] : OwnThing(r, pipe[r][c][i])
  BY <1>1 DEF X!InOrder, OwnThing, ExEnds
<1>4. pipe[r][c] # <<>> => /\ 1 \in DOMAIN pipe[r][c] /\ Head(pipe[r][c]) = pipe[r][c][1]
                           /\ Head(pipe[r][c]) \in X!Things
  BY <1>2, HeadTailProperties
<1> QED BY <1>2, <1>3, <1>4

LEMMA ExOwnNext ==
    ASSUME X!TypeOK, X!OneCommand, X!OutputFlows, \A q \in X!Requests : X!OwnThings(q), X!Next
    PROVE  \A q \in X!Requests : X!OwnThings(q)'
<1> DEFINE Goal == \A q \in X!Requests : X!OwnThings(q)'
<1>1. platform' = platform /\ Exited \subseteq Exited'
  BY ExExitedStays
<1>2. told' = told => Goal
  BY <1>1, ExOwnStays
<1>3. \A r \in X!Requests, x \in X!Things :
         callback = r /\ X!Tell(<<x>>) /\ OwnThing(r, x) => Goal
  BY <1>1, ExOwnOne
<1>4. \A r \in X!Requests, things \in Seq(X!Things) :
         /\ callback = r /\ X!Tell(things) /\ \A i \in DOMAIN things : OwnThing(r, things[i])
         => Goal
  BY <1>1, ExOwnTold
<1>5. "out" \in ExEnds /\ "err" \in ExEnds
  BY DEF ExEnds
<1> HIDE DEF Goal
<1>6. CASE X!DataAvailable
  <2>1. PICK r \in X!Requests : X!Serving(r) /\ callback = r
    BY <1>6, ExServing DEF X!DataAvailable
  <2>2. reading = r
    BY <1>6, <2>1 DEF X!Serving, X!DataAvailable
  <2>3. told' = told \/ (pipe[r]["out"] # <<>> /\ X!Tell(<<Head(pipe[r]["out"])>>))
    BY <1>6, <2>2 DEF X!DataAvailable
  <2> QED BY <1>2, <1>3, <1>5, <2>1, <2>3, ExPipedIsOwn DEF Goal
<1>7. CASE X!ChildExited
  <2>1. PICK r \in X!Requests : X!Serving(r) /\ callback = r
    BY <1>7, ExServing DEF X!ChildExited
  <2>2. platform = "Amiga" /\ X!Tell(<<X!Exit(exitCode)>>)
    BY <1>7 DEF X!ChildExited
  <2>3. exitCode \in X!Requests /\ child[exitCode] = "exited"
    BY <1>7, <2>1 DEF X!ChildExited, X!Serving
  <2>4. X!Exit(exitCode) \in X!Things /\ OwnThing(r, X!Exit(exitCode))
    <3>1. X!Exit(exitCode) \in X!Things
      BY <2>3, ExExit
    <3>2. X!OfAnother(X!Exit(exitCode))
      BY <2>2, <2>3 DEF X!OfAnother, X!Exit
    <3> QED BY <3>1, <3>2 DEF OwnThing
  <2> QED BY <1>3, <2>1, <2>2, <2>4 DEF Goal
<1>8. CASE X!OnFinished \/ X!PipeBroken
  <2>1. reading # Null /\ X!Tell(<<X!Exit(reading)>>)
    BY <1>8 DEF X!OnFinished, X!PipeBroken
  <2>2. PICK r \in X!Requests : reading = r /\ callback = r
    BY <2>1, ExServing
  <2>3. X!Exit(r) \in X!Things /\ OwnThing(r, X!Exit(r))
    BY ExExit DEF OwnThing
  <2> QED BY <1>3, <2>1, <2>2, <2>3 DEF Goal
<1>9. CASE X!OnReadyRead
  <2>1. reading # Null /\ X!Tell(pipe[reading]["out"] \o pipe[reading]["err"])
    BY <1>9 DEF X!OnReadyRead
  <2>2. PICK r \in X!Requests : reading = r /\ callback = r
    BY <2>1, ExServing
  <2> DEFINE a == pipe[r]["out"]
             b == pipe[r]["err"]
  <2>3. /\ a \in Seq(X!Things) /\ \A i \in DOMAIN a : OwnThing(r, a[i])
        /\ b \in Seq(X!Things) /\ \A i \in DOMAIN b : OwnThing(r, b[i])
    BY <1>5, ExPipedIsOwn
  <2>4. X!Tell(a \o b)
    BY <2>1, <2>2
  <2> HIDE DEF a, b
  <2>5. a \o b \in Seq(X!Things) /\ \A i \in DOMAIN (a \o b) : OwnThing(r, (a \o b)[i])
    <3>1. /\ a \o b \in Seq(X!Things) /\ DOMAIN (a \o b) = 1 .. Len(a) + Len(b)
          /\ \A i \in 1 .. Len(a) + Len(b) :
                (a \o b)[i] = IF i <= Len(a) THEN a[i] ELSE b[i - Len(a)]
          /\ DOMAIN a = 1 .. Len(a) /\ DOMAIN b = 1 .. Len(b) /\ Len(a) \in Nat /\ Len(b) \in Nat
      BY <2>3, ConcatProperties
    <3>2. ASSUME NEW i \in DOMAIN (a \o b) PROVE OwnThing(r, (a \o b)[i])
      <4>1. CASE i <= Len(a)
        BY <2>3, <3>1, <4>1
      <4>2. CASE ~(i <= Len(a))
        <5>1. i - Len(a) \in DOMAIN b /\ (a \o b)[i] = b[i - Len(a)]
          BY <3>1, <4>2
        <5> QED BY <2>3, <5>1
      <4> QED BY <4>1, <4>2
    <3> QED BY <3>1, <3>2
  <2> QED BY <1>4, <2>2, <2>4, <2>5 DEF Goal
<1>10. CASE X!ReadSome
  <2>1. reading # Null /\ pipe[reading]["out"] # <<>>
    BY <1>10 DEF X!ReadSome
  <2>2. PICK r \in X!Requests : reading = r /\ callback = r
    BY <2>1, ExServing
  <2> DEFINE x == Head(pipe[r]["out"])
             y == X!Broken(r)
  <2>3. told' = told \/ X!Tell(<<x>>) \/ X!Tell(<<x, y>>)
    BY <1>10, <2>2 DEF X!ReadSome
  <2>4. x \in X!Things /\ OwnThing(r, x)
    BY <1>5, <2>1, <2>2, ExPipedIsOwn
  <2>5. y \in X!Things /\ OwnThing(r, y)
    BY ExExit DEF OwnThing
  <2> HIDE DEF x, y
  <2>6. <<x, y>> \in Seq(X!Things) /\ \A i \in DOMAIN <<x, y>> : OwnThing(r, <<x, y>>[i])
    BY <2>4, <2>5
  <2> QED BY <1>2, <1>3, <1>4, <2>2, <2>3, <2>4, <2>6 DEF Goal
<1>11. CASE \/ X!ReplyPacket
            \/ \E r \in X!Requests :
                  \/ X!Launch(r) \/ X!WriteNothing(r) \/ X!CloseOutput(r) \/ X!ExitChild(r)
                  \/ \E c \in {"out", "err"} : X!Write(r, c)
  <2>1. told' = told
    BY <1>11 DEF X!ReplyPacket, X!Launch, X!WriteNothing, X!CloseOutput, X!ExitChild, X!Write
  <2> QED BY <1>2, <2>1 DEF Goal
<1> QED BY <1>6, <1>7, <1>8, <1>9, <1>10, <1>11 DEF X!Next, X!Serves, Goal

--------------------------------------------------------------------------------
(***************************************************************************)
(* Executer: the inductive invariant.                                      *)
(***************************************************************************)
LEMMA ExFollowsInit ==
    ASSUME X!Init
    PROVE  X!Follows
<1>1. /\ opened = {} /\ callback = Null /\ exitCode = Null /\ reading = Null /\ signals = {}
      /\ child = [r \in X!Requests |-> "none"]
      /\ pipe = [r \in X!Requests |-> [c \in {"out", "err"} |-> <<>>]]
      /\ told = [r \in X!Requests |-> <<>>]
      /\ written = [r \in X!Requests |-> 0] /\ hushed = {} /\ accepted = {}
      /\ overlapped = FALSE /\ platform \in Platforms
  BY DEF X!Init
<1>2. PICK init \in {Null, Garbage} : /\ platform # "Windows" => init = Null
                                      /\ field = [f \in X!AllFields |-> init]
  BY DEF X!Init
<1>3. 0 \in 0 .. MaxPieces
  BY CommandsAssumption
<1>4. X!TypeOK
  BY <1>1, <1>2, <1>3 DEF X!TypeOK
<1>5. X!OneCommand
  <2>1. platform # "Windows" => \A f \in X!Fields[platform] : field[f] = Null
    BY <1>1, <1>2, ExPlatforms
  <2>2. X!HasNothing(X!Object)
    BY <1>1, <1>4, <2>1, ExObject DEF X!HasNothing
  <2> QED BY <1>1, <2>2 DEF X!OneCommand
<1>6. X!OutputFlows
  <2>1. ASSUME NEW r \in X!Requests
        PROVE  Flow(platform, r, told[r], pipe[r], written[r], child[r])
    <3>1. told[r] = <<>> /\ written[r] = 0 /\ \A c \in ExEnds : pipe[r][c] = <<>>
      BY <1>1 DEF ExEnds
    <3>2. DOMAIN told[r] = {} /\ \A c \in ExEnds : DOMAIN pipe[r][c] = {}
      BY <3>1
    <3>3. X!InOrder(r, told[r], pipe[r], written[r])
      BY <3>1, <3>2 DEF X!InOrder, ExEnds
    <3> QED BY <3>1, <3>2, <3>3 DEF Flow, EndsIn
  <2>2. told \in [X!Requests -> Seq(X!Things)] /\ pipe \in [X!Requests -> ExPipes]
    <3>1. <<>> \in Seq(X!Things)
      OBVIOUS
    <3> QED BY <1>1, <3>1 DEF ExPipes, ExEnds
  <2> QED BY <2>1, <2>2, ExFlows
<1>7. \A r \in X!Requests : X!OwnThings(r)
  BY <1>1 DEF X!OwnThings
<1> QED BY <1>4, <1>5, <1>6, <1>7 DEF X!Follows

\* Once a client has asked an object that was in use, that stays so.
LEMMA ExDisturbed ==
    ASSUME X!TypeOK, X!Next, X!Disturbed
    PROVE  X!Disturbed'
<1>1. platform # "Amiga" /\ overlapped
  BY DEF X!Disturbed
<1>2. CASE X!Serves
  <2>1. CASE X!ReplyPacket \/ X!DataAvailable \/ X!OnReadyRead \/ X!ReadSome
    BY <1>1, <2>1 DEF X!ReplyPacket, X!DataAvailable, X!OnReadyRead, X!ReadSome, X!asked, X!Disturbed
  <2>2. CASE X!ChildExited \/ X!OnFinished \/ X!PipeBroken
    <3>1. platform' = platform /\ \E a \in X!AfterCallback : X!AskedAfter(a)
      BY <2>2 DEF X!ChildExited, X!OnFinished, X!PipeBroken
    <3> QED BY <1>1, <3>1, ExAskedAfter DEF X!Disturbed
  <2> QED BY <1>2, <2>1, <2>2 DEF X!Serves
<1>3. ASSUME NEW r \in X!Requests, X!Launch(r)
      PROVE  X!Disturbed'
  BY <1>1, <1>3 DEF X!Launch, X!Disturbed
<1>4. ASSUME NEW r \in X!Requests,
             X!WriteNothing(r) \/ X!CloseOutput(r) \/ X!ExitChild(r)
                \/ \E c \in {"out", "err"} : X!Write(r, c)
      PROVE  X!Disturbed'
  BY <1>1, <1>4 DEF X!WriteNothing, X!CloseOutput, X!ExitChild, X!Write, X!asked, X!Disturbed
<1> QED BY <1>2, <1>3, <1>4 DEF X!Next

LEMMA ExFollowsNext ==
    ASSUME X!Follows, X!Next
    PROVE  X!Follows'
<1>1. X!TypeOK /\ X!TypeOK'
  BY ExType DEF X!Follows
<1>2. ASSUME ~X!Disturbed'
      PROVE  X!OneCommand' /\ X!OutputFlows' /\ \A r \in X!Requests : X!OwnThings(r)'
  <2>1. X!OneCommand /\ X!OutputFlows /\ \A r \in X!Requests : X!OwnThings(r)
    BY <1>1, <1>2, ExDisturbed DEF X!Follows
  <2>2. ASSUME X!ReplyPacket
        PROVE  X!OneCommand' /\ X!OutputFlows'
    BY <1>1, <2>1, <2>2, ExFollowsReply
  <2>3. ASSUME X!DataAvailable
        PROVE  X!OneCommand' /\ X!OutputFlows'
    BY <1>1, <2>1, <2>3, ExFollowsData
  <2>4. ASSUME X!ChildExited
        PROVE  X!OneCommand' /\ X!OutputFlows'
    BY <1>1, <2>1, <2>4, ExFollowsChildExited
  <2>5. ASSUME X!OnReadyRead
        PROVE  X!OneCommand' /\ X!OutputFlows'
    BY <1>1, <2>1, <2>5, ExFollowsReady
  <2>6. ASSUME X!OnFinished
        PROVE  X!OneCommand' /\ X!OutputFlows'
    BY <1>1, <1>2, <2>1, <2>6, ExFollowsFinished
  <2>7. ASSUME X!ReadSome
        PROVE  X!OneCommand' /\ X!OutputFlows'
    BY <1>1, <2>1, <2>7, ExFollowsSome
  <2>8. ASSUME X!PipeBroken
        PROVE  X!OneCommand' /\ X!OutputFlows'
    BY <1>1, <1>2, <2>1, <2>8, ExFollowsBroken
  <2>9. ASSUME NEW r \in X!Requests, X!Launch(r)
        PROVE  X!OneCommand' /\ X!OutputFlows'
    BY <1>1, <1>2, <2>1, <2>9, ExFollowsLaunch
  <2>10. ASSUME NEW r \in X!Requests,
                X!WriteNothing(r) \/ X!CloseOutput(r) \/ X!ExitChild(r)
                   \/ \E c \in {"out", "err"} : X!Write(r, c)
         PROVE  X!OneCommand' /\ X!OutputFlows'
    BY <1>1, <2>1, <2>10, ExFollowsRunning
  <2>11. X!OneCommand' /\ X!OutputFlows'
    BY <2>2, <2>3, <2>4, <2>5, <2>6, <2>7, <2>8, <2>9, <2>10 DEF X!Next, X!Serves
  <2>12. \A r \in X!Requests : X!OwnThings(r)'
    BY <1>1, <2>1, ExOwnNext
  <2> QED BY <2>11, <2>12
<1> QED BY <1>1, <1>2 DEF X!Follows

LEMMA ExFollowsStutter ==
    ASSUME X!Follows, UNCHANGED ofCommands
    PROVE  X!Follows'
<1>1. UNCHANGED <<platform, field, opened, callback, exitCode, reading, signals, child, pipe, written,
                  hushed, told, accepted, overlapped>>
  BY DEF ofCommands
<1>2. X!TypeOK /\ X!TypeOK'
  BY <1>1 DEF X!Follows, X!TypeOK
<1>3. X!Disturbed' = X!Disturbed
  BY <1>1 DEF X!Disturbed
<1>4. ASSUME X!OneCommand, X!OutputFlows
      PROVE  X!OneCommand' /\ X!OutputFlows'
  <2>1. X!OutputFlows'
    BY <1>1, <1>2, <1>4, ExFlowsStay
  <2>2. CASE X!HasNothing(X!Object) /\ reading = Null /\ signals = {}
    BY <1>1, <2>1, <2>2 DEF X!OneCommand, X!HasNothing, X!Object
  <2>3. ASSUME NEW r \in X!Requests, X!Serving(r)
        PROVE  X!OneCommand'
    BY <1>1, <1>2, <1>4, <2>3, ExFlowServing, ExServingGoesOn DEF X!Serving, ExitIsOfOne
  <2> QED BY <1>4, <2>1, <2>2, <2>3 DEF X!OneCommand
<1>5. (\A r \in X!Requests : X!OwnThings(r)) => \A r \in X!Requests : X!OwnThings(r)'
  BY <1>1 DEF X!OwnThings, X!OfAnother
<1> QED BY <1>2, <1>3, <1>4, <1>5 DEF X!Follows

LEMMA ExApart ==
    ASSUME X!Follows
    PROVE  X!TypeOK /\ X!StreamsToItsClient /\ X!NothingLeaks
<1>1. X!TypeOK
  BY DEF X!Follows
<1>2. X!StreamsToItsClient
  <2> SUFFICES ASSUME X!OutputFlows, NEW r \in X!Requests, X!OwnThings(r)
      PROVE  /\ X!OwnThings(r)
             /\ \A i, j \in X!Pieces(r) :
                   i < j /\ told[r][i].by = told[r][j].by => told[r][i].n < told[r][j].n
             /\ \A i \in X!Pieces(r), m \in 1 .. MaxPieces :
                   m < told[r][i].n =>
                      \/ \E j \in X!Pieces(r) : told[r][j].n = m
                      \/ \E c \in X!Channels \ {told[r][i].by} :
                            \E j \in DOMAIN pipe[r][c] : pipe[r][c][j].n = m
             /\ X!Ends(r) \subseteq {Len(told[r])}
             /\ platform # "Amiga" /\ X!Exit(r) \in {told[r][i] : i \in DOMAIN told[r]} =>
                   X!Cardinality(X!Pieces(r)) = written[r]
    BY DEF X!Follows, X!StreamsToItsClient
  <2>1. /\ X!InOrder(r, told[r], pipe[r], written[r])
        /\ \A c \in {"out", "err"} : c \notin X!Channels => pipe[r][c] = <<>>
        /\ X!Ends(r) \subseteq {Len(told[r])}
        /\ platform # "Amiga" /\ X!Exit(r) \in {told[r][i] : i \in DOMAIN told[r]} =>
              X!Cardinality(X!Pieces(r)) = written[r]
    BY DEF X!OutputFlows
  <2>2. \A i, j \in X!Pieces(r) :
           i < j /\ told[r][i].by = told[r][j].by => told[r][i].n < told[r][j].n
    BY <2>1 DEF X!InOrder, X!Pieces
  <2>3. ASSUME NEW i \in X!Pieces(r), NEW m \in 1 .. MaxPieces, m < told[r][i].n
        PROVE  \/ \E j \in X!Pieces(r) : told[r][j].n = m
               \/ \E c \in X!Channels \ {told[r][i].by} :
                     \E j \in DOMAIN pipe[r][c] : pipe[r][c][j].n = m
    <3>1. i \in DOMAIN told[r] /\ told[r][i].n > 0
      BY DEF X!Pieces
    <3>2. told[r][i].n \in 0 .. written[r] /\ written[r] \in Nat
      BY <1>1, <2>1, <3>1, CommandsAssumption DEF X!InOrder, X!TypeOK
    <3>3. m \in 1 .. written[r]
      BY <2>3, <3>2, CommandsAssumption
    <3>4. CASE \E j \in DOMAIN told[r] : told[r][j].n = m
      BY <3>4 DEF X!Pieces
    <3>5. ASSUME NEW c \in {"out", "err"}, NEW j \in DOMAIN pipe[r][c], pipe[r][c][j].n = m
          PROVE  \E d \in X!Channels \ {told[r][i].by} :
                     \E k \in DOMAIN pipe[r][d] : pipe[r][d][k].n = m
      <4>1. c \in X!Channels
        BY <2>1, <3>5
      <4>2. told[r][i].by # c
        <5>1. told[r][i].by = c => told[r][i].n < pipe[r][c][j].n
          BY <2>1, <3>1, <3>5 DEF X!InOrder
        <5> QED BY <2>3, <3>2, <3>5, <5>1
      <4> QED BY <3>5, <4>1, <4>2
    <3> QED BY <2>1, <3>3, <3>4, <3>5 DEF X!InOrder
  <2> QED BY <2>1, <2>2, <2>3 DEF X!InOrder
<1>3. X!NothingLeaks
  <2> SUFFICES ASSUME X!OneCommand
      PROVE  /\ \A u \in opened : field[u[1]] = u[2]
             /\ ~X!IsRunning(X!Object) => opened = {}
    BY DEF X!Follows, X!NothingLeaks
  <2>1. CASE X!HasNothing(X!Object)
    BY <1>1, <2>1, ExObject DEF X!HasNothing
  <2>2. ASSUME NEW r \in X!Requests, X!Serving(r)
        PROVE  /\ \A u \in opened : field[u[1]] = u[2]
               /\ ~X!IsRunning(X!Object) => opened = {}
    <3>1. X!IsRunning(X!Object)
      BY <1>1, <2>2, ExObject, ExRunning DEF X!Serving, X!TypeOK
    <3>2. \E kept \in SUBSET X!Kept[platform] :
             opened = kept \X {r} /\ \A f \in kept : field[f] = r
      BY <1>1, <2>2, ExObject, ExPlatforms DEF X!Serving, X!IsOf, X!TypeOK
    <3> QED BY <3>1, <3>2
  <2> QED BY <2>1, <2>2 DEF X!OneCommand
<1> QED BY <1>1, <1>2, <1>3

--------------------------------------------------------------------------------
(***************************************************************************)
(* MainLoop: vectors.                                                      *)
(***************************************************************************)
LEMMA LoVector ==
    ASSUME NEW S, NEW v, L!IsVector(v, S)
    PROVE  /\ v.slots \in Seq(S) /\ v.len \in Nat /\ Len(v.slots) \in Nat
           /\ v.len <= Len(v.slots)
           /\ DOMAIN v.slots = 1 .. Len(v.slots)
           /\ \A i \in 1 .. Len(v.slots) : v.slots[i] \in S
           /\ L!Elements(v) \subseteq S
<1>1. v.slots \in Seq(S) /\ v.len \in Nat /\ v.len <= Len(v.slots)
  BY DEF L!IsVector
<1> DEFINE q == v.slots
<1>2. q \in Seq(S)
  BY <1>1
<1> HIDE DEF q
<1>3. Len(q) \in Nat /\ DOMAIN q = 1 .. Len(q) /\ \A i \in 1 .. Len(q) : q[i] \in S
  BY <1>2, ElementOfSeq, LenProperties
<1>4. Len(v.slots) \in Nat /\ DOMAIN v.slots = 1 .. Len(v.slots)
      /\ \A i \in 1 .. Len(v.slots) : v.slots[i] \in S
  BY <1>3 DEF q
<1>5. \A i \in 1 .. v.len : v.slots[i] \in S
  BY <1>1, <1>4
<1> QED BY <1>1, <1>4, <1>5 DEF L!Elements

LEMMA LoPush ==
    ASSUME NEW S, NEW v, L!IsVector(v, S), NEW x \in S, x \notin L!Elements(v)
    PROVE  LET u == L!PushBack(v, x)
           IN  /\ L!IsVector(u, S) /\ u.len = v.len + 1
               /\ L!Elements(u) = L!Elements(v) \cup {x}
               /\ Len(u.slots) >= Len(v.slots)
<1> DEFINE u == L!PushBack(v, x)
           n == v.len + 1
<1>1. /\ v.slots \in Seq(S) /\ v.len \in Nat /\ Len(v.slots) \in Nat
      /\ v.len <= Len(v.slots) /\ DOMAIN v.slots = 1 .. Len(v.slots)
  BY LoVector
<1>2. u = [slots |-> u.slots, len |-> n] /\ u.len = n
  BY DEF L!PushBack
<1>3. /\ u.slots \in Seq(S) /\ Len(u.slots) \in Nat /\ n <= Len(u.slots)
      /\ Len(u.slots) >= Len(v.slots)
      /\ \A i \in 1 .. v.len : u.slots[i] = v.slots[i]
      /\ u.slots[n] = x
  <2>1. CASE v.len < Len(v.slots)
    <3>1. u.slots = [v.slots EXCEPT ![n] = x]
      BY <2>1 DEF L!PushBack
    <3>2. n \in 1 .. Len(v.slots)
      BY <1>1, <2>1
    <3>3. /\ [v.slots EXCEPT ![n] = x] \in Seq(S)
          /\ Len([v.slots EXCEPT ![n] = x]) = Len(v.slots)
          /\ \A j \in 1 .. Len(v.slots) :
                [v.slots EXCEPT ![n] = x][j] = IF j = n THEN x ELSE v.slots[j]
      BY <1>1, <3>2, ExceptSeq
    <3> QED BY <1>1, <3>1, <3>2, <3>3
  <2>2. CASE ~(v.len < Len(v.slots))
    <3>1. u.slots = Append(v.slots, x) /\ v.len = Len(v.slots)
      BY <1>1, <2>2 DEF L!PushBack
    <3> DEFINE q == v.slots
    <3>2. q \in Seq(S) /\ Len(q) \in Nat
      BY <1>1
    <3> HIDE DEF q
    <3>3. /\ Append(q, x) \in Seq(S) /\ Len(Append(q, x)) = Len(q) + 1
          /\ \A i \in 1 .. Len(q) : Append(q, x)[i] = q[i]
          /\ Append(q, x)[Len(q) + 1] = x
      BY <3>2, AppendProperties
    <3> QED BY <1>1, <3>1, <3>3 DEF q
  <2> QED BY <2>1, <2>2
<1>4. \A i \in 1 .. n : i \in 1 .. v.len \/ i = n
  BY <1>1
<1>5. \A i \in 1 .. v.len : v.slots[i] # x /\ i \in 1 .. n
  BY <1>1 DEF L!Elements
<1>6. \A i, j \in 1 .. v.len : v.slots[i] = v.slots[j] => i = j
  BY DEF L!IsVector
<1>7. L!Elements(u) = L!Elements(v) \cup {x}
  <2>1. L!Elements(u) = {u.slots[i] : i \in 1 .. n}
    BY <1>2 DEF L!Elements
  <2>2. n \in 1 .. n
    BY <1>1
  <2> HIDE DEF u
  <2> QED BY <1>3, <1>4, <1>5, <2>1, <2>2 DEF L!Elements
<1>8. L!IsVector(u, S)
  <2>1. u \in [slots : Seq(S), len : Nat]
    BY <1>1, <1>2, <1>3
  <2>2. \A i, j \in 1 .. n : u.slots[i] = u.slots[j] => i = j
    BY <1>3, <1>4, <1>5, <1>6
  <2> QED BY <1>2, <1>3, <2>1, <2>2 DEF L!IsVector
<1> QED BY <1>2, <1>3, <1>7, <1>8

\* The slots but the last of the elements may change, and the length stays.
LEMMA LoErase ==
    ASSUME NEW S, NEW v, L!IsVector(v, S), NEW x
    PROVE  LET u == L!Erase(v, x)
           IN  /\ L!IsVector(u, S) /\ L!Elements(u) = L!Elements(v) \ {x}
               /\ x \in L!Elements(v) => u.len = v.len - 1
               /\ x \notin L!Elements(v) => u = v
               /\ Len(u.slots) = Len(v.slots)
               /\ \A i \in 1 .. Len(v.slots) : i >= v.len => u.slots[i] = v.slots[i]
<1>1. /\ v.slots \in Seq(S) /\ v.len \in Nat /\ Len(v.slots) \in Nat
      /\ v.len <= Len(v.slots) /\ DOMAIN v.slots = 1 .. Len(v.slots)
      /\ \A i \in 1 .. Len(v.slots) : v.slots[i] \in S
  BY LoVector
<1>2. CASE x \notin L!Elements(v)
  BY <1>2 DEF L!Erase
<1>3. ASSUME x \in L!Elements(v)
      PROVE  LET u == L!Erase(v, x)
             IN  /\ L!IsVector(u, S) /\ L!Elements(u) = L!Elements(v) \ {x}
                 /\ u.len = v.len - 1 /\ Len(u.slots) = Len(v.slots)
                 /\ \A i \in 1 .. Len(v.slots) : i >= v.len => u.slots[i] = v.slots[i]
  <2> DEFINE k == CHOOSE j \in 1 .. v.len : v.slots[j] = x
             u == L!Erase(v, x)
             q == [j \in DOMAIN v.slots |->
                     IF j \in k .. v.len - 1 THEN v.slots[j + 1] ELSE v.slots[j]]
  <2>1. k \in 1 .. v.len /\ v.slots[k] = x
    BY <1>3 DEF L!Elements
  <2>2. u = [slots |-> q, len |-> v.len - 1]
    BY <1>3 DEF L!Erase
  <2> HIDE DEF k, u
  <2>3. \A j \in 1 .. Len(v.slots) : q[j] = IF j \in k .. v.len - 1 THEN v.slots[j + 1] ELSE v.slots[j]
    BY <1>1
  <2>4. \A j \in 1 .. Len(v.slots) : q[j] \in S
    BY <1>1, <2>1, <2>3
  <2>5. q \in [1 .. Len(v.slots) -> S]
    BY <1>1, <2>4
  <2> HIDE DEF q
  <2>6. q \in Seq(S) /\ Len(q) = Len(v.slots)
    BY <1>1, <2>5
  <2>7. \A i, j \in 1 .. v.len : v.slots[i] = v.slots[j] => i = j
    BY DEF L!IsVector
  <2> DEFINE from(i) == IF i < k THEN i ELSE i + 1
  <2>8. \A i \in 1 .. v.len - 1 : from(i) \in 1 .. v.len /\ from(i) # k /\ q[i] = v.slots[from(i)]
    BY <1>1, <2>1, <2>3
  <2>9. \A i, j \in 1 .. v.len - 1 : from(i) = from(j) => i = j
    BY <1>1, <2>1
  <2>10. \A j \in 1 .. v.len : j # k => \E i \in 1 .. v.len - 1 : from(i) = j
    <3> TAKE j \in 1 .. v.len
    <3>1. CASE j < k
      BY <1>1, <2>1, <3>1
    <3>2. CASE j > k
      <4>1. j - 1 \in 1 .. v.len - 1 /\ from(j - 1) = j
        BY <1>1, <2>1, <3>2
      <4> QED BY <4>1
    <3> QED BY <1>1, <2>1, <3>1, <3>2
  <2> HIDE DEF from
  <2>11. L!Elements(u) = L!Elements(v) \ {x}
    <3>1. L!Elements(u) = {q[i] : i \in 1 .. v.len - 1}
      BY <2>2 DEF L!Elements
    <3>2. \A i \in 1 .. v.len - 1 : q[i] \in L!Elements(v) \ {x}
      BY <2>1, <2>7, <2>8 DEF L!Elements
    <3>3. \A y \in L!Elements(v) \ {x} : \E i \in 1 .. v.len - 1 : q[i] = y
      BY <2>1, <2>8, <2>10 DEF L!Elements
    <3> QED BY <3>1, <3>2, <3>3
  <2>12. L!IsVector(u, S)
    <3>1. u \in [slots : Seq(S), len : Nat] /\ v.len - 1 <= Len(q)
      BY <1>1, <2>1, <2>2, <2>6
    <3>2. \A i, j \in 1 .. v.len - 1 : q[i] = q[j] => i = j
      BY <2>7, <2>8, <2>9
    <3> QED BY <2>2, <3>1, <3>2 DEF L!IsVector
  <2>13. \A i \in 1 .. Len(v.slots) : i >= v.len => q[i] = v.slots[i]
    BY <1>1, <2>1, <2>3
  <2>14. u.slots = q /\ u.len = v.len - 1
    BY <2>2
  <2>15. /\ Len(u.slots) = Len(v.slots)
         /\ \A i \in 1 .. Len(v.slots) : i >= v.len => u.slots[i] = v.slots[i]
    BY <2>6, <2>13, <2>14
  <2> QED BY <2>11, <2>12, <2>14, <2>15 DEF u
<1> QED BY <1>2, <1>3

\* Two elements need two slots, three need three.
LEMMA LoFew ==
    ASSUME NEW S, NEW v, L!IsVector(v, S),
           NEW x \in L!Elements(v), NEW y \in L!Elements(v), x # y
    PROVE  /\ v.len >= 2
           /\ \A z \in L!Elements(v) : z # x /\ z # y => v.len >= 3
<1>1. v.len \in Nat
  BY LoVector
<1>2. PICK i \in 1 .. v.len : v.slots[i] = x
  BY DEF L!Elements
<1>3. PICK j \in 1 .. v.len : v.slots[j] = y
  BY DEF L!Elements
<1>4. i # j
  BY <1>2, <1>3
<1>5. ASSUME NEW z \in L!Elements(v), z # x, z # y
      PROVE  v.len >= 3
  <2>1. PICK k \in 1 .. v.len : v.slots[k] = z
    BY DEF L!Elements
  <2>2. k # i /\ k # j
    BY <1>2, <1>3, <1>5, <2>1
  <2> QED BY <1>1, <1>4, <2>2
<1> QED BY <1>1, <1>4, <1>5

LEMMA LoSetToSeq ==
    ASSUME NEW S, IsFiniteSet(S)
    PROVE  /\ L!SetToSeq(S) \in Seq(S) /\ Len(L!SetToSeq(S)) = Cardinality(S)
           /\ Cardinality(S) \in Nat
           /\ \A i, j \in 1 .. Cardinality(S) : L!SetToSeq(S)[i] = L!SetToSeq(S)[j] => i = j
<1> DEFINE n == Cardinality(S)
<1>1. n \in Nat /\ ExistsBijection(1 .. n, S)
  BY FS_CardinalityType
<1>2. L!Cardinality(S) = n
  BY DEF L!Cardinality, Cardinality
<1> HIDE DEF n
<1>3. PICK f \in [1 .. n -> S] : \A i, j \in 1 .. n : f[i] = f[j] => i = j
  BY <1>1 DEF ExistsBijection, Bijection, Injection, IsInjective
<1>4. L!IsInjective(f)
  BY <1>3 DEF L!IsInjective
<1>5. L!SetToSeq(S) \in [1 .. n -> S] /\ L!IsInjective(L!SetToSeq(S))
  BY <1>2, <1>3, <1>4 DEF L!SetToSeq
<1>6. \A i, j \in 1 .. n : L!SetToSeq(S)[i] = L!SetToSeq(S)[j] => i = j
  BY <1>5 DEF L!IsInjective
<1> QED BY <1>1, <1>5, <1>6 DEF n

--------------------------------------------------------------------------------
(***************************************************************************)
(* MainLoop: what callbacks make of the application object a.              *)
(***************************************************************************)
LoApp(a) ==
    /\ a \in [executers : [slots : Seq(Executers), len : Nat],
              watchers : [slots : Seq(Watchers), len : Nat],
              windows : Seq(Windows), done : BOOLEAN]
    /\ L!IsVector(a.executers, Executers) /\ L!IsVector(a.watchers, Watchers)

LEMMA LoAppOK == /\ L!AppOK <=> LoApp(app)
                 /\ L!AppOK' <=> LoApp(app')
BY DEF L!AppOK, LoApp

Launched(a, b) ==
    /\ LoApp(b) /\ b.watchers = a.watchers /\ b.windows = a.windows /\ b.done = a.done
    /\ \E e \in Executers \ L!Elements(a.executers) : b.executers = L!PushBack(a.executers, e)

LEMMA LoLaunch ==
    ASSUME NEW a, LoApp(a), NEW b \in L!Launches(a)
    PROVE  Launched(a, b)
<1>1. PICK e \in Executers \ L!Elements(a.executers) : b = L!AddExecuter(a, e)
  BY DEF L!Launches
<1> DEFINE v == L!PushBack(a.executers, e)
<1>2. L!IsVector(v, Executers)
  BY LoPush DEF LoApp
<1>3. b = [a EXCEPT !.executers = v]
  BY <1>1 DEF L!AddExecuter
<1>4. v \in [slots : Seq(Executers), len : Nat]
  BY <1>2 DEF L!IsVector
<1> HIDE DEF v
<1>5. b.executers = v /\ LoApp(b) /\ b.watchers = a.watchers /\ b.windows = a.windows
      /\ b.done = a.done
  BY <1>2, <1>3, <1>4 DEF LoApp
<1> QED BY <1>5 DEF v, Launched

Dismissed(a, b, e) ==
    /\ LoApp(b) /\ b.watchers = a.watchers /\ b.windows = a.windows /\ b.done = a.done
    /\ b.executers = L!Erase(a.executers, e)

LEMMA LoDismiss ==
    ASSUME NEW a, LoApp(a), NEW e
    PROVE  Dismissed(a, L!RemoveExecuter(a, e), e)
<1> DEFINE v == L!Erase(a.executers, e)
           b == L!RemoveExecuter(a, e)
<1>2. L!IsVector(v, Executers)
  BY LoErase DEF LoApp
<1>3. b = [a EXCEPT !.executers = v]
  BY DEF L!RemoveExecuter
<1>4. v \in [slots : Seq(Executers), len : Nat]
  BY <1>2 DEF L!IsVector
<1> HIDE DEF v, b
<1>5. b.executers = v /\ LoApp(b) /\ b.watchers = a.watchers /\ b.windows = a.windows
      /\ b.done = a.done
  BY <1>2, <1>3, <1>4 DEF LoApp
<1> QED BY <1>5 DEF v, b, Dismissed

Rewatched(a, b) ==
    /\ LoApp(b) /\ b.executers = a.executers /\ b.windows = a.windows /\ b.done = a.done
    /\ \/ \E w \in Watchers \ L!Elements(a.watchers) : b.watchers = L!PushBack(a.watchers, w)
       \/ \E w \in L!Elements(a.watchers) : b.watchers = L!Erase(a.watchers, w)

LEMMA LoWatch ==
    ASSUME NEW a, LoApp(a), NEW b \in L!Watches(a)
    PROVE  Rewatched(a, b)
<1>1. ASSUME NEW v, L!IsVector(v, Watchers), b = [a EXCEPT !.watchers = v]
      PROVE  b.watchers = v /\ LoApp(b) /\ b.executers = a.executers
             /\ b.windows = a.windows /\ b.done = a.done
  <2>1. v \in [slots : Seq(Watchers), len : Nat]
    BY <1>1 DEF L!IsVector
  <2> QED BY <1>1, <2>1 DEF LoApp
<1>2. ASSUME NEW w \in Watchers \ L!Elements(a.watchers), b = L!AddWatcher(a, w)
      PROVE  Rewatched(a, b)
  <2> DEFINE v == L!PushBack(a.watchers, w)
  <2>1. L!IsVector(v, Watchers)
    BY LoPush DEF LoApp
  <2>2. b = [a EXCEPT !.watchers = v]
    BY <1>2 DEF L!AddWatcher
  <2> QED BY <1>1, <2>1, <2>2 DEF Rewatched
<1>3. ASSUME NEW w \in L!Elements(a.watchers), b = L!RemoveWatcher(a, w)
      PROVE  Rewatched(a, b)
  <2> DEFINE v == L!Erase(a.watchers, w)
  <2>1. L!IsVector(v, Watchers)
    BY LoErase DEF LoApp
  <2>2. b = [a EXCEPT !.watchers = v]
    BY <1>3 DEF L!RemoveWatcher
  <2> QED BY <1>1, <2>1, <2>2 DEF Rewatched
<1> QED BY <1>2, <1>3 DEF L!Watches

LEMMA LoWindows ==
    ASSUME NEW a, LoApp(a), NEW n \in Windows
    PROVE  LoApp(L!RemoveWindow(a, n)) /\ LoApp(L!AddWindow(a, n)) /\ LoApp(L!Exit(a))
<1> DEFINE q == a.windows
<1>1. q \in Seq(Windows)
  BY DEF LoApp
<1>2. ASSUME NEW i \in DOMAIN q
      PROVE  L!RemoveAt(q, i) \in Seq(Windows)
  <2> HIDE DEF q
  <2>1. i \in 1 .. Len(q) /\ Len(q) \in Nat
    BY <1>1, <1>2
  <2>2. SubSeq(q, 1, i - 1) \in Seq(Windows) /\ SubSeq(q, i + 1, Len(q)) \in Seq(Windows)
    BY <1>1, <2>1
  <2> QED BY <2>2, ConcatProperties DEF L!RemoveAt
<1>3. ASSUME NEW u \in Seq(Windows)
      PROVE  LoApp([a EXCEPT !.windows = u])
  BY DEF LoApp
<1>4. LoApp(L!AddWindow(a, n))
  <2>1. Append(q, n) \in Seq(Windows)
    <3> HIDE DEF q
    <3> QED BY <1>1, AppendProperties
  <2> QED BY <1>3, <2>1 DEF L!AddWindow
<1>5. LoApp(L!RemoveWindow(a, n))
  <2>1. CASE n \notin L!ToSet(a.windows)
    BY <2>1 DEF L!RemoveWindow
  <2>2. CASE n \in L!ToSet(a.windows)
    <3> DEFINE i == CHOOSE i \in DOMAIN q : q[i] = n
    <3>1. i \in DOMAIN q
      BY <2>2 DEF L!ToSet
    <3>2. L!RemoveWindow(a, n) = [a EXCEPT !.windows = L!RemoveAt(q, i)]
      BY <2>2 DEF L!RemoveWindow
    <3> HIDE DEF q, i
    <3> QED BY <1>2, <1>3, <3>1, <3>2
  <2> QED BY <2>1, <2>2
<1>6. LoApp(L!Exit(a))
  BY DEF L!Exit, LoApp
<1> QED BY <1>4, <1>5, <1>6

LEMMA LoCommand ==
    ASSUME NEW a, LoApp(a), NEW n \in Windows, NEW b \in L!Commands(a, n)
    PROVE  LoApp(b)
<1>1. LoApp(L!RemoveWindow(a, n)) /\ LoApp(L!Exit(a))
  BY LoWindows
<1>2. LoApp(L!Exit(L!RemoveWindow(a, n)))
  BY <1>1, LoWindows
<1>3. CASE b \in L!Launches(a)
  BY <1>3, LoLaunch DEF Launched
<1>4. CASE b \in L!Watches(a)
  BY <1>4, LoWatch DEF Rewatched
<1>5. CASE b \in L!Opens(a)
  BY <1>5, LoWindows DEF L!Opens
<1> QED BY <1>1, <1>2, <1>3, <1>4, <1>5 DEF L!Commands

\* The sources in use.
LEMMA LoMask ==
    ASSUME NEW a, LoApp(a)
    PROVE  \A s \in L!Sources :
              /\ s \in L!ExecuterSources =>
                    (s \in L!MaskOf(a) <=> s[1] \in L!Elements(a.executers))
              /\ s \in Watchers => (s \in L!MaskOf(a) <=> s \in L!Elements(a.watchers))
              /\ s \in Windows => (s \in L!MaskOf(a) <=> s \in L!ToSet(a.windows))
<1>1. L!Elements(a.executers) \subseteq Executers /\ L!Elements(a.watchers) \subseteq Watchers
  BY LoVector DEF LoApp
<1>2. L!ToSet(a.windows) \subseteq Windows
  <2> DEFINE q == a.windows
  <2>1. q \in Seq(Windows)
    BY DEF LoApp
  <2> HIDE DEF q
  <2>2. \A i \in DOMAIN q : q[i] \in Windows
    BY <2>1, ElementOfSeq, LenProperties
  <2> QED BY <2>2 DEF L!ToSet, q
<1>3. \A s \in L!ExecuterSources :
         /\ s \notin Watchers /\ s \notin Windows
         /\ s[1] \in L!Elements(a.executers) <=> s \in L!Elements(a.executers) \X {"data", "exit"}
  BY LoopAssumption DEF L!ExecuterSources
<1>4. \A s \in Watchers \cup Windows : s \notin L!Elements(a.executers) \X {"data", "exit"}
  BY <1>1, LoopAssumption
<1>5. \A s \in Watchers : s \notin Windows
  BY LoopAssumption
<1> QED BY <1>1, <1>2, <1>3, <1>4, <1>5 DEF L!MaskOf, L!Sources

--------------------------------------------------------------------------------
(***************************************************************************)
(* MainLoop: the steps.                                                    *)
(***************************************************************************)
LEMMA LoCrowd ==
    ASSUME NEW e \in Nat, NEW w \in Nat, NEW n \in Nat
    PROVE  /\ L!TooMany(e, w, n) \subseteq {"executers", "watchers", "windows"}
           /\ "executers" \in L!TooMany(e, w, n) <=> e > 2
           /\ "watchers" \in L!TooMany(e, w, n) <=> w > 2
           /\ "windows" \in L!TooMany(e, w, n) <=> n > 1
BY DEF L!TooMany

\* Work only becomes less, and of sources that are not in use there is none.
LessWork ==
    /\ work' \in [L!Sources -> Nat]
    /\ \A s \in L!Sources : /\ work'[s] <= work[s]
                            /\ s \notin L!MaskOf(app') => work'[s] = 0
    /\ loopSignals' = loopSignals \cap L!MaskOf(app')

LEMMA LoDropped == ASSUME L!TypeOK, L!Dropped PROVE LessWork
<1>1. \A s \in L!Sources : work[s] \in Nat
  BY LoopAssumption DEF L!TypeOK
<1> QED BY <1>1 DEF L!Dropped, LessWork

LEMMA LoDroppedAnd ==
    ASSUME L!TypeOK, NEW t \in L!Sources, L!DroppedAnd(t)
    PROVE  LessWork /\ (work[t] # 0 => work'[t] < work[t])
<1>1. \A s \in L!Sources : work[s] \in Nat
  BY LoopAssumption DEF L!TypeOK
<1> QED BY <1>1 DEF L!DroppedAnd, LessWork

LEMMA LoLess ==
    ASSUME L!TypeOK, L!WorkCounted, crowd \subseteq crowd', events' = events, LessWork
    PROVE  /\ work' \in [L!Sources -> 0 .. MaxEvents] /\ loopSignals' \subseteq L!Sources
           /\ L!WorkCounted'
           /\ \A s \in L!Sources : L!Pending(s)' =>
                 L!Pending(s) /\ s \in L!MaskOf(app) /\ s \in L!MaskOf(app')
<1>1. \A s \in L!Sources : work[s] \in 0 .. MaxEvents /\ work'[s] \in Nat /\ work'[s] <= work[s]
  BY DEF L!TypeOK, LessWork
<1>2. work' \in [L!Sources -> 0 .. MaxEvents]
  <2>1. \A s \in L!Sources : work'[s] \in 0 .. MaxEvents
    BY <1>1, LoopAssumption
  <2> QED BY <2>1 DEF LessWork
<1>3. \A s \in L!Sources : work'[s] # 0 => work[s] # 0 /\ s \in L!MaskOf(app')
  BY <1>1 DEF LessWork
<1>4. L!WorkCounted'
  <2>1. \A s \in L!Sources : /\ work'[s] <= events
                             /\ s \in L!ExecuterSources => work'[s] <= 1
    BY <1>1 DEF L!WorkCounted
  <2> QED BY <1>3, <2>1 DEF L!WorkCounted, L!Mask
<1>5. ASSUME NEW s \in L!Sources, L!Pending(s)'
      PROVE  L!Pending(s) /\ s \in L!MaskOf(app) /\ s \in L!MaskOf(app')
  <2>1. work'[s] # 0 /\ s \notin loopSignals' /\ ~L!Excused(s)'
    BY <1>5 DEF L!Pending
  <2>2. s \notin loopSignals /\ work[s] # 0 /\ s \in L!MaskOf(app')
    BY <1>3, <2>1 DEF LessWork
  <2>3. ~L!Excused(s)
    BY <2>1 DEF L!Excused
  <2>4. s \in L!MaskOf(app)
    BY <2>2 DEF L!WorkCounted, L!Mask
  <2> QED BY <2>2, <2>3, <2>4 DEF L!Pending
<1> QED BY <1>2, <1>4, <1>5 DEF LessWork, L!TypeOK

LEMMA LoServes ==
    L!Follows' <=>
        /\ L!TypeOK' /\ L!AppOK' /\ L!WorkCounted' /\ L!LoopsInBounds'
        /\ pc' \notin {"returned", "undefined"} =>
              \A s \in L!Sources : L!Pending(s)' => L!Ahead(s)'
BY DEF L!Follows

\* The objects that are in the collections of an application.
LEMMA LoMembers ==
    ASSUME NEW a, LoApp(a)
    PROVE  /\ L!Elements(a.executers) \subseteq Executers
           /\ L!Elements(a.watchers) \subseteq Watchers
           /\ L!ToSet(a.windows) \subseteq Windows /\ a.done \in BOOLEAN
           /\ a.executers.len \in Nat /\ a.watchers.len \in Nat
           /\ Len(a.executers.slots) \in Nat /\ Len(a.watchers.slots) \in Nat
           /\ a.executers.len <= Len(a.executers.slots)
           /\ a.watchers.len <= Len(a.watchers.slots)
<1>1. L!ToSet(a.windows) \subseteq Windows
  <2> DEFINE q == a.windows
  <2>1. q \in Seq(Windows)
    BY DEF LoApp
  <2> HIDE DEF q
  <2>2. \A i \in DOMAIN q : q[i] \in Windows
    BY <2>1, ElementOfSeq, LenProperties
  <2> QED BY <2>2 DEF L!ToSet, q
<1>2. a.done \in BOOLEAN
  BY DEF LoApp
<1> QED BY <1>1, <1>2, LoVector DEF LoApp

LEMMA LoEvent ==
    ASSUME L!Follows, NEW t \in L!Sources, L!Event(t)
    PROVE  L!Follows'
<1>1. /\ L!TypeOK /\ L!AppOK /\ L!WorkCounted /\ L!LoopsInBounds
      /\ events < MaxEvents /\ L!MayCome(t) /\ pc \notin {"returned", "undefined"}
      /\ events' = events + 1
      /\ work' = [work EXCEPT ![t] = @ + 1]
      /\ loopSignals' = loopSignals \cup {t}
      /\ UNCHANGED <<pc, app, taken, at, limit, served, crowd>>
  BY DEF L!Follows, L!Event
<1>2. \A s \in L!Sources : work[s] \in 0 .. MaxEvents /\ work'[s] = IF s = t THEN work[t] + 1 ELSE work[s]
  BY <1>1 DEF L!TypeOK
<1>3. events \in Nat /\ MaxEvents \in Nat /\ work[t] <= events
  BY <1>1, LoopAssumption DEF L!WorkCounted
<1>4. work' \in [L!Sources -> 0 .. MaxEvents]
  <2>1. \A s \in L!Sources : work'[s] \in 0 .. MaxEvents
    BY <1>1, <1>2, <1>3
  <2>2. work' \in [L!Sources -> {work'[s] : s \in L!Sources}]
    BY <1>1 DEF L!TypeOK
  <2> QED BY <2>1, <2>2
<1>5. L!TypeOK'
  BY <1>1, <1>4 DEF L!TypeOK
<1>6. L!AppOK' /\ L!LoopsInBounds'
  BY <1>1 DEF L!AppOK, L!LoopsInBounds
<1>7. L!WorkCounted'
  <2>1. events' \in 0 .. MaxEvents
    BY <1>1, <1>3
  <2>2. ASSUME NEW s \in L!Sources
        PROVE  /\ work'[s] <= events' /\ (work'[s] # 0 => s \in L!MaskOf(app))
               /\ s \in L!ExecuterSources => work'[s] <= 1
    <3>1. CASE s = t
      BY <1>1, <1>2, <1>3, <3>1 DEF L!MayCome, L!Mask
    <3>2. CASE s # t
      BY <1>1, <1>2, <1>3, <3>2 DEF L!WorkCounted, L!Mask
    <3> QED BY <3>1, <3>2
  <2> QED BY <1>1, <2>1, <2>2 DEF L!WorkCounted, L!Mask
<1>8. ASSUME NEW s \in L!Sources, L!Pending(s)'
      PROVE  L!Ahead(s)'
  <2>1. s # t /\ L!Pending(s)
    BY <1>1, <1>2, <1>8 DEF L!Pending, L!Excused
  <2>2. L!Ahead(s)
    BY <1>1, <2>1 DEF L!Follows
  <2> QED BY <1>1, <2>2 DEF L!Ahead
<1> QED BY <1>5, <1>6, <1>7, <1>8, LoServes

LEMMA LoBegin ==
    ASSUME L!Follows, LoApp(app'), events' \in 0 .. MaxEvents, events <= events', L!Begin
    PROVE  L!Follows'
<1>1. /\ L!TypeOK /\ L!AppOK /\ L!WorkCounted /\ L!LoopsInBounds
      /\ pc = "wait"
      /\ taken' = loopSignals \cap L!MaskOf(app) /\ loopSignals' = {}
      /\ pc' = "executers" /\ at' = 1 /\ limit' = app'.executers.len
      /\ served' = {}
      /\ work' = [s \in L!Sources |-> IF s \in L!MaskOf(app') THEN work[s] ELSE 0]
  BY DEF L!Follows, L!Begin, L!Mask
<1> DEFINE n == L!Cardinality(taken' \cap Windows)
<1>2. n \in Nat /\ (n <= 1 => \A x, y \in taken' \cap Windows : x = y)
  <2> DEFINE S == taken' \cap Windows
  <2>1. IsFiniteSet(S)
    BY FS_Subset, LoopAssumption
  <2>2. n = Cardinality(S)
    BY DEF L!Cardinality, Cardinality
  <2> HIDE DEF S, n
  <2>3. Cardinality(S) \in Nat
    BY <2>1, FS_CardinalityType
  <2>4. Cardinality(S) = 0 => S = {}
    BY <2>1, FS_EmptySet
  <2>5. Cardinality(S) = 1 => \E x : S = {x}
    BY <2>1, FS_Singleton
  <2> QED BY <2>2, <2>3, <2>4, <2>5 DEF S
<1>3. crowd' = crowd \cup L!TooMany(app'.executers.len, app'.watchers.len, n)
  BY DEF L!Begin, L!Crowded
<1> HIDE DEF n
<1>4. /\ app'.executers.len \in Nat /\ app'.watchers.len \in Nat
      /\ Len(app'.executers.slots) \in Nat /\ Len(app'.watchers.slots) \in Nat
      /\ app'.executers.len <= Len(app'.executers.slots)
      /\ L!Elements(app'.executers) \subseteq Executers
      /\ L!Elements(app'.watchers) \subseteq Watchers
      /\ L!ToSet(app'.windows) \subseteq Windows /\ app'.done \in BOOLEAN
  BY LoMembers
<1>5. /\ crowd' \subseteq {"executers", "watchers", "windows"} /\ crowd \subseteq crowd'
      /\ app'.executers.len > 2 => "executers" \in crowd'
      /\ app'.watchers.len > 2 => "watchers" \in crowd'
      /\ n > 1 => "windows" \in crowd'
  <2> DEFINE more == L!TooMany(app'.executers.len, app'.watchers.len, n)
  <2>1. /\ more \subseteq {"executers", "watchers", "windows"}
        /\ app'.executers.len > 2 => "executers" \in more
        /\ app'.watchers.len > 2 => "watchers" \in more
        /\ n > 1 => "windows" \in more
    BY <1>2, <1>4, LoCrowd
  <2>2. crowd' = crowd \cup more
    BY <1>3
  <2>3. crowd \subseteq {"executers", "watchers", "windows"}
    BY <1>1 DEF L!TypeOK
  <2> HIDE DEF more
  <2> QED BY <2>1, <2>2, <2>3
<1>6. \A s \in L!Sources : work[s] \in 0 .. MaxEvents /\ work'[s] \in 0 .. MaxEvents
  BY <1>1, LoopAssumption DEF L!TypeOK
<1>7. L!TypeOK'
  <2>1. work' \in [L!Sources -> 0 .. MaxEvents]
    BY <1>1, <1>6
  <2>2. L!Cardinality({}) <= 1
    <3>1. L!Cardinality({}) = Cardinality({})
      BY DEF L!Cardinality, Cardinality
    <3> QED BY <3>1, FS_EmptySet
  <2>3. at' \in 1 .. 1 + limit'
    BY <1>1, <1>4
  <2>4. taken' \subseteq L!Sources /\ loopSignals' \subseteq L!Sources
    BY <1>1 DEF L!TypeOK
  <2> QED BY <1>1, <1>4, <1>5, <2>1, <2>2, <2>3, <2>4 DEF L!TypeOK
<1>8. L!AppOK'
  BY LoAppOK
<1>9. L!LoopsInBounds'
  BY <1>1, <1>2, <1>4, <1>5 DEF L!LoopsInBounds
<1>10. L!WorkCounted'
  <2>1. events \in Nat /\ events' \in Nat
    BY <1>1, LoopAssumption DEF L!WorkCounted
  <2>2. ASSUME NEW s \in L!Sources
        PROVE  /\ work'[s] <= events' /\ (work'[s] # 0 => s \in L!MaskOf(app'))
               /\ s \in L!ExecuterSources => work'[s] <= 1
    BY <1>1, <1>6, <2>1 DEF L!WorkCounted
  <2> QED BY <2>1, <2>2 DEF L!WorkCounted, L!Mask
<1>11. ASSUME NEW s \in L!Sources, L!Pending(s)'
       PROVE  L!Ahead(s)'
  <2>1. work[s] # 0 /\ s \in L!MaskOf(app') /\ ~L!Excused(s)
    BY <1>1, <1>5, <1>11 DEF L!Pending, L!Excused
  <2>2. ~L!Ahead(s)
    BY <1>1 DEF L!Ahead
  <2>3. s \in loopSignals
    BY <1>1, <2>1, <2>2 DEF L!Follows, L!Pending
  <2>4. s \in L!MaskOf(app)
    BY <1>1, <2>1 DEF L!WorkCounted, L!Mask
  <2>5. s \in taken'
    BY <1>1, <2>3, <2>4
  <2>6. CASE s \in L!ExecuterSources
    <3>1. s[1] \in L!Elements(app'.executers)
      BY <2>1, <2>6, LoMask
    <3>2. \E i \in 1 .. app'.executers.len : app'.executers.slots[i] = s[1]
      BY <3>1 DEF L!Elements
    <3> QED BY <1>1, <2>5, <2>6, <3>2 DEF L!Ahead
  <2> QED BY <1>1, <2>5, <2>6 DEF L!Ahead, L!Sources
<1> QED BY <1>7, <1>8, <1>9, <1>10, <1>11, LoServes

LEMMA LoStart ==
    ASSUME L!Follows, L!Wake \/ L!Break
    PROVE  L!Follows'
<1>1. L!AppOK /\ L!WorkCounted /\ LoApp(app)
  BY LoAppOK DEF L!Follows
<1>2. events \in Nat /\ events \in 0 .. MaxEvents
  BY <1>1, LoopAssumption DEF L!WorkCounted
<1>3. CASE L!Wake
  <2>1. app' = app /\ events' = events /\ L!Begin
    BY <1>3 DEF L!Wake
  <2>2. LoApp(app')
    BY <1>1, <2>1
  <2> QED BY <1>2, <2>1, <2>2, LoBegin
<1>4. CASE L!Break
  <2>1. /\ events < MaxEvents /\ events' = events + 1 /\ L!Begin
        /\ app' \in IF app.windows = <<>> THEN {app} ELSE L!Commands(app, Head(app.windows))
    BY <1>4 DEF L!Break
  <2>2. events' \in 0 .. MaxEvents /\ events <= events'
    BY <1>2, <2>1, LoopAssumption
  <2>3. LoApp(app')
    <3>1. CASE app.windows = <<>>
      BY <1>1, <2>1, <3>1
    <3>2. CASE app.windows # <<>>
      <4> DEFINE q == app.windows
      <4>1. q \in Seq(Windows)
        BY <1>1 DEF LoApp
      <4> HIDE DEF q
      <4>2. q # <<>> => Head(q) \in Windows
        BY <4>1, HeadTailProperties
      <4>3. Head(app.windows) \in Windows /\ app' \in L!Commands(app, Head(app.windows))
        BY <2>1, <3>2, <4>2 DEF q
      <4> QED BY <1>1, <4>3, LoCommand
    <3> QED BY <3>1, <3>2
  <2> QED BY <2>1, <2>2, <2>3, LoBegin
<1> QED BY <1>3, <1>4

\* Where a callback of the loop over the executers leads.
LEMMA LoOnward ==
    ASSUME L!Follows, pc = "executers", at <= limit, LoApp(app'), LessWork,
           events' = events, UNCHANGED <<taken, limit, served>>,
           (pc' = pc /\ at' = at + 1) \/ (pc' = "undefined" /\ at' = at),
           NEW m \in Nat, app'.executers.len <= m,
           crowd' = crowd \cup L!TooMany(m, app'.watchers.len, 0),
           Len(app'.executers.slots) >= Len(app.executers.slots)
    PROVE  /\ L!TypeOK' /\ L!AppOK' /\ L!WorkCounted' /\ L!LoopsInBounds'
           /\ crowd \subseteq crowd' /\ (m > 2 => "executers" \in crowd')
           /\ \A s \in L!Sources : L!Pending(s)' =>
                 /\ L!Pending(s) /\ s \in taken
                 /\ s \in L!MaskOf(app) /\ s \in L!MaskOf(app')
                 /\ s \in L!ExecuterSources =>
                       \E i \in at .. limit : app.executers.slots[i] = s[1]
<1>1. L!TypeOK /\ L!AppOK /\ L!WorkCounted /\ L!LoopsInBounds
  BY DEF L!Follows
<1>2. /\ app'.executers.len \in Nat /\ app'.watchers.len \in Nat
      /\ Len(app'.executers.slots) \in Nat /\ Len(app.executers.slots) \in Nat
      /\ L!Elements(app'.executers) \subseteq Executers
      /\ L!Elements(app'.watchers) \subseteq Watchers
      /\ L!ToSet(app'.windows) \subseteq Windows /\ app'.done \in BOOLEAN
  BY <1>1, LoMembers, LoAppOK
<1>3. /\ crowd' \subseteq {"executers", "watchers", "windows"} /\ crowd \subseteq crowd'
      /\ m > 2 => "executers" \in crowd'
      /\ app'.watchers.len > 2 => "watchers" \in crowd'
  BY <1>1, <1>2, LoCrowd DEF L!TypeOK
<1>4. /\ work' \in [L!Sources -> 0 .. MaxEvents] /\ loopSignals' \subseteq L!Sources
      /\ L!WorkCounted'
      /\ \A s \in L!Sources : L!Pending(s)' =>
            L!Pending(s) /\ s \in L!MaskOf(app) /\ s \in L!MaskOf(app')
  BY <1>1, <1>3, LoLess
<1>5. limit \in Nat /\ at \in Nat /\ at' \in 1 .. 1 + limit'
  BY <1>1 DEF L!TypeOK, L!LoopsInBounds
<1>6. L!TypeOK'
  BY <1>1, <1>2, <1>3, <1>4, <1>5 DEF L!TypeOK
<1>7. L!AppOK'
  BY LoAppOK
<1>8. L!LoopsInBounds'
  BY <1>1, <1>2, <1>3, <1>5 DEF L!LoopsInBounds
<1>9. ASSUME NEW s \in L!Sources, L!Pending(s)
      PROVE  /\ s \in taken
             /\ s \in L!ExecuterSources =>
                   \E i \in at .. limit : app.executers.slots[i] = s[1]
  <2>1. L!Ahead(s)
    BY <1>9 DEF L!Follows
  <2>2. s \in L!ExecuterSources => s \notin Watchers /\ s \notin Windows
    BY LoopAssumption DEF L!ExecuterSources
  <2> QED BY <2>1, <2>2 DEF L!Ahead
<1> QED BY <1>3, <1>4, <1>6, <1>7, <1>8, <1>9

\* A source of another executer than e, which is passed, stays ahead of the loop.
LEMMA LoOthers ==
    ASSUME L!Follows, pc = "executers", at <= limit, LoApp(app'),
           "executers" \notin crowd, NEW e, app.executers.slots[at] = e,
           NEW f, f # e, \E i \in at .. limit : app.executers.slots[i] = f,
           \/ app'.executers = app.executers
           \/ app'.executers = L!Erase(app.executers, e)
    PROVE  \E i \in at + 1 .. limit : app'.executers.slots[i] = f
<1>1. L!IsVector(app.executers, Executers) /\ app.executers.len \in Nat
  BY LoMembers, LoAppOK DEF L!Follows, LoApp
<1>2. /\ limit \in Nat /\ at \in Nat /\ 1 <= at /\ limit <= 2 /\ app.executers.len <= 2
      /\ limit <= Len(app.executers.slots)
  BY <1>1 DEF L!Follows, L!LoopsInBounds, L!TypeOK
<1> DEFINE v == app.executers
           u == app'.executers
<1>3. PICK i \in at .. limit : v.slots[i] = f
  OBVIOUS
<1>4. i = 2 /\ at = 1 /\ limit = 2 /\ i # at
  BY <1>2, <1>3
<1>5. u.slots[2] = v.slots[2]
  <2>1. CASE u = v
    BY <2>1
  <2>2. CASE u = L!Erase(v, e)
    <3>1. 2 \in 1 .. Len(v.slots) /\ 2 >= v.len
      BY <1>1, <1>2, <1>4, LoVector
    <3> HIDE DEF u, v
    <3> QED BY <1>1, <2>2, <3>1, LoErase DEF v
  <2> QED BY <2>1, <2>2
<1> QED BY <1>3, <1>4, <1>5

LEMMA LoEnd ==
    ASSUME L!Follows, L!EndOfCommand
    PROVE  L!Follows'
<1> DEFINE e == app.executers.slots[at]
           v == app.executers
           u == app'.executers
<1>1. /\ pc = "executers" /\ at <= limit /\ e \in L!Elements(v)
      /\ L!Dropped
      /\ UNCHANGED <<taken, limit, served, events>>
      /\ (pc' = pc /\ at' = at + 1) \/ (pc' = "undefined" /\ at' = at)
      /\ crowd' = crowd \cup L!TooMany(u.len + 1, app'.watchers.len, 0)
  BY DEF L!EndOfCommand, L!Onward, L!Signalled, L!ExecuterAt, L!Crowded
<1>2. PICK a \in {app} \cup L!Launches(app) \cup L!Watches(app) :
         app' = L!RemoveExecuter(a, e)
  BY DEF L!EndOfCommand, L!ExecuterAt
<1>3. L!TypeOK /\ L!LoopsInBounds /\ LoApp(app) /\ L!IsVector(v, Executers) /\ v.len \in Nat
  BY LoMembers, LoAppOK DEF L!Follows, LoApp
<1>4. LoApp(a) /\ (a.executers = v \/ Launched(app, a))
  BY <1>2, <1>3, LoLaunch, LoWatch DEF Launched, Rewatched
<1>5. LoApp(app') /\ u = L!Erase(a.executers, e)
  BY <1>2, <1>4, LoDismiss DEF Dismissed
<1> HIDE DEF e
<1>7. ASSUME Launched(app, a)
      PROVE  /\ u.len = v.len /\ u.len \in Nat /\ Len(u.slots) >= Len(v.slots)
             /\ L!Elements(u) \subseteq Executers \ {e}
  <2>1. PICK x \in Executers \ L!Elements(v) : a.executers = L!PushBack(v, x)
    BY <1>7 DEF Launched
  <2> DEFINE w == a.executers
  <2>2. /\ L!IsVector(w, Executers) /\ w.len = v.len + 1 /\ Len(w.slots) >= Len(v.slots)
        /\ L!Elements(w) = L!Elements(v) \cup {x}
    BY <1>3, <2>1, LoPush
  <2>3. e \in L!Elements(w)
    BY <1>1, <2>2
  <2>4. /\ u.len = w.len - 1 /\ Len(u.slots) = Len(w.slots)
        /\ L!Elements(u) = L!Elements(w) \ {e} /\ L!Elements(w) \subseteq Executers
    BY <1>5, <2>2, <2>3, LoErase, LoVector
  <2> HIDE DEF w
  <2> QED BY <1>3, <2>2, <2>4
<1>8. /\ u.len \in Nat /\ Len(u.slots) >= Len(v.slots) /\ e \notin L!Elements(u)
  <2>1. CASE a.executers = v
    <3>1. /\ Len(u.slots) = Len(v.slots) /\ L!Elements(u) = L!Elements(v) \ {e}
      BY <1>3, <1>5, <2>1, LoErase
    <3>2. u.len \in Nat /\ Len(v.slots) \in Nat
      BY <1>3, <1>5, LoMembers
    <3> QED BY <3>1, <3>2
  <2> QED BY <1>4, <1>7, <2>1
<1>9. LessWork
  BY <1>1, <1>3, LoDropped
<1>10. /\ L!TypeOK' /\ L!AppOK' /\ L!WorkCounted' /\ L!LoopsInBounds'
       /\ crowd \subseteq crowd' /\ (u.len + 1 > 2 => "executers" \in crowd')
       /\ \A s \in L!Sources : L!Pending(s)' =>
             /\ L!Pending(s) /\ s \in taken
             /\ s \in L!MaskOf(app) /\ s \in L!MaskOf(app')
             /\ s \in L!ExecuterSources =>
                   \E i \in at .. limit : app.executers.slots[i] = s[1]
  <2> DEFINE m == u.len + 1
  <2>1. m \in Nat /\ u.len <= m
    BY <1>8
  <2> HIDE DEF m, u, v
  <2>2. crowd' = crowd \cup L!TooMany(m, app'.watchers.len, 0)
    BY <1>1 DEF m, u
  <2>3. app'.executers.len <= m /\ Len(app'.executers.slots) >= Len(app.executers.slots)
    BY <1>8, <2>1 DEF u, v
  <2> QED BY <1>1, <1>5, <1>9, <2>1, <2>2, <2>3, LoOnward DEF m
<1>11. ASSUME NEW s \in L!Sources, L!Pending(s)', pc' = "executers"
       PROVE  L!Ahead(s)'
  <2>1. s \in taken' /\ at' = at + 1 /\ limit' = limit
    BY <1>1, <1>10, <1>11
  <2>2. CASE s \in L!ExecuterSources
    <3> DEFINE f == s[1]
    <3>1. f \in L!Elements(v) /\ f \in L!Elements(u) /\ f # e
      BY <1>3, <1>5, <1>8, <1>10, <1>11, <2>2, LoMask
    <3>2. "executers" \notin crowd'
      BY <1>11, <2>2 DEF L!Pending, L!Excused
    <3>3. v.len >= 2
      BY <1>1, <1>3, <3>1, LoFew
    <3>4. ~Launched(app, a)
      BY <1>3, <1>7, <1>10, <3>2, <3>3
    <3>5. u = L!Erase(v, e)
      BY <1>4, <1>5, <3>4
    <3>6. "executers" \notin crowd /\ \E i \in at .. limit : app.executers.slots[i] = f
      BY <1>10, <1>11, <2>2, <3>2
    <3> HIDE DEF f
    <3>7. app.executers.slots[at] = e
      BY DEF e
    <3>8. \E i \in at + 1 .. limit : app'.executers.slots[i] = f
      BY <1>1, <1>5, <3>1, <3>5, <3>6, <3>7, LoOthers
    <3> QED BY <1>11, <2>1, <2>2, <3>8 DEF L!Ahead, f
  <2> QED BY <1>11, <2>1, <2>2 DEF L!Ahead, L!Sources
<1>12. pc' \notin {"returned", "undefined"} => pc' = "executers"
  BY <1>1
<1> QED BY <1>10, <1>11, <1>12, LoServes


LEMMA LoData ==
    ASSUME L!Follows, L!DataOfCommand
    PROVE  L!Follows'
<1> DEFINE e == app.executers.slots[at]
           v == app.executers
           u == app'.executers
           t == <<e, "data">>
<1>1. /\ pc = "executers" /\ at <= limit
      /\ ~L!Signalled(e, "exit") /\ e \in L!Elements(v)
      /\ L!DroppedAnd(t)
      /\ UNCHANGED <<taken, limit, served, events>>
      /\ (pc' = pc /\ at' = at + 1) \/ (pc' = "undefined" /\ at' = at)
      /\ crowd' = crowd \cup L!TooMany(u.len, app'.watchers.len, 0)
  BY DEF L!DataOfCommand, L!Onward, L!Signalled, L!ExecuterAt, L!Crowded
<1>2. app' \in {app, L!RemoveExecuter(app, e)} \cup L!Launches(app) \cup L!Watches(app)
  BY DEF L!DataOfCommand, L!ExecuterAt
<1>3. L!TypeOK /\ L!WorkCounted /\ LoApp(app) /\ L!IsVector(v, Executers) /\ v.len \in Nat
  BY LoMembers, LoAppOK DEF L!Follows, LoApp
<1> HIDE DEF e
<1>4. /\ LoApp(app')
      /\ u = v \/ u = L!Erase(v, e) \/ Launched(app, app')
  BY <1>2, <1>3, LoLaunch, LoWatch, LoDismiss DEF Launched, Rewatched, Dismissed
<1>5. ASSUME Launched(app, app')
      PROVE  u.len = v.len + 1 /\ Len(u.slots) >= Len(v.slots)
  BY <1>3, <1>5, LoPush DEF Launched
<1>6. u.len \in Nat /\ Len(u.slots) >= Len(v.slots)
  <2>1. u.len \in Nat /\ Len(v.slots) \in Nat
    BY <1>3, <1>4, LoMembers
  <2>2. CASE u = v
    BY <2>1, <2>2
  <2>3. CASE u = L!Erase(v, e)
    BY <1>3, <2>1, <2>3, LoErase
  <2> QED BY <1>4, <1>5, <2>1, <2>2, <2>3
<1>7. e \in Executers /\ t \in L!ExecuterSources /\ t \in L!Sources
  <2>1. e \in Executers
    BY <1>1, <1>3, LoVector
  <2> QED BY <2>1 DEF L!ExecuterSources, L!Sources
<1> HIDE DEF t
<1>8. LessWork /\ (work[t] # 0 => work'[t] < work[t])
  BY <1>1, <1>3, <1>7, LoDroppedAnd
<1>9. work'[t] = 0
  <2>1. work[t] \in Nat /\ work[t] <= 1 /\ work'[t] \in Nat /\ work'[t] <= work[t]
    BY <1>3, <1>7, <1>8, LoopAssumption DEF L!WorkCounted, L!TypeOK, LessWork
  <2> QED BY <1>8, <2>1
<1>10. /\ L!TypeOK' /\ L!AppOK' /\ L!WorkCounted' /\ L!LoopsInBounds'
       /\ crowd \subseteq crowd' /\ (u.len > 2 => "executers" \in crowd')
       /\ \A s \in L!Sources : L!Pending(s)' =>
             /\ L!Pending(s) /\ s \in taken
             /\ s \in L!MaskOf(app) /\ s \in L!MaskOf(app')
             /\ s \in L!ExecuterSources =>
                   \E i \in at .. limit : app.executers.slots[i] = s[1]
  <2> DEFINE m == u.len
  <2>1. m \in Nat /\ u.len <= m
    BY <1>6
  <2> HIDE DEF m, u, v
  <2>2. crowd' = crowd \cup L!TooMany(m, app'.watchers.len, 0)
    BY <1>1 DEF m, u
  <2>3. app'.executers.len <= m /\ Len(app'.executers.slots) >= Len(app.executers.slots)
    BY <1>6, <2>1 DEF u, v
  <2> QED BY <1>1, <1>4, <1>8, <2>1, <2>2, <2>3, LoOnward DEF m
<1>11. ASSUME NEW s \in L!Sources, L!Pending(s)', pc' = "executers"
       PROVE  L!Ahead(s)'
  <2>1. s \in taken' /\ at' = at + 1 /\ limit' = limit
    BY <1>1, <1>10, <1>11
  <2>2. CASE s \in L!ExecuterSources
    <3> DEFINE f == s[1]
    <3>1. f \in L!Elements(v) /\ f \in L!Elements(u)
      BY <1>3, <1>4, <1>10, <1>11, <2>2, LoMask
    <3>2. f # e
      <4>1. s = <<f, "data">> \/ s = <<f, "exit">>
        BY <2>2 DEF L!ExecuterSources
      <4>2. s # t
        BY <1>9, <1>11 DEF L!Pending
      <4>3. s # <<e, "exit">>
        BY <1>1, <1>10, <1>11 DEF L!Signalled
      <4> QED BY <4>1, <4>2, <4>3 DEF t
    <3>3. "executers" \notin crowd'
      BY <1>11, <2>2 DEF L!Pending, L!Excused
    <3>4. v.len >= 2
      BY <1>1, <1>3, <3>1, <3>2, LoFew
    <3>5. u = v \/ u = L!Erase(v, e)
      BY <1>3, <1>4, <1>5, <1>10, <3>3, <3>4
    <3>6. "executers" \notin crowd /\ \E i \in at .. limit : app.executers.slots[i] = f
      BY <1>10, <1>11, <2>2, <3>3
    <3> HIDE DEF f
    <3>7. app.executers.slots[at] = e
      BY DEF e
    <3>8. \E i \in at + 1 .. limit : app'.executers.slots[i] = f
      BY <1>1, <1>4, <3>2, <3>5, <3>6, <3>7, LoOthers
    <3> QED BY <1>11, <2>1, <2>2, <3>8 DEF L!Ahead, f
  <2> QED BY <1>11, <2>1, <2>2 DEF L!Ahead, L!Sources
<1>12. pc' \notin {"returned", "undefined"} => pc' = "executers"
  BY <1>1
<1> QED BY <1>10, <1>11, <1>12, LoServes

\* A step that leaves the sources as they are.
LEMMA LoStill ==
    ASSUME L!Follows, UNCHANGED <<app, loopSignals, taken, work, events, crowd>>
    PROVE  /\ L!AppOK' /\ L!WorkCounted'
           /\ pc \notin {"returned", "undefined"} =>
                 \A s \in L!Sources : L!Pending(s)' => L!Ahead(s) /\ s \in L!MaskOf(app)
<1>1. L!AppOK' /\ L!WorkCounted'
  BY DEF L!Follows, L!AppOK, L!WorkCounted, L!Mask
<1>2. \A s \in L!Sources : L!Pending(s)' => L!Pending(s) /\ s \in L!MaskOf(app)
  BY DEF L!Follows, L!Pending, L!Excused, L!WorkCounted, L!Mask
<1> QED BY <1>1, <1>2 DEF L!Follows

LEMMA LoQuiet ==
    ASSUME L!Follows, L!QuietExecuter
    PROVE  L!Follows'
<1>1. /\ L!TypeOK /\ L!AppOK /\ L!LoopsInBounds
      /\ pc = "executers" /\ at <= limit /\ at' = at + 1
      /\ ~L!Signalled(app.executers.slots[at], "exit")
      /\ ~L!Signalled(app.executers.slots[at], "data")
      /\ UNCHANGED <<pc, app, loopSignals, taken, limit, served, work, events, crowd>>
  BY DEF L!Follows, L!QuietExecuter, L!ExecuterAt
<1>2. limit \in Nat /\ at \in Nat /\ at' \in 1 .. 1 + limit'
  BY <1>1 DEF L!TypeOK, L!LoopsInBounds
<1>3. L!TypeOK' /\ L!LoopsInBounds'
  BY <1>1, <1>2 DEF L!TypeOK, L!LoopsInBounds
<1>4. /\ L!AppOK' /\ L!WorkCounted'
      /\ \A s \in L!Sources : L!Pending(s)' => L!Ahead(s) /\ s \in L!MaskOf(app)
  BY <1>1, LoStill
<1>5. ASSUME NEW s \in L!Sources, L!Pending(s)'
      PROVE  L!Ahead(s)'
  <2>1. L!Ahead(s) /\ s \in L!MaskOf(app) /\ s \in taken
    BY <1>4, <1>5 DEF L!Ahead
  <2>2. CASE s \in L!ExecuterSources
    <3>1. s \notin Watchers /\ s \notin Windows
      BY <2>2, LoopAssumption DEF L!ExecuterSources
    <3>2. PICK i \in at .. limit : app.executers.slots[i] = s[1]
      BY <2>1, <3>1 DEF L!Ahead
    <3>3. s[1] \in L!Elements(app.executers)
      BY <1>1, <2>1, <2>2, LoMask, LoAppOK
    <3>4. s = <<s[1], "exit">> \/ s = <<s[1], "data">>
      BY <2>2 DEF L!ExecuterSources
    <3>5. i # at
      BY <1>1, <2>1, <3>2, <3>3, <3>4 DEF L!Signalled
    <3>6. i \in at' .. limit' /\ app'.executers.slots[i] = s[1]
      BY <1>1, <1>2, <3>2, <3>5
    <3> QED BY <1>1, <2>1, <2>2, <3>6 DEF L!Ahead
  <2> QED BY <1>1, <2>1, <2>2 DEF L!Ahead, L!Sources
<1> QED BY <1>3, <1>4, <1>5, LoServes

LEMMA LoAll ==
    ASSUME L!Follows, L!AllExecuters
    PROVE  L!Follows'
<1>1. /\ L!TypeOK /\ L!AppOK /\ L!LoopsInBounds /\ LoApp(app)
      /\ pc = "executers" /\ at > limit
      /\ pc' = "watchers" /\ at' = 1 /\ limit' = app.watchers.len
      /\ UNCHANGED <<app, loopSignals, taken, served, work, events, crowd>>
  BY LoAppOK DEF L!Follows, L!AllExecuters
<1>2. app.watchers.len \in Nat /\ app.watchers.len <= Len(app.watchers.slots)
      /\ limit \in Nat /\ at \in Nat
  BY <1>1, LoMembers DEF L!TypeOK, L!LoopsInBounds
<1>3. L!TypeOK' /\ L!LoopsInBounds'
  BY <1>1, <1>2 DEF L!TypeOK, L!LoopsInBounds
<1>4. /\ L!AppOK' /\ L!WorkCounted'
      /\ \A s \in L!Sources : L!Pending(s)' => L!Ahead(s) /\ s \in L!MaskOf(app)
  BY <1>1, LoStill
<1>5. ASSUME NEW s \in L!Sources, L!Pending(s)'
      PROVE  L!Ahead(s)'
  <2>1. L!Ahead(s) /\ s \in L!MaskOf(app) /\ s \in taken
    BY <1>4, <1>5 DEF L!Ahead
  <2>2. CASE s \in L!ExecuterSources
    <3>1. s \notin Watchers /\ s \notin Windows
      BY <2>2, LoopAssumption DEF L!ExecuterSources
    <3>2. PICK i \in at .. limit : app.executers.slots[i] = s[1]
      BY <2>1, <3>1 DEF L!Ahead
    <3> QED BY <1>1, <1>2, <3>2
  <2>3. CASE s \in Watchers
    <3>1. s \in L!Elements(app.watchers)
      BY <1>1, <2>1, <2>3, LoMask
    <3>2. \E i \in 1 .. app.watchers.len : app.watchers.slots[i] = s
      BY <3>1 DEF L!Elements
    <3>3. served = {}
      BY <1>1 DEF L!LoopsInBounds
    <3> QED BY <1>1, <2>1, <2>3, <3>2, <3>3 DEF L!Ahead
  <2> QED BY <1>1, <2>1, <2>2, <2>3 DEF L!Ahead, L!Sources
<1> QED BY <1>3, <1>4, <1>5, LoServes


\* There is one that is served, or none.
LEMMA LoOne ==
    ASSUME NEW w
    PROVE  /\ L!Cardinality({w}) <= 1 /\ L!Cardinality({}) <= 1
           /\ \A S \in SUBSET (Watchers \cup Windows) :
                 L!Cardinality(S) <= 1 /\ w \in S => S = {w}
<1>1. \A S : L!Cardinality(S) = Cardinality(S)
  BY DEF L!Cardinality, Cardinality
<1>2. Cardinality({w}) = 1 /\ Cardinality({}) = 0
  BY FS_EmptySet, FS_Singleton
<1>3. ASSUME NEW S \in SUBSET (Watchers \cup Windows), Cardinality(S) <= 1, w \in S
      PROVE  S = {w}
  <2>1. IsFiniteSet(Watchers \cup Windows)
    BY LoopAssumption, FS_Union
  <2>2. IsFiniteSet(S)
    BY <2>1, FS_Subset
  <2>3. Cardinality(S) \in Nat
    BY <2>2, FS_CardinalityType
  <2>4. Cardinality(S) # 0
    BY <1>3, <2>2, FS_EmptySet
  <2>5. Cardinality(S) = 1
    BY <1>3, <2>3, <2>4
  <2>6. \E x : S = {x}
    BY <2>2, <2>5, FS_Singleton
  <2> QED BY <1>3, <2>6
<1> QED BY <1>1, <1>2, <1>3

\* Where a callback for the one that is served leads.
LEMMA LoServed ==
    ASSUME L!Follows, pc \in {"watchers", "input"}, LoApp(app'), LessWork,
           UNCHANGED <<taken, at, limit, served, events>>, pc' \in {pc, "undefined"},
           crowd' = crowd \cup L!TooMany(app'.executers.len, app'.watchers.len, 0),
           Len(app'.watchers.slots) >= Len(app.watchers.slots),
           pc' = "watchers" => served \subseteq L!Elements(app'.watchers)
    PROVE  /\ L!TypeOK' /\ L!AppOK' /\ L!WorkCounted' /\ L!LoopsInBounds'
           /\ crowd \subseteq crowd'
           /\ \A s \in L!Sources : L!Pending(s)' =>
                 L!Pending(s) /\ L!Ahead(s) /\ s \in L!MaskOf(app) /\ s \in L!MaskOf(app')
<1>1. L!TypeOK /\ L!AppOK /\ L!WorkCounted /\ L!LoopsInBounds
  BY DEF L!Follows
<1>2. /\ app'.executers.len \in Nat /\ app'.watchers.len \in Nat
      /\ Len(app'.watchers.slots) \in Nat /\ Len(app.watchers.slots) \in Nat
      /\ L!Elements(app'.executers) \subseteq Executers
      /\ L!Elements(app'.watchers) \subseteq Watchers
      /\ L!ToSet(app'.windows) \subseteq Windows /\ app'.done \in BOOLEAN
  BY <1>1, LoMembers, LoAppOK
<1>3. /\ crowd' \subseteq {"executers", "watchers", "windows"} /\ crowd \subseteq crowd'
      /\ app'.executers.len > 2 => "executers" \in crowd'
      /\ app'.watchers.len > 2 => "watchers" \in crowd'
  BY <1>1, <1>2, LoCrowd DEF L!TypeOK
<1>4. /\ work' \in [L!Sources -> 0 .. MaxEvents] /\ loopSignals' \subseteq L!Sources
      /\ L!WorkCounted'
      /\ \A s \in L!Sources : L!Pending(s)' =>
            L!Pending(s) /\ s \in L!MaskOf(app) /\ s \in L!MaskOf(app')
  BY <1>1, <1>3, LoLess
<1>5. L!TypeOK'
  BY <1>1, <1>2, <1>3, <1>4 DEF L!TypeOK
<1>6. L!AppOK'
  BY LoAppOK
<1>7. L!LoopsInBounds'
  <2>1. limit \in Nat
    BY <1>1 DEF L!LoopsInBounds
  <2> QED BY <1>1, <1>2, <1>3, <2>1 DEF L!LoopsInBounds
<1>8. \A s \in L!Sources : L!Pending(s) => L!Ahead(s)
  BY DEF L!Follows
<1> QED BY <1>3, <1>4, <1>5, <1>6, <1>7, <1>8

LEMMA LoTake ==
    ASSUME L!Follows, L!TakeWatcher
    PROVE  L!Follows'
<1> DEFINE w == app.watchers.slots[at]
<1>1. /\ L!TypeOK /\ L!AppOK /\ L!LoopsInBounds /\ LoApp(app)
      /\ pc = "watchers" /\ at <= limit /\ served = {} /\ served' = {w}
      /\ w \in L!Elements(app.watchers)
      /\ UNCHANGED <<pc, app, loopSignals, taken, at, limit, work, events, crowd>>
  BY LoAppOK DEF L!Follows, L!TakeWatcher, L!WatcherAt
<1>2. limit \in Nat /\ at \in Nat /\ L!Elements(app.watchers) \subseteq Watchers
  BY <1>1, LoMembers DEF L!TypeOK, L!LoopsInBounds
<1> HIDE DEF w
<1>3. L!TypeOK' /\ L!LoopsInBounds'
  BY <1>1, <1>2, LoOne DEF L!TypeOK, L!LoopsInBounds
<1>4. /\ L!AppOK' /\ L!WorkCounted'
      /\ \A s \in L!Sources : L!Pending(s)' => L!Ahead(s) /\ s \in L!MaskOf(app)
  BY <1>1, LoStill
<1>5. ASSUME NEW s \in L!Sources, L!Pending(s)'
      PROVE  L!Ahead(s)'
  <2>1. L!Ahead(s) /\ s \in taken
    BY <1>4, <1>5 DEF L!Ahead
  <2>2. CASE s \in Watchers /\ s # w
    <3>1. s \notin Windows
      BY <2>2, LoopAssumption
    <3>2. PICK i \in at .. limit : app.watchers.slots[i] = s
      BY <1>1, <2>1, <2>2, <3>1 DEF L!Ahead
    <3>3. i > at
      BY <1>2, <2>2, <3>2 DEF w
    <3> QED BY <1>1, <2>1, <2>2, <3>2, <3>3 DEF L!Ahead
  <2>3. CASE s = w
    BY <1>1, <1>2, <2>1, <2>3 DEF L!Ahead
  <2>4. CASE s \notin Watchers
    BY <1>1, <2>1, <2>4 DEF L!Ahead
  <2> QED BY <2>2, <2>3, <2>4
<1> QED BY <1>3, <1>4, <1>5, LoServes

LEMMA LoChange ==
    ASSUME L!Follows, NEW w \in Watchers, L!Change(w)
    PROVE  L!Follows'
<1> DEFINE v == app.watchers
           u == app'.watchers
<1>1. /\ pc = "watchers" /\ w \in served /\ work[w] > 0
      /\ app' \in {app} \cup L!Launches(app) \cup L!Watches(app)
      /\ L!DroppedAnd(w)
      /\ pc' \in {pc, "undefined"} /\ (pc' = "watchers" => w \in L!Elements(u))
      /\ crowd' = crowd \cup L!TooMany(app'.executers.len, app'.watchers.len, 0)
      /\ UNCHANGED <<taken, at, limit, served, events>>
  BY DEF L!Change, L!Crowded
<1>2. /\ L!TypeOK /\ L!LoopsInBounds /\ LoApp(app) /\ L!IsVector(v, Watchers) /\ v.len \in Nat
      /\ Len(v.slots) \in Nat
  BY LoMembers, LoAppOK DEF L!Follows, LoApp
<1>3. served = {w} /\ w \in L!Elements(v)
  <2>1. served \subseteq Watchers \cup Windows /\ L!Cardinality(served) <= 1
        /\ served \subseteq L!Elements(v)
    BY <1>1, <1>2 DEF L!TypeOK, L!LoopsInBounds
  <2> QED BY <1>1, <2>1, LoOne
<1>4. LoApp(app') /\ (u = v \/ Rewatched(app, app'))
  BY <1>1, <1>2, LoLaunch, LoWatch DEF Launched, Rewatched
<1>5. ASSUME NEW x \in Watchers \ L!Elements(v), u = L!PushBack(v, x)
      PROVE  u.len = v.len + 1 /\ Len(u.slots) >= Len(v.slots)
  BY <1>2, <1>5, LoPush
<1>6. ASSUME NEW x \in L!Elements(v), u = L!Erase(v, x)
      PROVE  x \notin L!Elements(u) /\ Len(u.slots) = Len(v.slots)
  BY <1>2, <1>6, LoErase
<1>7. Len(u.slots) >= Len(v.slots)
  BY <1>2, <1>4, <1>5, <1>6 DEF Rewatched
<1>8. LessWork
  <2>1. w \in L!Sources
    BY DEF L!Sources
  <2> QED BY <1>1, <1>2, <2>1, LoDroppedAnd
<1>9. /\ L!TypeOK' /\ L!AppOK' /\ L!WorkCounted' /\ L!LoopsInBounds'
      /\ crowd \subseteq crowd'
      /\ \A s \in L!Sources : L!Pending(s)' =>
            L!Pending(s) /\ L!Ahead(s) /\ s \in L!MaskOf(app) /\ s \in L!MaskOf(app')
  BY <1>1, <1>3, <1>4, <1>7, <1>8, LoServed
<1>10. ASSUME NEW s \in L!Sources, L!Pending(s)', pc' = "watchers"
       PROVE  L!Ahead(s)'
  <2>1. L!Ahead(s) /\ s \in taken' /\ s \in L!MaskOf(app) /\ s \in L!MaskOf(app')
    BY <1>1, <1>9, <1>10 DEF L!Ahead
  <2>2. CASE s \in Watchers /\ s # w
    <3>1. s \in L!Elements(v) /\ s \in L!Elements(u)
      BY <1>2, <1>4, <2>1, <2>2, LoMask
    <3>2. "watchers" \notin crowd'
      BY <1>10, <2>2 DEF L!Pending, L!Excused
    <3>3. u.len <= 2 /\ v.len <= 2 /\ u.len \in Nat
      <4>1. u.len \in Nat
        BY <1>4, LoMembers
      <4> QED BY <1>2, <1>9, <3>2, <4>1 DEF L!LoopsInBounds
    <3>4. v.len >= 2 /\ \A z \in L!Elements(v) : z = w \/ z = s
      BY <1>2, <1>3, <2>2, <3>1, <3>3, LoFew
    <3>5. u = v
      BY <1>1, <1>2, <1>4, <1>5, <1>6, <1>10, <3>1, <3>3, <3>4 DEF Rewatched
    <3>6. s \notin Windows /\ s \notin served
      BY <1>3, <2>2, LoopAssumption
    <3>7. \E i \in at .. limit : app.watchers.slots[i] = s /\ (served # {} => i > at)
      BY <1>1, <2>1, <3>6 DEF L!Ahead
    <3> QED BY <1>1, <1>10, <2>1, <2>2, <3>5, <3>7 DEF L!Ahead
  <2>3. CASE s = w
    BY <1>1, <1>10, <2>1, <2>3 DEF L!Ahead
  <2>4. CASE s \notin Watchers
    BY <1>1, <1>10, <2>1, <2>4 DEF L!Ahead
  <2> QED BY <2>2, <2>3, <2>4
<1>11. pc' \notin {"returned", "undefined"} => pc' = "watchers"
  BY <1>1
<1> QED BY <1>9, <1>10, <1>11, LoServes


LEMMA LoNext ==
    ASSUME L!Follows, L!NextWatcher
    PROVE  L!Follows'
<1>1. /\ L!TypeOK /\ L!AppOK /\ L!LoopsInBounds /\ LoApp(app)
      /\ pc = "watchers" /\ at <= limit /\ at' = at + 1 /\ served' = {}
      /\ served = {} => app.watchers.slots[at] \notin taken \cap L!Elements(app.watchers)
      /\ \A w \in served : work[w] = 0
      /\ UNCHANGED <<pc, app, loopSignals, taken, limit, work, events, crowd>>
  BY LoAppOK DEF L!Follows, L!NextWatcher, L!WatcherAt
<1>2. limit \in Nat /\ at \in Nat /\ at' \in 1 .. 1 + limit'
  BY <1>1 DEF L!TypeOK, L!LoopsInBounds
<1>3. L!TypeOK' /\ L!LoopsInBounds'
  BY <1>1, <1>2, LoOne DEF L!TypeOK, L!LoopsInBounds
<1>4. /\ L!AppOK' /\ L!WorkCounted'
      /\ \A s \in L!Sources : L!Pending(s)' => L!Ahead(s) /\ s \in L!MaskOf(app)
  BY <1>1, LoStill
<1>5. ASSUME NEW s \in L!Sources, L!Pending(s)'
      PROVE  L!Ahead(s)'
  <2>1. L!Ahead(s) /\ s \in taken /\ s \in L!MaskOf(app) /\ s \notin served
    BY <1>1, <1>4, <1>5 DEF L!Ahead, L!Pending
  <2>2. CASE s \in Watchers
    <3>1. s \notin Windows /\ s \in L!Elements(app.watchers)
      BY <1>1, <2>1, <2>2, LoMask, LoopAssumption
    <3>2. PICK i \in at .. limit : app.watchers.slots[i] = s /\ (served # {} => i > at)
      BY <1>1, <2>1, <2>2, <3>1 DEF L!Ahead
    <3>3. i # at
      BY <1>1, <1>2, <2>1, <3>1, <3>2
    <3>4. i \in at' .. limit' /\ app'.watchers.slots[i] = s
      BY <1>1, <1>2, <3>2, <3>3
    <3> QED BY <1>1, <2>1, <2>2, <3>4 DEF L!Ahead
  <2>3. CASE s \notin Watchers
    BY <1>1, <2>1, <2>3 DEF L!Ahead
  <2> QED BY <2>2, <2>3
<1> QED BY <1>3, <1>4, <1>5, LoServes

LEMMA LoChoose ==
    ASSUME L!Follows, L!ChooseWindow
    PROVE  L!Follows'
<1> DEFINE lit == {i \in DOMAIN app.windows : app.windows[i] \in taken}
<1>1. /\ L!TypeOK /\ L!AppOK /\ L!LoopsInBounds /\ LoApp(app)
      /\ pc = "watchers" /\ at > limit
      /\ UNCHANGED <<app, loopSignals, taken, at, limit, work, events, crowd>>
  BY LoAppOK DEF L!Follows, L!ChooseWindow
<1>2. \/ lit = {} /\ pc' \in {"returned", "wait"} /\ served' = {}
      \/ \E i \in lit : pc' = "input" /\ served' = {app.windows[i]}
  BY DEF L!ChooseWindow, L!Again
<1> HIDE DEF lit
<1>3. limit \in Nat /\ at \in Nat /\ L!ToSet(app.windows) \subseteq Windows
  BY <1>1, LoMembers DEF L!TypeOK, L!LoopsInBounds
<1>4. \A i \in lit : app.windows[i] \in Windows /\ app.windows[i] \in taken
  BY <1>3 DEF lit, L!ToSet
<1>5. L!TypeOK' /\ L!LoopsInBounds'
  <2>1. L!Cardinality(served') <= 1 /\ served' \subseteq Watchers \cup Windows
    BY <1>2, <1>4, LoOne
  <2>2. pc' \in {"returned", "wait", "input"}
    BY <1>2
  <2> QED BY <1>1, <2>1, <2>2 DEF L!TypeOK, L!LoopsInBounds
<1>6. /\ L!AppOK' /\ L!WorkCounted'
      /\ \A s \in L!Sources : L!Pending(s)' => L!Ahead(s) /\ s \in L!MaskOf(app)
  BY <1>1, LoStill
<1>7. ASSUME NEW s \in L!Sources, L!Pending(s)'
      PROVE  L!Ahead(s)'
  <2>1. L!Ahead(s) /\ s \in L!MaskOf(app)
    BY <1>6, <1>7
  <2>2. served = {}
    BY <1>1, <1>3 DEF L!LoopsInBounds
  <2>3. s \in Windows /\ s \in taken
    BY <1>1, <1>3, <2>1, <2>2 DEF L!Ahead
  <2>4. \E i \in DOMAIN app.windows : app.windows[i] = s
    BY <1>1, <2>1, <2>3, LoMask DEF L!ToSet
  <2>5. lit # {}
    BY <2>3, <2>4 DEF lit
  <2>6. PICK i \in lit : pc' = "input" /\ served' = {app.windows[i]}
    BY <1>2, <2>5
  <2>7. "windows" \notin crowd
    BY <1>1, <1>7, <2>3 DEF L!Pending, L!Excused
  <2>8. s = app.windows[i]
    BY <1>1, <1>4, <2>3, <2>7 DEF L!LoopsInBounds
  <2> QED BY <1>1, <2>3, <2>6, <2>8 DEF L!Ahead
<1> QED BY <1>5, <1>6, <1>7, LoServes

LEMMA LoHandle ==
    ASSUME L!Follows, NEW n \in Windows, L!Handle(n)
    PROVE  L!Follows'
<1>1. /\ pc = "input" /\ pc' = pc /\ app' \in L!Commands(app, n)
      /\ L!DroppedAnd(n)
      /\ crowd' = crowd \cup L!TooMany(app'.executers.len, app'.watchers.len, 0)
      /\ UNCHANGED <<taken, at, limit, served, events>>
  BY DEF L!Handle, L!Crowded
<1>2. L!TypeOK /\ L!AppOK /\ L!WorkCounted /\ L!LoopsInBounds /\ LoApp(app)
  BY LoAppOK DEF L!Follows
<1>3. LoApp(app')
  BY <1>1, <1>2, LoCommand
<1>4. LessWork
  <2>1. n \in L!Sources
    BY DEF L!Sources
  <2> QED BY <1>1, <1>2, <2>1, LoDroppedAnd
<1>5. /\ app'.executers.len \in Nat /\ app'.watchers.len \in Nat
      /\ L!Elements(app'.executers) \subseteq Executers
      /\ L!Elements(app'.watchers) \subseteq Watchers
      /\ L!ToSet(app'.windows) \subseteq Windows /\ app'.done \in BOOLEAN
  BY <1>3, LoMembers
<1>6. /\ crowd' \subseteq {"executers", "watchers", "windows"} /\ crowd \subseteq crowd'
      /\ app'.executers.len > 2 => "executers" \in crowd'
      /\ app'.watchers.len > 2 => "watchers" \in crowd'
  BY <1>1, <1>2, <1>5, LoCrowd DEF L!TypeOK
<1>7. /\ work' \in [L!Sources -> 0 .. MaxEvents] /\ loopSignals' \subseteq L!Sources
      /\ L!WorkCounted'
      /\ \A s \in L!Sources : L!Pending(s)' => L!Pending(s)
  BY <1>1, <1>2, <1>4, <1>6, LoLess
<1>8. L!TypeOK' /\ L!AppOK'
  BY <1>1, <1>2, <1>3, <1>5, <1>6, <1>7, LoAppOK DEF L!TypeOK
<1>9. L!LoopsInBounds'
  BY <1>1, <1>2, <1>6 DEF L!LoopsInBounds
<1>10. \A s \in L!Sources : L!Pending(s)' => L!Ahead(s)'
  BY <1>1, <1>7 DEF L!Follows, L!Ahead
<1> QED BY <1>7, <1>8, <1>9, <1>10, LoServes

LEMMA LoLast ==
    ASSUME L!Follows, NEW n \in Windows, L!LastMessage(n)
    PROVE  L!Follows'
<1>1. /\ L!TypeOK /\ L!AppOK /\ L!LoopsInBounds /\ LoApp(app)
      /\ pc = "input" /\ n \in served
      /\ n \in L!ToSet(app.windows) => work[n] = 0
      /\ pc' \in {"returned", "wait"} /\ served' = {}
      /\ UNCHANGED <<app, loopSignals, taken, at, limit, work, events, crowd>>
  BY LoAppOK DEF L!Follows, L!LastMessage, L!Again
<1>2. served = {n}
  BY <1>1, LoOne DEF L!TypeOK
<1>3. L!TypeOK' /\ L!LoopsInBounds'
  BY <1>1, LoOne DEF L!TypeOK, L!LoopsInBounds
<1>4. /\ L!AppOK' /\ L!WorkCounted'
      /\ \A s \in L!Sources : L!Pending(s)' => L!Ahead(s) /\ s \in L!MaskOf(app)
  BY <1>1, LoStill
<1>5. ASSUME NEW s \in L!Sources, L!Pending(s)'
      PROVE  FALSE
  <2>1. s = n
    BY <1>1, <1>2, <1>4, <1>5 DEF L!Ahead
  <2>2. n \in L!ToSet(app.windows)
    BY <1>1, <1>4, <1>5, <2>1, LoMask
  <2> QED BY <1>1, <1>5, <2>1, <2>2 DEF L!Pending
<1> QED BY <1>3, <1>4, <1>5, LoServes

LEMMA LoInductive ==
    ASSUME L!Follows, L!Next \/ UNCHANGED ofLoop
    PROVE  L!Follows'
<1>1. CASE L!EndOfCommand
  BY <1>1, LoEnd
<1>2. CASE L!DataOfCommand
  BY <1>2, LoData
<1>3. CASE L!QuietExecuter
  BY <1>3, LoQuiet
<1>4. CASE L!AllExecuters
  BY <1>4, LoAll
<1>5. CASE L!TakeWatcher
  BY <1>5, LoTake
<1>6. CASE \E w \in Watchers : L!Change(w)
  BY <1>6, LoChange
<1>7. CASE L!NextWatcher
  BY <1>7, LoNext
<1>8. CASE L!ChooseWindow
  BY <1>8, LoChoose
<1>9. CASE \E n \in Windows : L!Handle(n) \/ L!LastMessage(n)
  BY <1>9, LoHandle, LoLast
<1>10. CASE \E s \in L!Sources : L!Event(s)
  BY <1>10, LoEvent
<1>11. CASE UNCHANGED ofLoop
  <2>1. UNCHANGED <<pc, app, loopSignals, taken, at, limit, served, work, events, crowd>>
    BY <1>11 DEF ofLoop
  <2>2. /\ L!AppOK' /\ L!WorkCounted'
        /\ pc \notin {"returned", "undefined"} =>
              \A s \in L!Sources : L!Pending(s)' => L!Ahead(s) /\ s \in L!MaskOf(app)
    BY <2>1, LoStill
  <2>3. L!TypeOK' /\ L!LoopsInBounds'
    BY <2>1 DEF L!Follows, L!TypeOK, L!LoopsInBounds
  <2>4. \A s \in L!Sources : L!Ahead(s) => L!Ahead(s)'
    BY <2>1 DEF L!Ahead
  <2> QED BY <2>1, <2>2, <2>3, <2>4, LoServes
<1> QED BY <1>1, <1>2, <1>3, <1>4, <1>5, <1>6, <1>7, <1>8, <1>9, <1>10, <1>11, LoStart
        DEF L!Next, L!Loop

LEMMA LoFound == ASSUME L!Init PROVE L!Follows
<1>1. PICK es \in SUBSET Executers, ws \in SUBSET Watchers, ns \in SUBSET Windows :
         app = [executers |-> L!Holding(es), watchers |-> L!Holding(ws),
                windows |-> L!SetToSeq(ns), done |-> FALSE]
  BY DEF L!Init
<1>2. /\ pc = "wait" /\ loopSignals = {} /\ taken = {} /\ at = 1 /\ limit = 0 /\ served = {}
      /\ work = [s \in L!Sources |-> 0] /\ events = 0
      /\ crowd = L!TooMany(app.executers.len, app.watchers.len, 0)
  BY DEF L!Init
<1>3. ASSUME NEW S, NEW T \in SUBSET S, IsFiniteSet(S)
      PROVE  L!Holding(T) \in [slots : Seq(S), len : Nat] /\ L!IsVector(L!Holding(T), S)
  <2> DEFINE q == L!SetToSeq(T)
             n == Cardinality(T)
             v == L!Holding(T)
  <2>1. IsFiniteSet(T)
    BY <1>3, FS_Subset
  <2>2. /\ q \in Seq(T) /\ Len(q) = n /\ n \in Nat
        /\ \A i, j \in 1 .. n : q[i] = q[j] => i = j
    BY <2>1, LoSetToSeq
  <2>3. v = [slots |-> q, len |-> n]
    <3>1. L!Cardinality(T) = n
      BY DEF L!Cardinality, Cardinality
    <3> QED BY <3>1 DEF L!Holding
  <2> HIDE DEF q, n, v
  <2>4. q \in Seq(S)
    BY <2>2
  <2>5. v \in [slots : Seq(S), len : Nat] /\ L!IsVector(v, S)
    BY <2>2, <2>3, <2>4 DEF L!IsVector
  <2> QED BY <2>5 DEF v
<1>4. L!SetToSeq(ns) \in Seq(Windows)
  <2> DEFINE q == L!SetToSeq(ns)
  <2>1. IsFiniteSet(ns)
    BY FS_Subset, LoopAssumption
  <2>2. q \in Seq(ns)
    BY <2>1, LoSetToSeq
  <2> HIDE DEF q
  <2>3. q \in Seq(Windows)
    BY <2>2
  <2> QED BY <2>3 DEF q
<1>5. LoApp(app)
  <2>1. /\ L!Holding(es) \in [slots : Seq(Executers), len : Nat]
        /\ L!IsVector(L!Holding(es), Executers)
        /\ L!Holding(ws) \in [slots : Seq(Watchers), len : Nat]
        /\ L!IsVector(L!Holding(ws), Watchers)
    BY <1>3, LoopAssumption
  <2> QED BY <1>1, <1>4, <2>1 DEF LoApp
<1>6. L!AppOK
  BY <1>5, LoAppOK
<1>7. /\ app.executers.len \in Nat /\ app.watchers.len \in Nat
      /\ L!Elements(app.executers) \subseteq Executers
      /\ L!Elements(app.watchers) \subseteq Watchers
      /\ L!ToSet(app.windows) \subseteq Windows /\ app.done \in BOOLEAN
  BY <1>5, LoMembers
<1>8. L!TypeOK
  <2>1. work \in [L!Sources -> 0 .. MaxEvents] /\ at \in 1 .. 1 + limit
    BY <1>2, LoopAssumption
  <2>2. crowd \subseteq {"executers", "watchers", "windows"}
    BY <1>2, <1>7, LoCrowd
  <2> QED BY <1>2, <1>7, <2>1, <2>2, LoOne DEF L!TypeOK
<1>9. L!WorkCounted
  BY <1>2, LoopAssumption DEF L!WorkCounted
<1>10. L!LoopsInBounds
  BY <1>2, <1>7, LoCrowd DEF L!LoopsInBounds
<1>11. \A s \in L!Sources : ~L!Pending(s)
  BY <1>2 DEF L!Pending
<1> QED BY <1>6, <1>8, <1>9, <1>10, <1>11 DEF L!Follows

LEMMA LoNothing == ASSUME L!Follows PROVE L!TypeOK /\ L!NothingForgotten
<1>1. ASSUME pc = "wait", NEW s \in L!Sources
      PROVE  ~L!Pending(s)
  BY <1>1 DEF L!Follows, L!Ahead
<1> QED BY <1>1 DEF L!Follows, L!NothingForgotten, L!Pending

--------------------------------------------------------------------------------
(***************************************************************************)
(* Input: the queues of the windows.                                       *)
(***************************************************************************)
OrderedWindows == I!Range(WindowOrder)

LEMMA InOrder ==
    /\ DOMAIN WindowOrder = {1, 2} /\ OrderedWindows = {FirstWindow, SecondWindow}
    /\ None \notin OrderedWindows
<1>1. DOMAIN WindowOrder = 1 .. 2
  BY DEF WindowOrder
<1>2. WindowOrder[1] = FirstWindow /\ WindowOrder[2] = SecondWindow
  BY DEF WindowOrder
<1> HIDE DEF WindowOrder
<1>3. DOMAIN WindowOrder = {1, 2}
  BY <1>1
<1>4. OrderedWindows = {FirstWindow, SecondWindow}
  BY <1>2, <1>3 DEF I!Range, OrderedWindows
<1> QED BY <1>3, <1>4, InputAssumption

\* What the invariant says, with the windows named.
LEMMA InFollows ==
    /\ I!Follows =>
          /\ I!TypeOK /\ queue \in [OrderedWindows -> Seq(I!Events)]
          /\ I!PressesEnd /\ I!PressedEnds /\ I!ClicksCounted
    /\ (/\ I!TypeOK' /\ queue' \in [OrderedWindows -> Seq(I!Events)]
        /\ I!PressesEnd' /\ I!PressedEnds' /\ I!ClicksCounted') => I!Follows'
    /\ I!TypeOK =>
          /\ active \in OrderedWindows \cup {None} /\ serving \in OrderedWindows \cup {None}
          /\ held \subseteq Keys /\ pressed \subseteq I!Modifiers /\ unheard \subseteq I!Modifiers
          /\ inputSignals \subseteq OrderedWindows /\ isActive \in BOOLEAN
          /\ click \in [spot : Spots, ago : {"long", "short"}]
          /\ inputs \in 0 .. MaxInputs
    /\ (/\ active' \in OrderedWindows \cup {None} /\ serving' \in OrderedWindows \cup {None}
        /\ held' \subseteq Keys /\ pressed' \subseteq I!Modifiers /\ unheard' \subseteq I!Modifiers
        /\ inputSignals' \subseteq OrderedWindows /\ isActive' \in BOOLEAN
        /\ click' \in [spot : Spots, ago : {"long", "short"}]
        /\ inputs' \in 0 .. MaxInputs) => I!TypeOK'
BY DEF I!Follows, I!TypeOK, OrderedWindows

\* An event has come at the end of the queue of w: what was in it stays.
Grown(w) ==
    /\ DOMAIN queue[w] \subseteq DOMAIN queue'[w]
    /\ \A i \in DOMAIN queue[w] : queue'[w][i] = queue[w][i]

Last(w, e) ==
    \E n \in DOMAIN queue'[w] :
        /\ queue'[w][n] = e
        /\ \A i \in DOMAIN queue[w] : n > i
        /\ n > 0
        /\ \A i \in DOMAIN queue'[w] : i \in DOMAIN queue[w] \/ i = n

Arrive(came) ==
    /\ DOMAIN came \subseteq OrderedWindows
    /\ \A w \in DOMAIN came : came[w] \in I!Events

LEMMA InCome ==
    ASSUME I!Follows, NEW came, Arrive(came), I!Come(came)
    PROVE  /\ queue' \in [OrderedWindows -> Seq(I!Events)]
           /\ inputSignals' \subseteq OrderedWindows /\ inputs' \in 0 .. MaxInputs
           /\ \A w \in OrderedWindows :
                 /\ Grown(w)
                 /\ IF w \in DOMAIN came THEN Last(w, came[w])
                    ELSE DOMAIN queue'[w] = DOMAIN queue[w]
<1>1. /\ queue \in [OrderedWindows -> Seq(I!Events)] /\ inputSignals \subseteq OrderedWindows
      /\ inputs \in 0 .. MaxInputs
  BY InFollows
<1>2. /\ inputs < MaxInputs /\ inputs' = inputs + 1
      /\ queue' = [w \in OrderedWindows |->
                     IF w \in DOMAIN came THEN Append(queue[w], came[w]) ELSE queue[w]]
      /\ inputSignals' = inputSignals \cup DOMAIN came
  BY DEF I!Come, OrderedWindows
<1>3. ASSUME NEW w \in OrderedWindows
      PROVE  /\ queue'[w] \in Seq(I!Events)
             /\ Grown(w)
             /\ IF w \in DOMAIN came THEN Last(w, came[w])
                ELSE DOMAIN queue'[w] = DOMAIN queue[w]
  <2> DEFINE q == queue[w]
             e == came[w]
             p == queue'[w]
  <2>1. q \in Seq(I!Events)
    BY <1>1
  <2>2. p = IF w \in DOMAIN came THEN Append(q, e) ELSE q
    BY <1>2
  <2>3. w \in DOMAIN came => e \in I!Events
    BY DEF Arrive
  <2> HIDE DEF q, e, p
  <2>4. Len(q) \in Nat /\ DOMAIN q = 1 .. Len(q)
    BY <2>1, LenProperties
  <2>5. CASE w \in DOMAIN came
    <3>1. /\ p \in Seq(I!Events) /\ Len(p) = Len(q) + 1
          /\ \A i \in 1 .. Len(q) : p[i] = q[i]
          /\ p[Len(q) + 1] = e
      BY <2>1, <2>2, <2>3, <2>5, AppendProperties
    <3>2. DOMAIN p = 1 .. Len(q) + 1
      BY <3>1, LenProperties
    <3>3. Grown(w)
      BY <2>4, <3>1, <3>2 DEF Grown, p, q
    <3>4. Last(w, e)
      <4>1. Len(q) + 1 \in DOMAIN p
        BY <2>4, <3>2
      <4>2. (\A i \in DOMAIN q : Len(q) + 1 > i) /\ Len(q) + 1 > 0
            /\ \A i \in DOMAIN p : i \in DOMAIN q \/ i = Len(q) + 1
        BY <2>4, <3>2
      <4> QED BY <3>1, <4>1, <4>2 DEF Last, p, q
    <3> QED BY <2>5, <3>1, <3>3, <3>4 DEF p, e
  <2>6. CASE w \notin DOMAIN came
    BY <2>1, <2>2, <2>6 DEF Grown, p, q
  <2> QED BY <2>5, <2>6
<1>4. queue' \in [OrderedWindows -> Seq(I!Events)]
  BY <1>2, <1>3
<1>5. inputs' \in 0 .. MaxInputs
  BY <1>1, <1>2, InputAssumption
<1> QED BY <1>1, <1>2, <1>3, <1>4, <1>5 DEF Arrive

\* Events come, and each key that was down in the active window is still down, or
\* is cleared by one of them.
LEMMA InKept ==
    ASSUME I!Follows, NEW came, Arrive(came), I!Come(came), pressed' = pressed, unheard' = unheard,
           active' \in OrderedWindows \cup {None},
           \A w \in DOMAIN came, m \in I!Modifiers :
              I!Sets(came[w], m) => w = active' /\ came[w].key \in held',
           \A k \in held : active \in OrderedWindows =>
              \/ active' = active /\ k \in held'
              \/ active \in DOMAIN came /\ I!Clears(came[active], MapsTo[k])
    PROVE  I!PressesEnd' /\ I!PressedEnds'
<1>1. \A w \in OrderedWindows :
         /\ Grown(w)
         /\ IF w \in DOMAIN came THEN Last(w, came[w])
            ELSE DOMAIN queue'[w] = DOMAIN queue[w]
  BY InCome
<1>2. \A w \in OrderedWindows : \A i, m : I!ClearedLater(w, i, m) => I!ClearedLater(w, i, m)'
  BY <1>1 DEF I!ClearedLater, I!Clears, Grown
<1>3. ASSUME NEW w \in DOMAIN came, NEW m, I!Clears(came[w], m), NEW i,
             i \in DOMAIN queue[w] \/ i = 0
      PROVE  I!ClearedLater(w, i, m)'
  <2>1. w \in OrderedWindows
    BY DEF Arrive
  <2>2. PICK n \in DOMAIN queue'[w] :
           queue'[w][n] = came[w] /\ n > 0 /\ \A j \in DOMAIN queue[w] : n > j
    BY <1>1, <2>1 DEF Last
  <2>3. n > i
    BY <1>3, <2>2
  <2> QED BY <1>3, <2>2, <2>3 DEF I!ClearedLater, I!Clears
<1>4. I!PressesEnd'
  <2> SUFFICES ASSUME NEW w \in OrderedWindows, NEW m \in I!Modifiers,
                      NEW i \in DOMAIN queue'[w], I!Sets(queue'[w][i], m)
               PROVE  (w = active' /\ queue'[w][i].key \in held') \/ I!ClearedLater(w, i, m)'
    BY DEF I!PressesEnd, I!Sets, OrderedWindows
  <2>1. CASE i \in DOMAIN queue[w]
    <3>1. queue'[w][i] = queue[w][i]
      BY <1>1, <2>1 DEF Grown
    <3> DEFINE k == queue[w][i].key
    <3>2. (w = active /\ k \in held) \/ I!ClearedLater(w, i, m)
      BY <2>1, <3>1 DEF I!Follows, I!PressesEnd, I!Sets, OrderedWindows
    <3>3. MapsTo[k] = m
      BY <3>1 DEF I!Sets
    <3> HIDE DEF k
    <3>4. CASE w = active /\ k \in held
      <4>1. \/ active' = active /\ k \in held'
            \/ w \in DOMAIN came /\ I!Clears(came[w], m)
        BY <3>3, <3>4
      <4> QED BY <1>3, <2>1, <3>1, <3>4, <4>1 DEF k
    <3> QED BY <1>2, <3>2, <3>4
  <2>2. CASE i \notin DOMAIN queue[w]
    <3>1. w \in DOMAIN came /\ queue'[w][i] = came[w]
      BY <1>1, <2>2 DEF Last
    <3> QED BY <3>1
  <2> QED BY <2>1, <2>2
<1>5. I!PressedEnds'
  <2> SUFFICES ASSUME NEW m \in pressed
               PROVE  \/ active' # None /\ m \in I!Held(held')
                      \/ m \in unheard
                      \/ \E w \in OrderedWindows : I!ClearedLater(w, 0, m)'
    BY DEF I!PressedEnds, I!Held, OrderedWindows
  <2>1. \/ active # None /\ m \in I!Held(held)
        \/ m \in unheard
        \/ \E w \in OrderedWindows : I!ClearedLater(w, 0, m)
    BY DEF I!Follows, I!PressedEnds, OrderedWindows
  <2>2. CASE active # None /\ m \in I!Held(held)
    <3>1. PICK k \in held : MapsTo[k] = m /\ m \in I!Modifiers
      BY <2>2 DEF I!Held
    <3>2. active \in OrderedWindows
      BY <2>2, InFollows
    <3>3. CASE active' = active /\ k \in held'
      BY <2>2, <3>1, <3>3 DEF I!Held
    <3>4. CASE active \in DOMAIN came /\ I!Clears(came[active], m)
      BY <1>3, <3>2, <3>4
    <3> QED BY <3>1, <3>2, <3>3, <3>4
  <2>3. CASE (\E w \in OrderedWindows : I!ClearedLater(w, 0, m)) \/ m \in unheard
    BY <1>2, <2>3
  <2> QED BY <2>1, <2>2, <2>3
<1> QED BY <1>4, <1>5


\* A step that takes and brings no event.
LEMMA InStill ==
    ASSUME I!Follows, UNCHANGED <<queue, pressed, unheard, active, held>>
    PROVE  /\ queue' \in [OrderedWindows -> Seq(I!Events)]
           /\ I!PressesEnd' /\ I!PressedEnds'
BY InFollows DEF I!PressesEnd, I!PressedEnds, I!ClearedLater, I!Clears, I!Sets, I!Held

LEMMA InActivate ==
    ASSUME I!Follows, NEW w \in OrderedWindows \cup {None}, I!Activate(w)
    PROVE  I!Follows'
<1> DEFINE came == [v \in {active, w} \ {None} |->
                         [kind |-> IF v = w THEN "active" ELSE "inactive"]]
<1>1. /\ w # active /\ active' = w /\ I!Come(came) /\ held' = held
      /\ UNCHANGED <<serving, pressed, isActive, click, unheard, called, presses>>
  BY DEF I!Activate, I!Untouched
<1>2. I!TypeOK /\ I!ClicksCounted /\ active \in OrderedWindows \cup {None}
  BY InFollows
<1>3. Arrive(came)
  <2>1. \A v \in {active, w} \ {None} : v \in OrderedWindows /\ came[v] \in I!Events
    BY <1>2 DEF I!Events
  <2> QED BY <2>1 DEF Arrive
<1>4. /\ \A v \in DOMAIN came, m \in I!Modifiers : ~I!Sets(came[v], m)
      /\ \A m : active \in OrderedWindows =>
                   active \in DOMAIN came /\ I!Clears(came[active], m)
  <2>1. \A v \in DOMAIN came : came[v].kind \in {"active", "inactive"}
    OBVIOUS
  <2>2. active \in OrderedWindows => active \in DOMAIN came /\ came[active].kind = "inactive"
    BY <1>1, InOrder
  <2> QED BY <2>1, <2>2 DEF I!Sets, I!Clears
<1> HIDE DEF came
<1>5. /\ queue' \in [OrderedWindows -> Seq(I!Events)]
      /\ inputSignals' \subseteq OrderedWindows /\ inputs' \in 0 .. MaxInputs
  BY <1>1, <1>3, InCome
<1>6. I!PressesEnd' /\ I!PressedEnds'
  BY <1>1, <1>3, <1>4, InKept
<1>7. I!ClicksCounted'
  BY <1>1, <1>2 DEF I!ClicksCounted
<1>8. I!TypeOK'
  BY <1>1, <1>2, <1>5, InFollows
<1> QED BY <1>5, <1>6, <1>7, <1>8, InFollows

LEMMA InKey ==
    ASSUME I!Follows, NEW k \in Keys, I!Key(k)
    PROVE  I!Follows'
<1> DEFINE e == [kind |-> "key", key |-> k, down |-> k \notin held, qualifier |-> I!Held(held')]
           came == [v \in {active} |-> e]
<1>1. /\ held' = IF k \in held THEN held \ {k} ELSE held \cup {k}
      /\ UNCHANGED <<active, serving, pressed, isActive, click, unheard, called, presses>>
  BY DEF I!Key, I!Untouched
<1>2. /\ I!TypeOK /\ I!ClicksCounted /\ active \in OrderedWindows \cup {None}
      /\ held \subseteq Keys
  BY InFollows
<1>3. held' \subseteq Keys
  BY <1>1, <1>2
<1>4. I!ClicksCounted'
  BY <1>1, <1>2 DEF I!ClicksCounted
<1>5. CASE active = None
  <2>1. UNCHANGED <<queue, inputSignals, inputs>>
    BY <1>5 DEF I!Key
  <2>2. queue' \in [OrderedWindows -> Seq(I!Events)]
    BY <2>1, InFollows
  <2>3. I!PressesEnd'
    <3> SUFFICES ASSUME NEW w \in OrderedWindows, NEW m \in I!Modifiers,
                        NEW i \in DOMAIN queue[w], I!Sets(queue[w][i], m)
                 PROVE  I!ClearedLater(w, i, m)'
      BY <2>1 DEF I!PressesEnd, I!Sets, OrderedWindows
    <3>1. w # active
      BY <1>5, InOrder
    <3>2. I!ClearedLater(w, i, m)
      BY <3>1 DEF I!Follows, I!PressesEnd, OrderedWindows
    <3> QED BY <2>1, <3>2 DEF I!ClearedLater, I!Clears
  <2>4. I!PressedEnds'
    BY <1>1, <1>5, <2>1 DEF I!Follows, I!PressedEnds, I!ClearedLater, I!Clears
  <2>5. I!TypeOK'
    BY <1>1, <1>2, <1>3, <2>1, InFollows
  <2> QED BY <1>4, <2>2, <2>3, <2>4, <2>5, InFollows
<1>6. CASE active # None
  <2>1. I!Come(came) /\ active \in OrderedWindows
    BY <1>2, <1>6 DEF I!Key
  <2>2. Arrive(came)
    <3>1. e \in I!Events
      BY DEF I!Events, I!Held
    <3> HIDE DEF e
    <3> QED BY <2>1, <3>1 DEF Arrive
  <2>3. \A v \in DOMAIN came, m \in I!Modifiers :
           I!Sets(came[v], m) => v = active' /\ came[v].key \in held'
    BY <1>1 DEF I!Sets
  <2>4. \A x \in held : x \in held' \/ (active \in DOMAIN came
                                          /\ I!Clears(came[active], MapsTo[x]))
    <3> SUFFICES ASSUME NEW x \in held, x \notin held'
                 PROVE  active \in DOMAIN came /\ I!Clears(came[active], MapsTo[x])
      OBVIOUS
    <3>1. x = k /\ k \in held
      BY <1>1
    <3>2. e.kind = "key" /\ ~e.down /\ e.key = x
      BY <3>1
    <3>3. active \in DOMAIN came /\ came[active] = e
      OBVIOUS
    <3> HIDE DEF e, came
    <3> QED BY <3>2, <3>3 DEF I!Clears
  <2> HIDE DEF came
  <2>5. /\ queue' \in [OrderedWindows -> Seq(I!Events)]
        /\ inputSignals' \subseteq OrderedWindows /\ inputs' \in 0 .. MaxInputs
    BY <2>1, <2>2, InCome
  <2>6. I!PressesEnd' /\ I!PressedEnds'
    BY <1>1, <1>2, <2>1, <2>2, <2>3, <2>4, InKept
  <2>7. I!TypeOK'
    BY <1>1, <1>2, <1>3, <2>5, InFollows
  <2> QED BY <1>4, <2>5, <2>6, <2>7, InFollows
<1> QED BY <1>5, <1>6

LEMMA InButton ==
    ASSUME I!Follows, NEW spot \in Spots, NEW down \in BOOLEAN, I!Button(spot, down)
    PROVE  I!Follows'
<1> DEFINE e == [kind |-> "button", spot |-> spot, down |-> down]
           came == [v \in {active} |-> e]
<1>1. /\ active # None /\ I!Come(came)
      /\ UNCHANGED <<active, held, serving, pressed, isActive, click, unheard, called, presses>>
  BY DEF I!Button, I!Untouched
<1>2. /\ I!TypeOK /\ I!ClicksCounted /\ active \in OrderedWindows
  BY <1>1, InFollows
<1>3. Arrive(came)
  <2>1. e \in I!Events
    BY DEF I!Events
  <2> HIDE DEF e
  <2> QED BY <1>2, <2>1 DEF Arrive
<1>4. \A v \in DOMAIN came, m \in I!Modifiers : ~I!Sets(came[v], m)
  BY DEF I!Sets
<1> HIDE DEF came
<1>5. /\ queue' \in [OrderedWindows -> Seq(I!Events)]
      /\ inputSignals' \subseteq OrderedWindows /\ inputs' \in 0 .. MaxInputs
  BY <1>1, <1>3, InCome
<1>6. I!PressesEnd' /\ I!PressedEnds'
  BY <1>1, <1>2, <1>3, <1>4, InKept
<1>7. I!ClicksCounted'
  BY <1>1, <1>2 DEF I!ClicksCounted
<1>8. I!TypeOK'
  BY <1>1, <1>2, <1>5, InFollows
<1> QED BY <1>5, <1>6, <1>7, <1>8, InFollows

LEMMA InTime ==
    ASSUME I!Follows, I!TimePasses
    PROVE  I!Follows'
<1>1. /\ click' = [click EXCEPT !.ago = "long"]
      /\ UNCHANGED <<active, held, queue, inputSignals, serving, pressed, isActive, unheard,
                     presses, inputs>>
  BY DEF I!TimePasses
<1>2. /\ I!TypeOK /\ I!ClicksCounted /\ click \in [spot : Spots, ago : {"long", "short"}]
  BY InFollows
<1>3. click' \in [spot : Spots, ago : {"long", "short"}] /\ click'.ago = "long"
  BY <1>1, <1>2
<1>4. I!ClicksCounted'
  BY <1>1, <1>2, <1>3 DEF I!ClicksCounted
<1>5. I!TypeOK'
  BY <1>1, <1>2, <1>3, InFollows
<1> QED BY <1>1, <1>4, <1>5, InStill, InFollows

LEMMA InWait ==
    ASSUME I!Follows, I!Wait
    PROVE  I!Follows'
<1> DEFINE First(i) == /\ WindowOrder[i] \in inputSignals
                       /\ \A j \in 1 .. i - 1 : WindowOrder[j] \notin inputSignals
           i == CHOOSE i \in DOMAIN WindowOrder : First(i)
<1>1. /\ inputSignals # {} /\ serving' = WindowOrder[i] /\ inputSignals' = {}
      /\ UNCHANGED <<active, held, queue, pressed, isActive, click, unheard,
                     presses, inputs>>
  BY DEF I!Wait
<1>2. /\ I!TypeOK /\ I!ClicksCounted /\ inputSignals \subseteq OrderedWindows
  BY InFollows
<1>3. WindowOrder[1] = FirstWindow /\ WindowOrder[2] = SecondWindow
  BY DEF WindowOrder
<1>4. \E j \in DOMAIN WindowOrder : First(j)
  <2>1. CASE FirstWindow \in inputSignals
    <3>1. First(1)
      BY <1>3, <2>1
    <3> QED BY <3>1, InOrder
  <2>2. CASE FirstWindow \notin inputSignals
    <3>1. SecondWindow \in inputSignals
      BY <1>1, <1>2, <2>2, InOrder
    <3>2. First(2)
      BY <1>3, <2>2, <3>1
    <3> QED BY <3>2, InOrder
  <2> QED BY <2>1, <2>2
<1>5. i \in DOMAIN WindowOrder
  BY <1>4
<1>6. serving' \in OrderedWindows
  <2> HIDE DEF i
  <2>1. i = 1 \/ i = 2
    BY <1>5, InOrder
  <2> QED BY <1>1, <1>3, <2>1, InOrder
<1>7. I!ClicksCounted'
  BY <1>1, <1>2 DEF I!ClicksCounted
<1>8. I!TypeOK'
  BY <1>1, <1>2, <1>6, InFollows
<1> QED BY <1>1, <1>7, <1>8, InStill, InFollows

LEMMA InLast ==
    ASSUME I!Follows, I!LastMessage \/ UNCHANGED ofInput
    PROVE  I!Follows'
<1>1. /\ serving' = None \/ serving' = serving
      /\ UNCHANGED <<active, held, queue, inputSignals, pressed, isActive, click, unheard,
                     presses, inputs>>
  BY DEF I!LastMessage, ofInput
<1>2. I!TypeOK /\ I!ClicksCounted
  BY InFollows
<1>3. I!ClicksCounted'
  BY <1>1, <1>2 DEF I!ClicksCounted
<1>4. I!TypeOK'
  BY <1>1, <1>2, InFollows
<1> QED BY <1>1, <1>3, <1>4, InStill, InFollows


\* Taking the event e sets no modifier but one that e sets, and clears those that
\* e clears; a press counts once.
StillSet(e, m) == m \in pressed /\ m \notin unheard /\ ~I!Clears(e, m)

LEMMA InTaken ==
    ASSUME I!Follows, NEW e \in I!Events,
           CASE e.kind \in {"active", "inactive"} -> I!Activated(e)
             [] e.kind = "button"                 -> I!MouseButtons(e)
             [] e.kind = "key"                    -> I!RawKey(e)
    PROVE  /\ pressed' \subseteq I!Modifiers /\ unheard' \subseteq I!Modifiers
           /\ isActive' \in BOOLEAN
           /\ click' \in [spot : Spots, ago : {"long", "short"}]
           /\ I!ClicksCounted'
           /\ \A m \in pressed' : I!Sets(e, m) \/ m \in unheard' \/ StillSet(e, m)
<1>1. /\ I!ClicksCounted /\ pressed \subseteq I!Modifiers /\ isActive \in BOOLEAN
      /\ unheard \subseteq I!Modifiers
      /\ click \in [spot : Spots, ago : {"long", "short"}]
  BY InFollows
<1>2. CASE e.kind \in {"active", "inactive"}
  <2>1. /\ isActive' = (e.kind = "active")
        /\ pressed' = IF e.kind = "active" THEN pressed ELSE {}
        /\ unheard' = IF e.kind = "active" THEN unheard ELSE {}
        /\ UNCHANGED <<click, presses>>
    BY <1>2 DEF I!Activated
  <2>2. I!ClicksCounted'
    BY <1>1, <2>1 DEF I!ClicksCounted
  <2>3. \A m \in pressed' : m \in unheard' \/ StillSet(e, m)
    BY <1>2, <2>1 DEF I!Clears, StillSet
  <2>4. isActive' \in BOOLEAN /\ pressed' \subseteq I!Modifiers /\ unheard' \subseteq I!Modifiers
    BY <1>1, <2>1
  <2> QED BY <1>1, <2>1, <2>2, <2>3, <2>4
<1>3. CASE e.kind = "button"
  <2>1. I!MouseButtons(e)
    BY <1>3
  <2>2. UNCHANGED <<pressed, isActive, unheard>>
    BY <2>1 DEF I!MouseButtons
  <2>3. \A m \in pressed' : m \in unheard' \/ StillSet(e, m)
    BY <1>3, <2>2 DEF I!Clears, StillSet
  <2>4. e.spot \in Spots /\ e.down \in BOOLEAN
    BY <1>3 DEF I!Events
  <2> DEFINE double == e.down /\ e.spot = click.spot /\ click.ago = "short"
  <2>5. CASE UNCHANGED <<click, presses>>
    <3>1. I!ClicksCounted'
      BY <1>1, <2>5 DEF I!ClicksCounted
    <3> QED BY <1>1, <2>2, <2>3, <2>5, <3>1
  <2>6. CASE ~UNCHANGED <<click, presses>>
    <3>1. /\ click' = [spot |-> IF double THEN click.spot ELSE e.spot,
                       ago  |-> IF double THEN "long" ELSE IF e.down THEN "short" ELSE click.ago]
          /\ presses' = IF double THEN [presses EXCEPT !.double = @ + 1]
                        ELSE IF e.down THEN [presses EXCEPT !.single = @ + 1] ELSE presses
      BY <2>1, <2>6 DEF I!MouseButtons
    <3>2. /\ presses \in [single : Nat, double : Nat]
          /\ presses.double <= presses.single
          /\ click.ago = "short" => presses.double < presses.single
      BY <1>1 DEF I!ClicksCounted
    <3>3. click' \in [spot : Spots, ago : {"long", "short"}]
      BY <1>1, <2>4, <3>1
    <3>4. CASE double
      <4>1. click'.ago = "long" /\ presses' = [presses EXCEPT !.double = @ + 1]
        BY <3>1, <3>4
      <4>2. presses' \in [single : Nat, double : Nat] /\ presses'.double <= presses'.single
        BY <3>2, <3>4, <4>1
      <4>3. I!ClicksCounted'
        BY <4>1, <4>2 DEF I!ClicksCounted
      <4> QED BY <1>1, <2>2, <2>3, <3>3, <4>3
    <3>5. CASE ~double /\ e.down
      <4>1. presses' = [presses EXCEPT !.single = @ + 1]
        BY <3>1, <3>5
      <4>2. presses' \in [single : Nat, double : Nat] /\ presses'.double < presses'.single
        BY <3>2, <4>1
      <4>3. I!ClicksCounted'
        BY <4>2 DEF I!ClicksCounted
      <4> QED BY <1>1, <2>2, <2>3, <3>3, <4>3
    <3>6. CASE ~double /\ ~e.down
      <4>1. presses' = presses /\ click'.ago = click.ago
        BY <3>1, <3>6
      <4>2. I!ClicksCounted'
        BY <3>2, <4>1 DEF I!ClicksCounted
      <4> QED BY <1>1, <2>2, <2>3, <3>3, <4>2
    <3> QED BY <3>4, <3>5, <3>6
  <2> QED BY <2>5, <2>6
<1>4. CASE e.kind = "key"
  <2> DEFINE k == MapsTo[e.key]
  <2>1. /\ \/ k \in {"char", "wheel"} /\ I!OtherKey(e)
           \/ k \notin {"char", "wheel"} /\ I!MappedKey(e)
           \/ I!LostKey(e)
        /\ UNCHANGED <<isActive, click, presses>>
    BY <1>4 DEF I!RawKey
  <2>2. I!ClicksCounted'
    BY <1>1, <2>1 DEF I!ClicksCounted
  <2>3. e.down \in BOOLEAN
    BY <1>4 DEF I!Events
  <2>4. CASE k \in {"char", "wheel"} /\ I!OtherKey(e)
    <3>1. pressed' = pressed /\ unheard' = unheard
      BY <2>4 DEF I!OtherKey
    <3>2. \A m \in I!Modifiers : ~I!Clears(e, m)
      BY <1>4, <2>4 DEF I!Clears, I!Modifiers
    <3> QED BY <1>1, <2>1, <2>2, <3>1, <3>2 DEF StillSet
  <2>5. CASE I!MappedKey(e)
    <3>1. /\ pressed' = IF k \notin I!Modifiers THEN pressed
                        ELSE IF e.down THEN pressed \cup {k} ELSE pressed \ {k}
          /\ unheard' = unheard \ {k}
      BY <2>5 DEF I!MappedKey
    <3>2. pressed' \subseteq I!Modifiers /\ unheard' \subseteq I!Modifiers
      BY <1>1, <3>1
    <3>3. \A m \in pressed' : I!Sets(e, m) \/ m \in unheard' \/ StillSet(e, m)
      BY <1>1, <1>4, <2>3, <3>1 DEF I!Sets, I!Clears, StillSet
    <3> QED BY <1>1, <2>1, <2>2, <3>2, <3>3
  <2>6. CASE I!LostKey(e)
    <3>1. pressed' = pressed
          /\ unheard' = IF e.down THEN unheard ELSE unheard \cup ({k} \cap I!Modifiers)
      BY <2>6 DEF I!LostKey
    <3>2. \A m \in pressed' : m \in unheard' \/ StillSet(e, m)
      BY <1>1, <1>4, <2>3, <3>1 DEF I!Clears, StillSet
    <3> QED BY <1>1, <2>1, <2>2, <3>1, <3>2
  <2> QED BY <2>1, <2>4, <2>5, <2>6
<1>5. e.kind \in {"active", "inactive"} \/ e.kind = "button" \/ e.kind = "key"
  BY DEF I!Events
<1> QED BY <1>2, <1>3, <1>4, <1>5

LEMMA InHandle ==
    ASSUME I!Follows, I!HandleInput
    PROVE  I!Follows'
<1> DEFINE q == queue[serving]
           e == Head(q)
           p == queue'[serving]
<1>1. /\ serving # None /\ q # <<>>
      /\ queue' = [queue EXCEPT ![serving] = Tail(q)]
      /\ UNCHANGED <<active, held, inputSignals, serving, inputs>>
      /\ CASE e.kind \in {"active", "inactive"} -> I!Activated(e)
           [] e.kind = "button"                 -> I!MouseButtons(e)
           [] e.kind = "key"                    -> I!RawKey(e)
  BY DEF I!HandleInput
<1>2. /\ I!TypeOK /\ queue \in [OrderedWindows -> Seq(I!Events)] /\ serving \in OrderedWindows
  BY <1>1, InFollows
<1>3. q \in Seq(I!Events) /\ p = Tail(q)
  BY <1>1, <1>2
<1>4. \A w \in OrderedWindows : w # serving => queue'[w] = queue[w]
  BY <1>1, <1>2
<1> HIDE DEF q, p
<1>5. /\ e \in I!Events /\ e = q[1] /\ 1 \in DOMAIN q
      /\ p \in Seq(I!Events)
      /\ \A i \in DOMAIN p : i \in Nat /\ i > 0 /\ i + 1 \in DOMAIN q /\ p[i] = q[i + 1]
      /\ \A i \in DOMAIN q : i \in Nat /\ (i > 1 => i - 1 \in DOMAIN p /\ p[i - 1] = q[i])
                             /\ i > 0
  <2>1. /\ Len(q) \in Nat /\ Len(q) # 0 /\ DOMAIN q = 1 .. Len(q)
        /\ \A i \in 1 .. Len(q) : q[i] \in I!Events
    BY <1>1, <1>3, LenProperties, EmptySeq, ElementOfSeq
  <2>2. /\ e = q[1] /\ Tail(q) \in Seq(I!Events) /\ Len(Tail(q)) = Len(q) - 1
        /\ \A i \in 1 .. Len(Tail(q)) : Tail(q)[i] = q[i + 1]
    BY <1>1, <1>3, HeadTailProperties
  <2>3. DOMAIN p = 1 .. Len(q) - 1
    BY <1>3, <2>2, LenProperties
  <2> QED BY <1>3, <2>1, <2>2, <2>3
<1> HIDE DEF e
<1>6. /\ pressed' \subseteq I!Modifiers /\ unheard' \subseteq I!Modifiers /\ isActive' \in BOOLEAN
      /\ click' \in [spot : Spots, ago : {"long", "short"}]
      /\ I!ClicksCounted'
      /\ \A m \in pressed' : I!Sets(e, m) \/ m \in unheard' \/ StillSet(e, m)
  BY <1>1, <1>5, InTaken
<1>7. queue' \in [OrderedWindows -> Seq(I!Events)]
  BY <1>1, <1>2, <1>3, <1>5
\* What clears m further behind still does.
<1>8. ASSUME NEW w, w = serving, NEW i \in Nat, NEW m, I!ClearedLater(w, i + 1, m)
      PROVE  I!ClearedLater(w, i, m)'
  <2>1. PICK j \in DOMAIN q : j > i + 1 /\ I!Clears(q[j], m)
    BY <1>8 DEF I!ClearedLater, q
  <2>2. j - 1 \in DOMAIN p /\ p[j - 1] = q[j] /\ j - 1 > i
    BY <1>5, <2>1
  <2> QED BY <1>1, <1>8, <2>1, <2>2 DEF I!ClearedLater, I!Clears, p
<1>9. \A w \in OrderedWindows : \A i, m :
         w # serving /\ I!ClearedLater(w, i, m) => I!ClearedLater(w, i, m)'
  BY <1>4 DEF I!ClearedLater, I!Clears
<1>10. I!PressesEnd'
  <2> SUFFICES ASSUME NEW w \in OrderedWindows, NEW m \in I!Modifiers,
                      NEW i \in DOMAIN queue'[w], I!Sets(queue'[w][i], m)
               PROVE  (w = active /\ queue'[w][i].key \in held) \/ I!ClearedLater(w, i, m)'
    BY <1>1 DEF I!PressesEnd, I!Sets, OrderedWindows
  <2>1. CASE w # serving
    <3>1. (w = active /\ queue[w][i].key \in held) \/ I!ClearedLater(w, i, m)
      BY <1>4, <2>1 DEF I!Follows, I!PressesEnd, I!Sets, OrderedWindows
    <3> QED BY <1>4, <1>9, <2>1, <3>1
  <2>2. CASE w = serving
    <3>1. i \in Nat /\ i + 1 \in DOMAIN q /\ p[i] = q[i + 1]
      BY <1>5, <2>2 DEF p
    <3>2. (w = active /\ q[i + 1].key \in held) \/ I!ClearedLater(w, i + 1, m)
      BY <2>2, <3>1 DEF I!Follows, I!PressesEnd, I!Sets, OrderedWindows, p, q
    <3> QED BY <1>8, <2>2, <3>1, <3>2 DEF p
  <2> QED BY <2>1, <2>2
<1>11. I!PressedEnds'
  <2> SUFFICES ASSUME NEW m \in pressed'
               PROVE  \/ active # None /\ m \in I!Held(held)
                      \/ m \in unheard'
                      \/ \E w \in OrderedWindows : I!ClearedLater(w, 0, m)'
    BY <1>1 DEF I!PressedEnds, I!Held, OrderedWindows
  <2>1. CASE I!Sets(e, m)
    <3>1. (serving = active /\ q[1].key \in held) \/ I!ClearedLater(serving, 1, m)
      <4>1. m \in I!Modifiers /\ I!Sets(q[1], m)
        BY <1>5, <1>6, <2>1
      <4> QED BY <1>2, <1>5, <4>1 DEF I!Follows, I!PressesEnd, OrderedWindows, q
    <3>2. MapsTo[q[1].key] = m /\ m \in I!Modifiers
      BY <1>5, <1>6, <2>1 DEF I!Sets
    <3>3. ASSUME I!ClearedLater(serving, 1, m)
          PROVE  I!ClearedLater(serving, 0, m)'
      <4>1. PICK j \in DOMAIN q : j > 1 /\ I!Clears(q[j], m)
        BY <3>3 DEF I!ClearedLater, q
      <4>2. j - 1 \in DOMAIN p /\ p[j - 1] = q[j] /\ j - 1 > 0
        BY <1>5, <4>1
      <4> QED BY <1>1, <4>1, <4>2 DEF I!ClearedLater, I!Clears, p
    <3> QED BY <1>1, <1>2, <3>1, <3>2, <3>3 DEF I!Held
  <2>2. CASE StillSet(e, m)
    <3>0. m \in pressed /\ m \notin unheard /\ ~I!Clears(e, m)
      BY <2>2 DEF StillSet
    <3>1. \/ active # None /\ m \in I!Held(held)
          \/ \E w \in OrderedWindows : I!ClearedLater(w, 0, m)
      BY <3>0 DEF I!Follows, I!PressedEnds, OrderedWindows
    <3>2. ASSUME NEW w \in OrderedWindows, I!ClearedLater(w, 0, m)
          PROVE  I!ClearedLater(w, 0, m)'
      <4>1. CASE w # serving
        BY <1>9, <3>2, <4>1
      <4>2. CASE w = serving
        <5>1. PICK j \in DOMAIN q : j > 0 /\ I!Clears(q[j], m)
          BY <3>2, <4>2 DEF I!ClearedLater, q
        <5>2. j # 1 /\ j \in Nat
          BY <1>5, <3>0, <5>1
        <5>3. j > 0 + 1
          BY <5>1, <5>2
        <5>4. I!ClearedLater(w, 0 + 1, m)
          BY <4>2, <5>1, <5>3 DEF I!ClearedLater, q
        <5> QED BY <1>8, <4>2, <5>4
      <4> QED BY <4>1, <4>2
    <3> QED BY <3>1, <3>2
  <2> QED BY <1>6, <2>1, <2>2
<1>12. I!TypeOK'
  BY <1>1, <1>2, <1>6, InFollows
<1> QED BY <1>6, <1>7, <1>10, <1>11, <1>12, InFollows

LEMMA InInductive ==
    ASSUME I!Follows, I!Next \/ UNCHANGED ofInput
    PROVE  I!Follows'
BY InActivate, InKey, InButton, InTime, InWait, InLast, InHandle DEF I!Next, OrderedWindows

LEMMA InFirst == ASSUME I!Init PROVE I!Follows
<1>1. /\ active = None /\ held = {} /\ queue = [w \in OrderedWindows |-> <<>>]
      /\ inputSignals = {} /\ serving = None /\ pressed = {} /\ isActive = FALSE /\ unheard = {}
      /\ click = [spot |-> 0, ago |-> "long"] /\ presses = [single |-> 0, double |-> 0]
      /\ inputs = 0
  BY DEF I!Init, OrderedWindows
<1>2. queue \in [OrderedWindows -> Seq(I!Events)]
  BY <1>1
<1>3. \A w \in OrderedWindows : DOMAIN queue[w] = {}
  BY <1>1
<1>4. I!PressesEnd /\ I!PressedEnds
  BY <1>1, <1>3 DEF I!PressesEnd, I!PressedEnds, OrderedWindows
<1>5. I!ClicksCounted
  BY <1>1 DEF I!ClicksCounted
<1>6. I!TypeOK
  <2>1. click \in [spot : Spots, ago : {"long", "short"}] /\ inputs \in 0 .. MaxInputs
    BY <1>1, InputAssumption
  <2> QED BY <1>1, <2>1 DEF I!TypeOK, OrderedWindows
<1> QED BY <1>2, <1>4, <1>5, <1>6 DEF I!Follows, OrderedWindows

LEMMA InHeld == ASSUME I!Follows PROVE I!TypeOK /\ I!ModifiersAreHeld /\ I!PairsAreApart
<1>1. ASSUME I!Taken, NEW m \in pressed
      PROVE  m \in I!Held(held) \/ m \in unheard
  <2>1. \A w \in OrderedWindows : DOMAIN queue[w] = {}
    BY <1>1 DEF I!Taken, OrderedWindows
  <2> QED BY <2>1 DEF I!Follows, I!PressedEnds, I!ClearedLater, OrderedWindows
<1> QED BY <1>1 DEF I!Follows, I!ClicksCounted, I!ModifiersAreHeld, I!PairsAreApart

--------------------------------------------------------------------------------
(***************************************************************************)
(* The parts together: one runs, and its inductive invariant holds.        *)
(***************************************************************************)
CommandsFollow == part = "commands" => X!Follows

LoopFollows == part = "loop" => L!Follows

InputFollows == part = "input" => I!Follows

\* RStdExecuter, for any number of requests and any amount of output: a callback is
\* given the output of its own command, in order and whole, and at most one end, and
\* nothing the system gave for a command outlives it.  On Amiga OS, where the exit
\* function signals through what the object holds by then, that end may be that of an
\* earlier command which has exited, and nothing else may be another's.  On Qt and
\* Windows this is until a client asks an object that is in use.
THEOREM CommandsStayApart == AllSpec => []CommandsAreKeptApart
<1>1. AllInit => CommandsFollow
  BY ExFollowsInit DEF AllInit, CommandsFollow
<1>2. CommandsFollow /\ [AllNext]_all => CommandsFollow'
  <2> SUFFICES ASSUME CommandsFollow, [AllNext]_all, part' = "commands"
               PROVE  X!Follows'
    BY DEF CommandsFollow
  <2>1. CASE UNCHANGED all
    BY <2>1, ExFollowsStutter DEF all, CommandsFollow
  <2>2. CASE AllNext
    BY <2>2, ExFollowsNext DEF AllNext, CommandsFollow
  <2> QED BY <2>1, <2>2
<1>3. CommandsFollow => CommandsAreKeptApart
  BY ExApart DEF CommandsFollow, CommandsAreKeptApart
<1> QED BY <1>1, <1>2, <1>3, PTL DEF AllSpec

\* RApplication::Main(): with any number of executers, watchers and windows, whatever
\* their callbacks add and remove, the loop waits only when each event that has come
\* was handled, dropped with its object or is signalled, or its source is among those
\* passed over; no modifier key stays set that is not held, unless its release could
\* not be read, for any keys, windows and number of events; and there are no more
\* double clicks than clicks.
THEOREM EventsDoArrive == AllSpec => []EventsAreServed
<1>1. AllInit => LoopFollows /\ InputFollows
  <2>1. AllInit /\ part = "loop" => L!Follows
    BY LoFound DEF AllInit
  <2>2. AllInit /\ part = "input" => I!Follows
    BY InFirst DEF AllInit
  <2> QED BY <2>1, <2>2 DEF LoopFollows, InputFollows
<1>2. LoopFollows /\ [AllNext]_all => LoopFollows'
  <2> SUFFICES ASSUME LoopFollows, [AllNext]_all, part' = "loop"
               PROVE  L!Follows'
    BY DEF LoopFollows
  <2>1. CASE UNCHANGED all
    BY <2>1, LoInductive DEF all, LoopFollows
  <2>2. CASE AllNext
    BY <2>2, LoInductive DEF AllNext, LoopFollows
  <2> QED BY <2>1, <2>2
<1>3. InputFollows /\ [AllNext]_all => InputFollows'
  <2> SUFFICES ASSUME InputFollows, [AllNext]_all, part' = "input"
               PROVE  I!Follows'
    BY DEF InputFollows
  <2>1. CASE UNCHANGED all
    BY <2>1, InInductive DEF all, InputFollows
  <2>2. CASE AllNext
    BY <2>2, InInductive DEF AllNext, InputFollows
  <2> QED BY <2>1, <2>2
<1>4. LoopFollows /\ InputFollows => EventsAreServed
  <2>1. CASE part = "loop"
    BY <2>1, LoNothing DEF LoopFollows, EventsAreServed
  <2>2. CASE part = "input"
    BY <2>2, InHeld DEF InputFollows, EventsAreServed
  <2>3. CASE part \notin {"loop", "input"}
    BY <2>3 DEF EventsAreServed
  <2> QED BY <2>1, <2>2, <2>3
<1> QED BY <1>1, <1>2, <1>3, <1>4, PTL DEF AllSpec
================================================================================
