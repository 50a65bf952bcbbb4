-------------------------- MODULE LifecycleProofs --------------------------
(***************************************************************************)
(* The root side of the gateway for any administrators' shells, commands,  *)
(* device lists and disturbances: the shared state keeps its shape         *)
(* whatever scripts run next to each other, and every script consists of   *)
(* commands the model gives a meaning, however it was cut short.           *)
(***************************************************************************)
EXTENDS Lifecycle, SequenceTheorems, WellFoundedInduction, TLAPS

(* The commands of the scripts. *)
Plain == {"validate", "available", "expect", "mktemp", "resolve", "targetsReady", "setsReady",
          "syncMonitor", "fail", "exit", "ret", "unlock", "kill", "ifStartEnabled", "ensureSets",
          "fw4Reload", "prepare", "register", "applyIfReady", "ifReloadEnabled", "disabled",
          "controlReload", "activate", "wait", "loop", "requests", "runOnce", "ifHealthy",
          "ifBypass", "reloadFw4", "refresh", "recheck", "applyPolicy"}
Caught == {"nothing", "apply", "refresh", "bypass", "request", "verify", "run", "activate",
           "startup", "start"}
Called == {"apply", "refresh", "clearBypassed", "startup"}

Op == {<<v>> : v \in Plain}
      \cup ({"flush", "add", "verify"} \X DeviceSet)
      \cup ({"write", "exists"} \X Markers)
      \cup ({"rm"} \X SUBSET (Markers \cup Runtime \cup {Request}))
      \cup ({"catch"} \X Caught)
      \cup ({"call"} \X Called)

(* What a process may have to run.  clear flushes both sets: a flush of    *)
(* the first is never the last command.                                    *)
First == <<"flush", "mac">>
Scripts == {s \in Seq(Op) : s # <<>> => s[Len(s)] # First}
Last == Op \ {First}

IInv == TypeOK /\ todo \in [Process -> Scripts]

-----------------------------------------------------------------------------
LEMMA Known ==
  /\ \A v \in Plain : <<v>> \in Last
  /\ \A s \in DeviceSet : /\ <<"flush", s>> \in Op
                          /\ <<"add", s>> \in Last
                          /\ <<"verify", s>> \in Last
  /\ <<"flush", "ip">> \in Last
  /\ \A f \in Markers : <<"write", f>> \in Last /\ <<"exists", f>> \in Last
  /\ \A f \in SUBSET (Markers \cup Runtime \cup {Request}) : <<"rm", f>> \in Last
  /\ \A h \in Caught : <<"catch", h>> \in Last
  /\ \A b \in Called : <<"call", b>> \in Last
  <1>1. \A v \in Plain : <<v>> \in Last  BY DEF Op, Last, First, Plain
  <1>2. \A s \in DeviceSet : /\ <<"flush", s>> \in Op
                             /\ <<"add", s>> \in Last
                             /\ <<"verify", s>> \in Last
    BY DEF Op, Last, First
  <1>3. <<"flush", "ip">> \in Last  BY DEF Op, Last, First, DeviceSet
  <1>4. \A f \in Markers : <<"write", f>> \in Last /\ <<"exists", f>> \in Last
    BY DEF Op, Last, First
  <1>5. \A f \in SUBSET (Markers \cup Runtime \cup {Request}) : <<"rm", f>> \in Last
    BY DEF Op, Last, First
  <1>6. \A h \in Caught : <<"catch", h>> \in Last  BY DEF Op, Last, First
  <1>7. \A b \in Called : <<"call", b>> \in Last  BY DEF Op, Last, First
  <1> QED BY <1>1, <1>2, <1>3, <1>4, <1>5, <1>6, <1>7

(* What the name of a command tells of its argument. *)
LEMMA Argument ==
  ASSUME NEW o \in Op
  PROVE  /\ o[1] = "write" => o[2] \in Markers
         /\ o[1] = "catch" => o[2] \in Caught
         /\ o[1] = "call" => o[2] \in Called
         /\ o[1] \in {"flush", "add", "verify"} => o[2] \in DeviceSet
         /\ o[1] = "flush" /\ o[2] = "mac" => o = First
         /\ o[1] = "ret" => o # First
  BY DEF Op, Plain, First

-----------------------------------------------------------------------------
(* Scripts put together and taken apart are scripts. *)
LEMMA Nothing == <<>> \in Scripts
  BY DEF Scripts

LEMMA List1 ==
  ASSUME NEW z \in Last
  PROVE  <<z>> \in Scripts
  BY DEF Scripts, Last

LEMMA List2 ==
  ASSUME NEW a \in Op, NEW z \in Last
  PROVE  <<a, z>> \in Scripts
  BY DEF Scripts, Last

LEMMA List3 ==
  ASSUME NEW a \in Op, NEW b \in Op, NEW z \in Last
  PROVE  <<a, b, z>> \in Scripts
  BY DEF Scripts, Last

LEMMA List4 ==
  ASSUME NEW a \in Op, NEW b \in Op, NEW c \in Op, NEW z \in Last
  PROVE  <<a, b, c, z>> \in Scripts
  BY DEF Scripts, Last

LEMMA List5 ==
  ASSUME NEW a \in Op, NEW b \in Op, NEW c \in Op, NEW d \in Op, NEW z \in Last
  PROVE  <<a, b, c, d, z>> \in Scripts
  BY DEF Scripts, Last

LEMMA List6 ==
  ASSUME NEW a \in Op, NEW b \in Op, NEW c \in Op, NEW d \in Op, NEW e \in Op, NEW z \in Last
  PROVE  <<a, b, c, d, e, z>> \in Scripts
  BY DEF Scripts, Last

LEMMA Joins ==
  ASSUME NEW s \in Scripts, NEW t \in Scripts
  PROVE  s \o t \in Scripts
  <1>1. s \in Seq(Op) /\ t \in Seq(Op)  BY DEF Scripts
  <1> DEFINE u == s \o t
  <1>2. u \in Seq(Op) /\ Len(u) = Len(s) + Len(t)
        /\ \A i \in 1..Len(s) + Len(t) : u[i] = IF i <= Len(s) THEN s[i] ELSE t[i - Len(s)]
    BY <1>1, ConcatProperties, Zenon
  <1> HIDE DEF u
  <1>3. Len(s) \in Nat /\ Len(t) \in Nat  BY <1>1, LenProperties
  <1>4. CASE t = <<>>
    <2>1. Len(t) = 0  BY <1>4
    <2>2. CASE s = <<>>
      BY <1>2, <1>4, <2>1, <2>2 DEF Scripts
    <2>3. CASE s # <<>>
      <3>1. Len(s) \in 1..Len(s)  BY <1>1, <1>3, <2>3, EmptySeq
      <3>2. u[Len(u)] = s[Len(s)]  BY <1>2, <1>3, <2>1, <3>1
      <3> QED BY <1>2, <2>3, <3>2 DEF Scripts, u
    <2> QED BY <2>2, <2>3 DEF u
  <1>5. CASE t # <<>>
    <2>1. Len(t) # 0  BY <1>1, <1>5, EmptySeq
    <2>2. u[Len(u)] = t[Len(t)]
      <3>1. Len(u) \in 1..Len(s) + Len(t) /\ ~(Len(u) <= Len(s)) /\ Len(u) - Len(s) = Len(t)
        BY <1>2, <1>3, <2>1
      <3> QED BY <1>2, <3>1
    <2> QED BY <1>2, <1>5, <2>2 DEF Scripts, u
  <1> QED BY <1>4, <1>5

LEMMA Rest ==
  ASSUME NEW s \in Scripts, s # <<>>
  PROVE  /\ Head(s) \in Op /\ Tail(s) \in Scripts
         /\ Head(s) = First => Tail(s) # <<>>
  <1>1. s \in Seq(Op) /\ s[Len(s)] # First  BY DEF Scripts
  <1>2. /\ Head(s) \in Op /\ Tail(s) \in Seq(Op) /\ Len(Tail(s)) = Len(s) - 1
        /\ \A i \in 1..Len(Tail(s)) : Tail(s)[i] = s[i + 1]
    BY <1>1, HeadTailProperties
  <1>3. Len(s) \in Nat /\ Len(s) # 0  BY <1>1, EmptySeq, LenProperties
  <1>4. ASSUME Tail(s) # <<>> PROVE Tail(s)[Len(Tail(s))] # First
    <2>1. Len(Tail(s)) # 0  BY <1>2, <1>4, EmptySeq
    <2>2. Tail(s)[Len(Tail(s))] = s[Len(s)]  BY <1>2, <1>3, <2>1
    <2> QED BY <1>1, <2>2
  <1>5. ASSUME Head(s) = First PROVE Tail(s) # <<>>
    <2>1. Head(s) = s[1]  OBVIOUS
    <2>2. Len(s) # 1  BY <1>1, <1>5, <2>1
    <2> QED BY <1>2, <1>3, <2>2
  <1> QED BY <1>2, <1>4, <1>5 DEF Scripts

LEMMA Suffix ==
  ASSUME NEW s \in Scripts, NEW i \in DOMAIN s
  PROVE  SubSeq(s, i + 1, Len(s)) \in Scripts
  <1>1. s \in Seq(Op) /\ Len(s) \in Nat /\ DOMAIN s = 1..Len(s)
    BY LenProperties DEF Scripts
  <1>2. \A j \in (i + 1)..Len(s) : s[j] \in Op  BY <1>1, ElementOfSeq
  <1> DEFINE u == SubSeq(s, i + 1, Len(s))
  <1>3. /\ u \in Seq(Op)
        /\ Len(u) = IF i + 1 <= Len(s) THEN Len(s) - (i + 1) + 1 ELSE 0
        /\ \A j \in 1..Len(s) - (i + 1) + 1 : u[j] = s[i + 1 + j - 1]
    BY <1>1, <1>2, SubSeqProperties
  <1> HIDE DEF u
  <1>4. ASSUME u # <<>> PROVE u[Len(u)] # First
    <2>1. Len(u) # 0  BY <1>3, <1>4, EmptySeq
    <2>2. u[Len(u)] = s[Len(s)]  BY <1>1, <1>3, <2>1
    <2>3. s # <<>>  BY <1>1
    <2> QED BY <2>2, <2>3 DEF Scripts
  <1> QED BY <1>3, <1>4 DEF Scripts, u

LEMMA Prefix ==
  ASSUME NEW s \in Scripts, NEW i \in DOMAIN s, s[i] # First
  PROVE  SubSeq(s, 1, i) \in Scripts
  <1>1. s \in Seq(Op) /\ Len(s) \in Nat /\ DOMAIN s = 1..Len(s)
    BY LenProperties DEF Scripts
  <1>2. \A j \in 1..i : s[j] \in Op  BY <1>1, ElementOfSeq
  <1> DEFINE u == SubSeq(s, 1, i)
  <1>3. /\ u \in Seq(Op)
        /\ Len(u) = IF 1 <= i THEN i - 1 + 1 ELSE 0
        /\ \A j \in 1..i - 1 + 1 : u[j] = s[1 + j - 1]
    BY <1>1, <1>2, SubSeqProperties
  <1> HIDE DEF u
  <1>4. u[Len(u)] = s[i]  BY <1>1, <1>3
  <1> QED BY <1>3, <1>4 DEF Scripts, u

LEMMA LeastIndex ==
  ASSUME NEW s \in Scripts, NEW S \in SUBSET DOMAIN s, S # {}
  PROVE  Min(S) \in S
  <1>1. DOMAIN s = 1..Len(s) /\ Len(s) \in Nat  BY LenProperties DEF Scripts
  <1>2. S \in SUBSET Nat  BY <1>1
  <1>3. PICK x \in S : \A y \in S : ~(<<y, x>> \in OpToRel(<, Nat))
    BY <1>2, NatLessThanWellFounded, WFMin, Zenon
  <1>4. ASSUME NEW y \in S PROVE ~(y < x)
    BY <1>2, <1>3, Zenon DEF OpToRel
  <1>5. \A y \in S : x <= y  BY <1>2, <1>4
  <1> QED BY <1>5 DEF Min

-----------------------------------------------------------------------------
(* The scripts. *)
LEMMA Parts ==
  /\ Clear \in Scripts /\ Ignore \in Scripts /\ Verify \in Scripts /\ RefreshTargets \in Scripts
  /\ \A v \in Plain : <<<<v>>>> \in Scripts
  /\ \A f \in SUBSET (Markers \cup Runtime \cup {Request}) : <<<<"rm", f>>>> \in Scripts
  <1>1. Clear \in Scripts
    <2>1. <<"flush", "mac">> \in Op /\ <<"flush", "ip">> \in Last  BY Known DEF DeviceSet
    <2> QED BY <2>1, List2, Zenon DEF Clear
  <1>2. Ignore \in Scripts
    <2>1. <<"catch", "nothing">> \in Last  BY Known DEF Caught
    <2> QED BY <2>1, List1, Zenon DEF Ignore
  <1>3. Verify \in Scripts
    <2>1. /\ <<"available">> \in Op /\ <<"expect">> \in Op
          /\ <<"verify", "ip">> \in Op /\ <<"verify", "mac">> \in Last
      BY Known DEF Plain, DeviceSet, Last
    <2> QED BY <2>1, List4, Zenon DEF Verify
  <1>4. RefreshTargets \in Scripts
    <2>1. <<"mktemp">> \in Op /\ <<"call", "refresh">> \in Last  BY Known DEF Plain, Called, Last
    <2> QED BY <2>1, List2, Zenon DEF RefreshTargets
  <1>5. \A v \in Plain : <<<<v>>>> \in Scripts
    BY Known, List1, Zenon
  <1>6. \A f \in SUBSET (Markers \cup Runtime \cup {Request}) : <<<<"rm", f>>>> \in Scripts
    BY Known, List1, Zenon
  <1> QED BY <1>1, <1>2, <1>3, <1>4, <1>5, <1>6, Zenon

LEMMA IsApply == Apply \in Scripts
  <1>1. <<<<"validate">>>> \in Scripts  BY Parts DEF Plain
  <1>2. <<<<"add", "mac">>, <<"add", "ip">>>> \in Scripts
    <2>1. <<"add", "mac">> \in Op /\ <<"add", "ip">> \in Last  BY Known DEF DeviceSet, Last
    <2> QED BY <2>1, List2, Zenon
  <1>3. <<<<"write", "nft_applied">>, <<"catch", "apply">>>> \in Scripts
    <2>1. <<"write", "nft_applied">> \in Op /\ <<"catch", "apply">> \in Last
      BY Known DEF Markers, Caught, Last
    <2> QED BY <2>1, List2, Zenon
  <1>4. Clear \in Scripts /\ Verify \in Scripts  BY Parts
  <1> QED BY <1>1, <1>2, <1>3, <1>4, Joins, Zenon DEF Apply

LEMMA IsBypass == BypassOn \in Scripts /\ BypassOff \in Scripts
  <1>1. <<"write", "bypass">> \in Op /\ <<"call", "clearBypassed">> \in Last
    BY Known DEF Markers, Called, Last
  <1>2. /\ <<"rm", {"bypass"}>> \in Op /\ <<"rm", {"nft_applied"}>> \in Op
        /\ <<"applyIfReady">> \in Last
    BY Known DEF Markers, Plain, Last
  <1>3. BypassOn \in Scripts  BY <1>1, List2, Zenon DEF BypassOn
  <1>4. BypassOff \in Scripts  BY <1>2, List3, Zenon DEF BypassOff
  <1> QED BY <1>3, <1>4

LEMMA IsClearSets == ClearSets \in Scripts
  <1>1. {"nft_applied"} \in SUBSET (Markers \cup Runtime \cup {Request})  BY DEF Markers
  <1>2. <<<<"rm", {"nft_applied"}>>>> \in Scripts  BY <1>1, Parts, Zenon
  <1>3. <<<<"ret">>>> \in Scripts  BY Parts DEF Plain
  <1>4. Clear \in Scripts /\ Ignore \in Scripts  BY Parts
  <1> QED BY <1>2, <1>3, <1>4, Joins, Zenon DEF ClearSets

LEMMA IsClearStartupState == ClearStartupState \in Scripts
  <1>1. /\ <<"rm", {Request}>> \in Op /\ <<"rm", Markers>> \in Op /\ <<"rm", Runtime>> \in Last
    BY Known DEF Last
  <1>2. <<<<"rm", {Request}>>, <<"rm", Markers>>, <<"rm", Runtime>>>> \in Scripts
    BY <1>1, List3, Zenon
  <1> QED BY <1>2, Parts, Joins, Zenon DEF ClearStartupState

LEMMA IsKill == <<<<"kill">>, <<"unlock">>>> \in Scripts
  <1>1. <<"kill">> \in Op /\ <<"unlock">> \in Last  BY Known DEF Plain, Last
  <1> QED BY <1>1, List2, Zenon

LEMMA IsService == StopService \in Scripts /\ StartService \in Scripts /\ ReloadRuntime \in Scripts
  <1>1. StopService \in Scripts
    BY IsClearStartupState, IsKill, Parts, Joins, Zenon DEF StopService
  <1>2. StartService \in Scripts
    <2>1. /\ <<"ifStartEnabled">> \in Op /\ <<"ensureSets">> \in Op /\ <<"syncMonitor">> \in Op
          /\ <<"call", "startup">> \in Op /\ <<"catch", "start">> \in Op /\ <<"unlock">> \in Last
      BY Known DEF Plain, Called, Caught, Last
    <2>2. <<<<"ifStartEnabled">>, <<"ensureSets">>, <<"syncMonitor">>, <<"call", "startup">>,
            <<"catch", "start">>, <<"unlock">>>> \in Scripts
      BY <2>1, List6, Zenon
    <2> QED BY <2>2, IsClearStartupState, Joins, Zenon DEF StartService
  <1>3. ReloadRuntime \in Scripts
    <2>1. /\ <<"syncMonitor">> \in Op /\ <<"ifReloadEnabled">> \in Op /\ <<"controlReload">> \in Last
          /\ <<"call", "apply">> \in Last
      BY Known DEF Plain, Called, Last
    <2>2. /\ <<<<"syncMonitor">>, <<"ifReloadEnabled">>, <<"controlReload">>>> \in Scripts
          /\ <<<<"syncMonitor">>, <<"call", "apply">>>> \in Scripts
      BY <2>1, List2, List3, Zenon
    <2> QED BY <2>2, Parts, Joins, Zenon DEF ReloadRuntime
  <1> QED BY <1>1, <1>2, <1>3

LEMMA IsScript == \A c \in Command : Script(c) \in Scripts
  BY OperatorAssumption, IsService, IsBypass DEF Script

LEMMA IsBody == \A b \in Called : Body(b) \in Scripts
  <1>1. Clear \o <<<<"catch", "bypass">>, <<"rm", {"nft_applied"}>>>> \in Scripts
    <2>1. <<"catch", "bypass">> \in Op /\ <<"rm", {"nft_applied"}>> \in Last
      BY Known DEF Caught, Markers, Last
    <2>2. <<<<"catch", "bypass">>, <<"rm", {"nft_applied"}>>>> \in Scripts
      BY <2>1, List2, Zenon
    <2> QED BY <2>2, Parts, Joins, Zenon
  <1>2. Clear \o <<<<"prepare">>, <<"rm", {"nft_applied", "bypass"}>>>> \o RefreshTargets
          \o <<<<"register">>, <<"catch", "startup">>>> \in Scripts
    <2>1. /\ <<"prepare">> \in Op /\ <<"rm", {"nft_applied", "bypass"}>> \in Last
          /\ <<"register">> \in Op /\ <<"catch", "startup">> \in Last
      BY Known DEF Plain, Caught, Markers, Last
    <2>2. /\ <<<<"prepare">>, <<"rm", {"nft_applied", "bypass"}>>>> \in Scripts
          /\ <<<<"register">>, <<"catch", "startup">>>> \in Scripts
      BY <2>1, List2, Zenon
    <2> QED BY <2>2, Parts, Joins, Zenon
  <1>3. Body("apply") \in Scripts  BY IsApply DEF Body
  <1>4. Body("refresh") \in Scripts
    <2>1. /\ <<"resolve">> \in Op /\ <<"targetsReady">> \in Op
          /\ <<"write", "target_refresh_ok">> \in Op /\ <<"catch", "refresh">> \in Last
      BY Known DEF Plain, Markers, Caught, Last
    <2>2. <<<<"resolve">>, <<"targetsReady">>, <<"write", "target_refresh_ok">>,
            <<"catch", "refresh">>>> \in Scripts
      BY <2>1, List4, Zenon
    <2> QED BY <2>2 DEF Body
  <1>5. Body("clearBypassed") \in Scripts  BY <1>1 DEF Body
  <1>6. Body("startup") \in Scripts  BY <1>2 DEF Body
  <1> QED BY <1>3, <1>4, <1>5, <1>6 DEF Called

LEMMA IsHandler == \A h \in Caught : Handler(h) \in Scripts
  <1>0. <<"fail">> \in Last /\ <<"kill">> \in Last /\ <<"exit">> \in Last  BY Known DEF Plain
  <1>1. <<<<"fail">>>> \in Scripts /\ <<<<"kill">>>> \in Scripts  BY <1>0, List1, Zenon
  <1>2. <<"rm", {"nft_applied"}>> \in Op /\ <<"rm", {"target_refresh_ok"}>> \in Op
        /\ <<"rm", {"enabled"}>> \in Op /\ <<"rm", {"nft_applied"}>> \in Last
    BY Known DEF Markers, Last
  <1>3. <<<<"rm", {"nft_applied"}>>, <<"fail">>>> \in Scripts  BY <1>0, <1>2, List2, Zenon
  <1>4. <<<<"rm", {"target_refresh_ok"}>>, <<"rm", {"nft_applied"}>>>> \in Scripts
    BY <1>2, List2, Zenon
  <1>5. <<<<"rm", {"enabled"}>>, <<"exit">>>> \in Scripts  BY <1>0, <1>2, List2, Zenon
  <1>6. Clear \o Ignore \o <<<<"rm", {"nft_applied"}>>, <<"fail">>>> \in Scripts
    BY <1>3, Parts, Joins, Zenon
  <1>7. <<<<"rm", {"target_refresh_ok"}>>, <<"rm", {"nft_applied"}>>>> \o Clear \o Ignore
          \o <<<<"fail">>>> \in Scripts
    BY <1>1, <1>4, Parts, Joins, Zenon
  <1>8. ClearSets \o <<<<"fail">>>> \in Scripts  BY <1>1, IsClearSets, Joins, Zenon
  <1>9. ClearSets \o <<<<"rm", {"enabled"}>>, <<"exit">>>> \in Scripts
    BY <1>5, IsClearSets, Joins, Zenon
  <1>10. ClearStartupState \o Ignore \o <<<<"fail">>>> \in Scripts
    BY <1>1, IsClearStartupState, Parts, Joins, Zenon
  <1>11. Handler("nothing") \in Scripts  BY Nothing DEF Handler
  <1>12. Handler("apply") \in Scripts  BY <1>6 DEF Handler
  <1>13. Handler("refresh") \in Scripts  BY <1>7 DEF Handler
  <1>14. Handler("bypass") \in Scripts  BY <1>3 DEF Handler
  <1>15. Handler("request") \in Scripts /\ Handler("run") \in Scripts  BY <1>8 DEF Handler
  <1>16. Handler("verify") \in Scripts  BY IsClearSets DEF Handler
  <1>17. Handler("activate") \in Scripts  BY <1>9 DEF Handler
  <1>18. Handler("startup") \in Scripts  BY <1>10 DEF Handler
  <1>19. Handler("start") \in Scripts  BY <1>1 DEF Handler
  <1> QED BY <1>11, <1>12, <1>13, <1>14, <1>15, <1>16, <1>17, <1>18, <1>19 DEF Caught

(* What is ready to run is the end of a script. *)
LEMMA ReadyIsScript == ASSUME NEW s \in Scripts PROVE Ready(s) \in Scripts
  <1> DEFINE steps == {i \in DOMAIN s : s[i][1] \notin Silent}
  <1>1. CASE s = <<>> \/ Head(s)[1] \notin Silent  BY <1>1 DEF Ready
  <1>2. CASE ~(s = <<>> \/ Head(s)[1] \notin Silent) /\ steps = {}
    BY <1>2, Nothing DEF Ready
  <1>3. CASE ~(s = <<>> \/ Head(s)[1] \notin Silent) /\ steps # {}
    <2> DEFINE i == Min(steps)
    <2>1. i \in steps  BY <1>3, LeastIndex, Zenon
    <2>2. Ready(s) = SubSeq(s, i, Len(s))  BY <1>3, Zenon DEF Ready
    <2> HIDE DEF i
    <2>3. DOMAIN s = 1..Len(s) /\ Len(s) \in Nat /\ Head(s) = s[1]
      BY <1>3, LenProperties DEF Scripts
    <2>4. i # 1  BY <1>3, <2>1, <2>3
    <2>5. i - 1 \in DOMAIN s /\ i - 1 + 1 = i  BY <2>1, <2>3, <2>4
    <2>6. SubSeq(s, i - 1 + 1, Len(s)) \in Scripts  BY <2>5, Suffix
    <2> QED BY <2>2, <2>5, <2>6
  <1> QED BY <1>1, <1>2, <1>3

(* A failure goes on with what its caller does about it. *)
LEMMA Unwinds == ASSUME NEW s \in Scripts PROVE Unwind(s) \in Scripts
  <1> DEFINE catches == {i \in DOMAIN s : s[i][1] = "catch"}
  <1>1. CASE catches = {}  BY <1>1, Nothing DEF Unwind
  <1>2. CASE catches # {}
    <2> DEFINE i == Min(catches)
    <2>1. i \in catches  BY <1>2, LeastIndex, Zenon
    <2> HIDE DEF i
    <2>2. s[i] \in Op
      <3>1. s \in Seq(Op)  BY DEF Scripts
      <3> QED BY <2>1, <3>1, ElementOfSeq
    <2>3. Handler(s[i][2]) \in Scripts  BY <2>1, <2>2, Argument, IsHandler
    <2>4. SubSeq(s, i + 1, Len(s)) \in Scripts  BY <2>1, Suffix
    <2>5. Handler(s[i][2]) \o SubSeq(s, i + 1, Len(s)) \in Scripts  BY <2>3, <2>4, Joins, Zenon
    <2>6. Unwind(s) = Handler(s[i][2]) \o SubSeq(s, i + 1, Len(s))
      BY <1>2, Zenon DEF Unwind, i
    <2> QED BY <2>5, <2>6, Zenon
  <1> QED BY <1>1, <1>2

-----------------------------------------------------------------------------
(* What a process has still to run after a step of its own. *)
Runs == todo' \in [Process -> Scripts]

LEMMA Sets ==
  ASSUME IInv, NEW p \in Process, NEW s \in Scripts, todo' = [todo EXCEPT ![p] = s]
  PROVE  Runs
  BY DEF IInv, Runs

LEMMA FirstOp ==
  ASSUME IInv, NEW p \in Process, NEW v, At(p, v)
  PROVE  /\ todo[p] \in Scripts /\ todo[p] # <<>>
         /\ Head(todo[p]) \in Op /\ Head(todo[p])[1] = v /\ Tail(todo[p]) \in Scripts
  BY Rest DEF IInv, At

LEMMA ThenRuns ==
  ASSUME IInv, NEW p \in Process, NEW v, At(p, v), NEW ops \in Scripts, Then(p, ops)
  PROVE  Runs
  <1>1. Ready(ops \o Tail(todo[p])) \in Scripts  BY FirstOp, Joins, ReadyIsScript, Zenon
  <1>2. todo' = [todo EXCEPT ![p] = Ready(ops \o Tail(todo[p]))]  BY DEF Then
  <1> QED BY <1>1, <1>2, Sets, Zenon

LEMMA FailRuns ==
  ASSUME IInv, NEW p \in Process, Fail(p)
  PROVE  Runs
  <1>1. Ready(Unwind(todo[p])) \in Scripts  BY Unwinds, ReadyIsScript DEF IInv
  <1>2. todo' = [todo EXCEPT ![p] = Ready(Unwind(todo[p]))]  BY DEF Fail
  <1> QED BY <1>1, <1>2, Sets, Zenon

LEMMA BranchRuns ==
  ASSUME IInv, NEW p \in Process, NEW v, At(p, v), NEW test, Branch(p, test)
  PROVE  Runs
  BY ThenRuns, FailRuns, Nothing DEF Branch

LEMMA SpendType ==
  ASSUME IInv, NEW what \in Disturbance, Spend(what)
  PROVE  left' \in [Disturbance -> Nat]
  BY DEF IInv, TypeOK, Spend

(* A step that changes the scripts only. *)
LEMMA ScriptOnly ==
  ASSUME IInv, Runs, UNCHANGED <<nft, files, uci, daemon, registered, starts, want>>,
         left' \in [Disturbance -> Nat]
  PROVE  IInv'
  BY DEF IInv, TypeOK, Runs, NoTable, EmptyTable, NoElements

LEMMA InitIInv == Init => IInv
  <1> SUFFICES ASSUME Init PROVE IInv  OBVIOUS
  <1>1. 1 \in Version /\ 1 \in 0..MaxVersion  BY BoundAssumption DEF Version
  <1>2. todo \in [Process -> Scripts]  BY Nothing DEF Init
  <1>3. NoElements \in [DeviceSet -> SUBSET Version]  BY DEF NoElements
  <1>4. /\ nft \in [table : BOOLEAN, dev : [DeviceSet -> SUBSET Version], targets : BOOLEAN]
        /\ nft.table
    <2>1. nft = EmptyTable \/ nft = [EmptyTable EXCEPT !.targets = TRUE]  BY DEF Init
    <2>2. /\ EmptyTable \in [table : BOOLEAN, dev : [DeviceSet -> SUBSET Version], targets : BOOLEAN]
          /\ EmptyTable.table
      BY <1>3 DEF EmptyTable
    <2> HIDE DEF EmptyTable
    <2> QED BY <2>1, <2>2
  <1>5. uci \in [enabled : BOOLEAN, version : 0..MaxVersion]
    BY <1>1 DEF Init
  <1>6. left \in [Disturbance -> Nat]  BY OperatorAssumption DEF Init
  <1>7. files \subseteq Markers \cup Runtime \cup {Request} /\ registered \in BOOLEAN
    BY DEF Init, Markers
  <1>8. want \in [Process -> Version] /\ starts \in 0..Respawns + 1
    BY <1>1, BoundAssumption DEF Init
  <1> QED BY <1>2, <1>4, <1>5, <1>6, <1>7, <1>8 DEF IInv, TypeOK, Init

-----------------------------------------------------------------------------
(* The sets: an absent table holds nothing. *)
Sound(n) == /\ n \in [table : BOOLEAN, dev : [DeviceSet -> SUBSET Version], targets : BOOLEAN]
            /\ ~n.table => n = NoTable

LEMMA TablesSound == Sound(EmptyTable) /\ Sound(NoTable)
  <1>1. NoElements \in [DeviceSet -> SUBSET Version]  BY DEF NoElements
  <1> QED BY <1>1 DEF Sound, EmptyTable, NoTable

LEMMA NftStep ==
  ASSUME IInv, Runs, Sound(nft'), UNCHANGED <<files, uci, daemon, registered, starts, want>>,
         left' \in [Disturbance -> Nat]
  PROVE  IInv'
  BY DEF IInv, TypeOK, Runs, Sound

LEMMA FilesStep ==
  ASSUME IInv, Runs, files' \subseteq Markers \cup Runtime \cup {Request},
         UNCHANGED <<nft, uci, daemon, registered, starts, want>>, left' \in [Disturbance -> Nat]
  PROVE  IInv'
  BY DEF IInv, TypeOK, Runs

LEMMA LeftSame == ASSUME IInv, UNCHANGED left PROVE left' \in [Disturbance -> Nat]
  BY DEF IInv, TypeOK

LEMMA FlushInv == ASSUME IInv, NEW p \in Process, Flush(p) PROVE IInv'
  <1>1. Runs  BY ThenRuns, Nothing DEF Flush
  <1>2. Sound(nft')
    <2>1. nft' = [nft EXCEPT !.dev[Arg(p)] = {}]  BY DEF Flush
    <2>2. CASE nft.table
      BY <2>1, <2>2 DEF IInv, TypeOK, Sound
    <2>3. CASE ~nft.table
      <3>1. nft = NoTable  BY <2>3 DEF IInv, TypeOK
      <3>2. nft' = NoTable
        <4>1. nft.dev = NoElements  BY <3>1 DEF NoTable, EmptyTable
        <4>2. [nft.dev EXCEPT ![Arg(p)] = {}] = nft.dev  BY <4>1 DEF NoElements
        <4>3. nft' = [nft EXCEPT !.dev = [nft.dev EXCEPT ![Arg(p)] = {}]]  BY <2>1
        <4>4. nft' = nft  BY <4>2, <4>3 DEF IInv, TypeOK
        <4> QED BY <3>1, <4>4
      <3> QED BY <3>2, TablesSound
    <2> QED BY <2>2, <2>3
  <1> QED BY <1>1, <1>2, NftStep, LeftSame DEF Flush

LEMMA FlushFailsInv == ASSUME IInv, NEW p \in Process, FlushFails(p) PROVE IInv'
  <1>1. /\ todo[p] \in Scripts /\ todo[p] # <<>> /\ Head(todo[p]) \in Op
        /\ Head(todo[p])[1] = "flush" /\ Tail(todo[p]) \in Scripts
    BY FirstOp DEF FlushFails
  <1>2. <<<<"fail">>>> \in Scripts  BY Parts DEF Plain
  <1>3. CASE Arg(p) = "mac"
    <2>1. Head(todo[p]) = First  BY <1>1, <1>3, Argument DEF Arg
    <2>2. Tail(todo[p]) # <<>>  BY <1>1, <2>1, Rest
    <2>3. Tail(Tail(todo[p])) \in Scripts  BY <1>1, <2>2, Rest
    <2>4. <<<<"flush", "ip">>, <<"fail">>>> \in Scripts
      <3>1. <<"flush", "ip">> \in Op /\ <<"fail">> \in Last  BY Known DEF Plain, Last
      <3> QED BY <3>1, List2, Zenon
    <2>5. <<<<"flush", "ip">>, <<"fail">>>> \o Tail(Tail(todo[p])) \in Scripts
      BY <2>3, <2>4, Joins, Zenon
    <2>6. todo' = [todo EXCEPT ![p] = <<<<"flush", "ip">>, <<"fail">>>> \o Tail(Tail(todo[p]))]
      BY <1>3 DEF FlushFails
    <2>7. Runs  BY <2>5, <2>6, Sets, Zenon
    <2> QED BY <2>7, ScriptOnly, SpendType DEF FlushFails, Disturbance
  <1>4. CASE Arg(p) # "mac"
    <2>1. <<<<"fail">>>> \o Tail(todo[p]) \in Scripts  BY <1>1, <1>2, Joins, Zenon
    <2>2. todo' = [todo EXCEPT ![p] = <<<<"fail">>>> \o Tail(todo[p])]  BY <1>4 DEF FlushFails
    <2>3. Runs  BY <2>1, <2>2, Sets, Zenon
    <2> QED BY <2>3, ScriptOnly, SpendType DEF FlushFails, Disturbance
  <1> QED BY <1>3, <1>4

LEMMA AddInv == ASSUME IInv, NEW p \in Process, Add(p) PROVE IInv'
  <1>1. Runs  BY ThenRuns, Nothing DEF Add
  <1>2. {uci.version} \ {0} \subseteq Version
    BY BoundAssumption DEF IInv, TypeOK, Version
  <1>3. Sound(nft')
    BY <1>2 DEF Add, IInv, TypeOK, Sound
  <1> QED BY <1>1, <1>3, NftStep, LeftSame DEF Add

LEMMA ResolveInv == ASSUME IInv, NEW p \in Process, Resolve(p) PROVE IInv'
  <1>1. Runs  BY ThenRuns, Nothing DEF Resolve
  <1>2. Sound(nft')  BY DEF Resolve, IInv, TypeOK, Sound
  <1> QED BY <1>1, <1>2, NftStep, LeftSame DEF Resolve

(* A command that fails, as the environment or the state of things has it. *)
LEMMA FailsInv ==
  ASSUME IInv, NEW p \in Process, AddFails(p) \/ WriteFails(p) \/ ResolveFails(p)
  PROVE  IInv'
  <1>1. Runs  BY FailRuns DEF AddFails, WriteFails, ResolveFails
  <1>2. left' \in [Disturbance -> Nat]
    BY SpendType, LeftSame DEF AddFails, WriteFails, ResolveFails, Disturbance
  <1> QED BY <1>1, <1>2, ScriptOnly DEF AddFails, WriteFails, ResolveFails

LEMMA MakeTempDirInv == ASSUME IInv, NEW p \in Process, MakeTempDir(p) PROVE IInv'
  <1>1. Runs  BY ThenRuns, FailRuns, Nothing DEF MakeTempDir
  <1>2. left' \in [Disturbance -> Nat]  BY SpendType, LeftSame DEF MakeTempDir, Disturbance
  <1> QED BY <1>1, <1>2, ScriptOnly DEF MakeTempDir

LEMMA TestInv ==
  ASSUME IInv, NEW p \in Process, Validate(p) \/ Available(p) \/ VerifySet(p) \/ Require(p)
  PROVE  IInv'
  <1>1. Runs  BY BranchRuns DEF Validate, Available, VerifySet, Require
  <1> QED BY <1>1, ScriptOnly, LeftSame DEF Validate, Available, VerifySet, Require

LEMMA ExpectInv == ASSUME IInv, NEW p \in Process, Expect(p) PROVE IInv'
  <1>1. Runs  BY BranchRuns DEF Expect
  <1>2. want' \in [Process -> Version]
    BY BoundAssumption DEF Expect, IInv, TypeOK, Version
  <1> QED BY <1>1, <1>2 DEF Expect, IInv, TypeOK, Runs

LEMMA WriteInv == ASSUME IInv, NEW p \in Process, Write(p) PROVE IInv'
  <1>1. Runs  BY ThenRuns, Nothing DEF Write
  <1>2. Arg(p) \in Markers  BY FirstOp, Argument DEF Write, Arg
  <1>3. files' \subseteq Markers \cup Runtime \cup {Request}
    BY <1>2 DEF Write, IInv, TypeOK
  <1> QED BY <1>1, <1>3, FilesStep, LeftSame DEF Write

LEMMA RemoveInv == ASSUME IInv, NEW p \in Process, Remove(p) PROVE IInv'
  <1>1. Runs  BY ThenRuns, Nothing DEF Remove
  <1>2. files' \subseteq Markers \cup Runtime \cup {Request}  BY DEF Remove, IInv, TypeOK
  <1> QED BY <1>1, <1>2, FilesStep, LeftSame DEF Remove

LEMMA ControlInv == ASSUME IInv, NEW p \in Process, Control(p) PROVE IInv'
  <1>1. CASE At(p, "unlock") /\ Then(p, <<>>)
    <2>1. Runs  BY <1>1, ThenRuns, Nothing
    <2> QED BY <2>1, ScriptOnly, LeftSame DEF Control
  <1>2. CASE At(p, "call") /\ Then(p, Body(Arg(p)))
    <2>1. Arg(p) \in Called  BY <1>2, FirstOp, Argument DEF Arg
    <2>2. Runs  BY <1>2, <2>1, IsBody, ThenRuns
    <2> QED BY <2>2, ScriptOnly, LeftSame DEF Control
  <1>3. CASE At(p, "fail") /\ Fail(p)
    BY <1>3, FailRuns, ScriptOnly, LeftSame DEF Control
  <1>4. CASE At(p, "exit") /\ todo' = [todo EXCEPT ![p] = <<>>]
    BY <1>4, Sets, Nothing, ScriptOnly, LeftSame DEF Control
  <1> QED BY <1>1, <1>2, <1>3, <1>4 DEF Control

LEMMA Fw4ReloadInv == ASSUME IInv, NEW p \in Process, Fw4Reload(p) PROVE IInv'
  <1>1. Runs  BY ThenRuns, FailRuns, Nothing DEF Fw4Reload
  <1>2. Sound(nft')  BY TablesSound DEF Fw4Reload, IInv, TypeOK, Sound
  <1>3. left' \in [Disturbance -> Nat]  BY SpendType, LeftSame DEF Fw4Reload, Disturbance
  <1> QED BY <1>1, <1>2, <1>3, NftStep DEF Fw4Reload

-----------------------------------------------------------------------------
(* The init script and locspoof-service. *)
LEMMA EnsureSetsInv == ASSUME IInv, NEW p \in Process, EnsureSets(p) PROVE IInv'
  <1>1. <<<<"fw4Reload">>, <<"setsReady">>>> \in Scripts
    <2>1. <<"fw4Reload">> \in Op /\ <<"setsReady">> \in Last  BY Known DEF Plain, Last
    <2> QED BY <2>1, List2, Zenon
  <1>2. Runs  BY <1>1, ThenRuns, Nothing DEF EnsureSets
  <1> QED BY <1>2, ScriptOnly, LeftSame DEF EnsureSets

LEMMA IfStartEnabledInv == ASSUME IInv, NEW p \in Process, IfStartEnabled(p) PROVE IInv'
  <1>1. <<<<"ensureSets">>, <<"syncMonitor">>>> \in Scripts
    <2>1. <<"ensureSets">> \in Op /\ <<"syncMonitor">> \in Last  BY Known DEF Plain, Last
    <2> QED BY <2>1, List2, Zenon
  <1>2. <<<<"ensureSets">>, <<"syncMonitor">>>> \o Ignore \o <<<<"kill">>, <<"unlock">>>> \in Scripts
    BY <1>1, IsKill, Parts, Joins, Zenon
  <1>3. Runs  BY <1>2, ThenRuns, Sets, Nothing DEF IfStartEnabled
  <1> QED BY <1>3, ScriptOnly, LeftSame DEF IfStartEnabled

LEMMA PrepareInv ==
  ASSUME IInv, NEW p \in Process, Prepare(p) \/ Disabled(p) \/ ControlReload(p)
  PROVE  IInv'
  <1>1. Runs  BY ThenRuns, FailRuns, BranchRuns, Nothing DEF Prepare, Disabled, ControlReload
  <1> QED BY <1>1, ScriptOnly, LeftSame DEF Prepare, Disabled, ControlReload

LEMMA RegisterInv == ASSUME IInv, NEW p \in Process, Register(p) PROVE IInv'
  <1>1. Runs  BY ThenRuns, Nothing DEF Register
  <1>2. starts' \in 0..Respawns + 1
    <2>1. Max({1, starts}) \in {1, starts}
      <3>1. 1 \in Nat /\ starts \in Nat  BY BoundAssumption DEF IInv, TypeOK
      <3>2. \E x \in {1, starts} : \A y \in {1, starts} : x >= y  BY <3>1
      <3> QED BY <3>2, Zenon DEF Max
    <2> QED BY <2>1, BoundAssumption DEF Register, IInv, TypeOK
  <1> QED BY <1>1, <1>2 DEF Register, IInv, TypeOK, Runs

(* The locspoofctl child that outlives the watchdog runs to its own end. *)
LEMMA KillInv == ASSUME IInv, NEW p \in Process, Kill(p) PROVE IInv'
  <1> DEFINE w == todo["watchdog"]
             rets == {i \in DOMAIN w : w[i][1] = "ret"}
             rest == IF rets = {} THEN <<>> ELSE SubSeq(w, 1, Min(rets))
  <1>1. w \in Scripts  BY DEF IInv, Process
  <1>2. rest \in Scripts
    <2>1. CASE rets = {}  BY <2>1, Nothing
    <2>2. CASE rets # {}
      <3> DEFINE i == Min(rets)
      <3>1. i \in rets  BY <1>1, <2>2, LeastIndex, Zenon
      <3> HIDE DEF i
      <3>2. w[i] \in Op
        <4>1. w \in Seq(Op)  BY <1>1 DEF Scripts
        <4> QED BY <3>1, <4>1, ElementOfSeq
      <3>3. w[i] # First  BY <3>1, <3>2, Argument
      <3>4. SubSeq(w, 1, i) \in Scripts  BY <1>1, <3>1, <3>3, Prefix
      <3> QED BY <2>2, <3>4 DEF i
    <2> QED BY <2>1, <2>2
  <1>3. Tail(todo[p]) \in Scripts  BY FirstOp DEF Kill
  <1>4. todo' = [todo EXCEPT ![p] = Tail(@), !["watchdog"] = <<>>, !["orphan"] = rest]
    BY Zenon DEF Kill
  <1> HIDE DEF rest
  <1>5. Runs  BY <1>2, <1>3, <1>4, Nothing DEF IInv, Runs
  <1>6. daemon' \in {"down", "starting", "listening", "ready", "healthy", "stopping"}
        /\ registered' \in BOOLEAN /\ starts' = 0
        /\ UNCHANGED <<nft, files, uci, want, left>>
    BY DEF Kill
  <1>7. 0 \in 0..Respawns + 1  BY BoundAssumption
  <1> QED BY <1>5, <1>6, <1>7 DEF IInv, TypeOK, Runs

LEMMA ApplyIfReadyInv == ASSUME IInv, NEW p \in Process, ApplyIfReady(p) PROVE IInv'
  <1>1. Runs  BY ThenRuns, IsApply, Nothing DEF ApplyIfReady
  <1> QED BY <1>1, ScriptOnly, LeftSame DEF ApplyIfReady

LEMMA IfReloadEnabledInv == ASSUME IInv, NEW p \in Process, IfReloadEnabled(p) PROVE IInv'
  <1>1. <<<<"disabled">>>> \in Scripts  BY Parts DEF Plain
  <1>2. Clear \o <<<<"disabled">>>> \in Scripts  BY <1>1, Parts, Joins, Zenon
  <1>3. Runs  BY <1>2, ThenRuns, Sets, Nothing DEF IfReloadEnabled
  <1> QED BY <1>3, ScriptOnly, LeftSame DEF IfReloadEnabled

LEMMA ServiceStepInv == ASSUME IInv, NEW p \in Process, ServiceStep(p) PROVE IInv'
  BY EnsureSetsInv, IfStartEnabledInv, PrepareInv, RegisterInv, KillInv, ApplyIfReadyInv,
     IfReloadEnabledInv DEF ServiceStep

-----------------------------------------------------------------------------
(* The watchdog. *)
LEMMA ActivateRuns == ASSUME IInv, NEW p \in Process, Activate(p) PROVE Runs
  <1>1. /\ <<"wait">> \in Op /\ <<"write", "enabled">> \in Op /\ <<"runOnce">> \in Op
        /\ <<"catch", "activate">> \in Last
    BY Known DEF Plain, Markers, Caught, Last
  <1>2. <<<<"wait">>, <<"write", "enabled">>, <<"runOnce">>, <<"catch", "activate">>>> \in Scripts
    BY <1>1, List4, Zenon
  <1> QED BY <1>2, ThenRuns, Nothing DEF Activate

LEMMA LoopRuns == ASSUME IInv, NEW p \in Process, Loop(p) PROVE Runs
  <1>1. /\ <<<<"requests">>>> \in Scripts /\ <<<<"runOnce">>>> \in Scripts
        /\ <<<<"loop">>>> \in Scripts
    BY Parts DEF Plain
  <1> DEFINE round == <<<<"requests">>>> \o Ignore \o <<<<"runOnce">>>> \o Ignore \o <<<<"loop">>>>
  <1>2. round \in Scripts  BY <1>1, Parts, Joins, Zenon
  <1>3. todo' = [todo EXCEPT ![p] = IF "enabled" \in files THEN round ELSE <<>>]  BY DEF Loop
  <1> HIDE DEF round
  <1> QED BY <1>2, <1>3, Sets, Nothing

LEMMA ProcessRequestsRuns == ASSUME IInv, NEW p \in Process, ProcessRequests(p) PROVE Runs
  <1>1. /\ <<"ret">> \in Op /\ <<"exists", "bypass">> \in Op /\ <<"catch", "request">> \in Op
        /\ <<"rm", {Request}>> \in Last
    BY Known DEF Plain, Markers, Caught, Last
  <1> DEFINE rest == <<<<"ret">>, <<"exists", "bypass">>, <<"catch", "request">>, <<"rm", {Request}>>>>
  <1>2. rest \in Scripts  BY <1>1, List4, Zenon
  <1> HIDE DEF rest
  <1>3. BypassOn \o rest \in Scripts  BY <1>2, IsBypass, Joins, Zenon
  <1>4. Then(p, IF Request \notin files THEN <<>> ELSE BypassOn \o rest) /\ At(p, "requests")
    BY DEF ProcessRequests, rest
  <1> QED BY <1>3, <1>4, ThenRuns, Nothing

LEMMA RoundRuns == ASSUME IInv, NEW p \in Process, RunOnce(p) \/ IfHealthy(p) PROVE Runs
  <1>1. /\ <<<<"ifHealthy">>>> \in Scripts /\ <<<<"ifBypass">>>> \in Scripts
        /\ <<<<"fail">>>> \in Scripts
    BY Parts DEF Plain
  <1>2. ClearSets \o <<<<"fail">>>> \in Scripts  BY <1>1, IsClearSets, Joins, Zenon
  <1> QED BY <1>1, <1>2, ThenRuns, Nothing DEF RunOnce, IfHealthy

LEMMA IfBypassRuns == ASSUME IInv, NEW p \in Process, IfBypass(p) PROVE Runs
  <1>1. /\ <<"reloadFw4">> \in Op /\ <<"refresh">> \in Op /\ <<"recheck">> \in Op
        /\ <<"applyPolicy">> \in Op /\ <<"catch", "run">> \in Last
    BY Known DEF Plain, Caught, Last
  <1>2. <<<<"reloadFw4">>, <<"refresh">>, <<"recheck">>, <<"applyPolicy">>, <<"catch", "run">>>>
          \in Scripts
    BY <1>1, List5, Zenon
  <1> QED BY <1>2, IsClearSets, ThenRuns DEF IfBypass

LEMMA ReloadFw4Runs == ASSUME IInv, NEW p \in Process, ReloadFw4IfNeeded(p) PROVE Runs
  <1>1. <<<<"fw4Reload">>, <<"setsReady">>>> \in Scripts
    <2>1. <<"fw4Reload">> \in Op /\ <<"setsReady">> \in Last  BY Known DEF Plain, Last
    <2> QED BY <2>1, List2, Zenon
  <1>2. ClearSets \o <<<<"fw4Reload">>, <<"setsReady">>>> \in Scripts
    BY <1>1, IsClearSets, Joins, Zenon
  <1> QED BY <1>2, ThenRuns, Nothing DEF ReloadFw4IfNeeded

LEMMA RefreshRuns == ASSUME IInv, NEW p \in Process, RefreshTargetsIfNeeded(p) PROVE Runs
  <1>1. <<<<"ret">>, <<"targetsReady">>>> \in Scripts
    <2>1. <<"ret">> \in Op /\ <<"targetsReady">> \in Last  BY Known DEF Plain, Last
    <2> QED BY <2>1, List2, Zenon
  <1>2. RefreshTargets \o <<<<"ret">>, <<"targetsReady">>>> \in Scripts
    BY <1>1, Parts, Joins, Zenon
  <1> QED BY <1>2, ThenRuns, Nothing DEF RefreshTargetsIfNeeded

LEMMA RecheckRuns == ASSUME IInv, NEW p \in Process, Recheck(p) PROVE Runs
  <1>1. <<<<"ret">>, <<"catch", "verify">>>> \in Scripts
    <2>1. <<"ret">> \in Op /\ <<"catch", "verify">> \in Last  BY Known DEF Plain, Caught, Last
    <2> QED BY <2>1, List2, Zenon
  <1>2. Verify \o <<<<"ret">>, <<"catch", "verify">>>> \in Scripts
    BY <1>1, Parts, Joins, Zenon
  <1> QED BY <1>2, ThenRuns, Nothing DEF Recheck

LEMMA ApplyPolicyRuns == ASSUME IInv, NEW p \in Process, ApplyPolicy(p) PROVE Runs
  <1>1. <<<<"ret">>, <<"exists", "nft_applied">>>> \in Scripts /\ <<<<"ret">>>> \in Scripts
    <2>1. /\ <<"ret">> \in Op /\ <<"exists", "nft_applied">> \in Last /\ <<"ret">> \in Last
      BY Known DEF Plain, Markers, Last
    <2> QED BY <2>1, List1, List2, Zenon
  <1>2. Apply \o <<<<"ret">>, <<"exists", "nft_applied">>>> \o Verify \o <<<<"ret">>>> \in Scripts
    BY <1>1, IsApply, Parts, Joins, Zenon
  <1> QED BY <1>2, ThenRuns, Nothing DEF ApplyPolicy

LEMMA WatchdogStepInv == ASSUME IInv, NEW p \in Process, WatchdogStep(p) PROVE IInv'
  <1>1. CASE WaitForDaemon(p)
    BY <1>1, BranchRuns, ScriptOnly, LeftSame DEF WaitForDaemon
  <1>3. CASE Loop(p)
    <2>1. starts' \in 0..Respawns + 1  BY <1>3, BoundAssumption DEF Loop, IInv, TypeOK
    <2>2. UNCHANGED <<nft, files, uci, daemon, registered, want, left>>  BY <1>3 DEF Loop
    <2> QED BY <1>3, <2>1, <2>2, LoopRuns DEF IInv, TypeOK, Runs
  <1>2. CASE ~WaitForDaemon(p) /\ ~Loop(p)
    <2>1. Runs
      BY <1>2, ActivateRuns, ProcessRequestsRuns, RoundRuns, IfBypassRuns, ReloadFw4Runs,
         RefreshRuns, RecheckRuns, ApplyPolicyRuns DEF WatchdogStep
    <2>2. UNCHANGED <<nft, files, uci, daemon, registered, starts, want, left>>
      BY <1>2 DEF WatchdogStep, Activate, ProcessRequests, RunOnce, IfHealthy, IfBypass,
         ReloadFw4IfNeeded, RefreshTargetsIfNeeded, Recheck, ApplyPolicy
    <2> QED BY <2>1, <2>2, ScriptOnly, LeftSame
  <1> QED BY <1>1, <1>2, <1>3

LEMMA StepInv == ASSUME IInv, NEW p \in Process, Step(p) PROVE IInv'
  BY FlushInv, FlushFailsInv, AddInv, ResolveInv, FailsInv, MakeTempDirInv, TestInv, ExpectInv, WriteInv,
     RemoveInv, ControlInv, Fw4ReloadInv, ServiceStepInv, WatchdogStepInv DEF Step

-----------------------------------------------------------------------------
LEMMA Outsiders == "watchdog" \in Process /\ Operator \subseteq Process
  BY DEF Process

LEMMA SpawnWatchdogInv == IInv /\ SpawnWatchdog => IInv'
  <1> SUFFICES ASSUME IInv, SpawnWatchdog PROVE IInv'  OBVIOUS
  <1>1. <<<<"activate">>, <<"loop">>>> \in Scripts
    <2>1. <<"activate">> \in Op /\ <<"loop">> \in Last  BY Known DEF Plain, Last
    <2> QED BY <2>1, List2, Zenon
  <1>2. Runs  BY <1>1, Outsiders, Sets DEF SpawnWatchdog
  <1>3. starts' \in 0..Respawns + 1  BY BoundAssumption DEF SpawnWatchdog, IInv, TypeOK
  <1> QED BY <1>2, <1>3 DEF SpawnWatchdog, IInv, TypeOK, Runs

LEMMA CallInv == ASSUME IInv, NEW p \in Operator, Call(p) PROVE IInv'
  <1>1. Runs  BY IsScript, Outsiders, Sets DEF Call
  <1> QED BY <1>1, ScriptOnly, SpendType DEF Call, Disturbance

LEMMA DaemonInv ==
  ASSUME IInv, DaemonStart \/ DaemonCrash \/ DaemonStops \/ RequestBypass
  PROVE  IInv'
  <1>1. left' \in [Disturbance -> Nat]
    BY SpendType, LeftSame DEF DaemonStart, DaemonCrash, DaemonStops, RequestBypass, Disturbance
  <1>2. files' \subseteq Markers \cup Runtime \cup {Request}
    BY DEF IInv, TypeOK, DaemonStart, DaemonCrash, DaemonStops, RequestBypass, Runtime
  <1>3. daemon' \in {"down", "starting", "listening", "ready", "healthy", "stopping"}
    BY DEF IInv, TypeOK, DaemonStart, DaemonCrash, DaemonStops, RequestBypass
  <1>4. UNCHANGED <<nft, uci, registered, starts, todo, want>>
    BY DEF DaemonStart, DaemonCrash, DaemonStops, RequestBypass
  <1> QED BY <1>1, <1>2, <1>3, <1>4 DEF IInv, TypeOK

LEMMA FirewallInv == IInv /\ Firewall => IInv'
  <1> SUFFICES ASSUME IInv, Firewall PROVE IInv'  OBVIOUS
  <1>1. Runs  BY DEF IInv, Runs, Firewall
  <1>2. Sound(nft')  BY TablesSound DEF Firewall
  <1> QED BY <1>1, <1>2, NftStep, SpendType DEF Firewall, Disturbance

LEMMA UciEditInv == IInv /\ UciEdit => IInv'
  <1> SUFFICES ASSUME IInv, UciEdit PROVE IInv'  OBVIOUS
  <1>1. left' \in [Disturbance -> Nat]  BY SpendType DEF UciEdit, Disturbance
  <1> QED BY <1>1 DEF UciEdit, IInv, TypeOK

LEMMA StutterInv == IInv /\ UNCHANGED vars => IInv'
  BY DEF IInv, TypeOK, vars

LEMMA NextInv == IInv /\ [Next]_vars => IInv'
  BY StutterInv, StepInv, CallInv, SpawnWatchdogInv, DaemonInv, FirewallInv, UciEditInv DEF Next

(* The inductive invariant: whatever a process has still to run is a       *)
(* script, wherever a failure, a signal or another command cut it.         *)
THEOREM Invariance == Spec => []IInv
  BY InitIInv, NextInv, PTL DEF Spec

(* The sets, the marker files, the daemon and the configuration stay what  *)
(* the scripts take them for, however the scripts, the firewall, the       *)
(* daemon and the administrators interleave: only known markers are        *)
(* written, every set holds device lists of the configuration, and a       *)
(* removed table is empty when it comes back.                              *)
THEOREM TypeCorrect == Spec => []TypeOK
  <1>1. IInv => TypeOK  BY DEF IInv
  <1> QED BY <1>1, Invariance, PTL
=============================================================================
