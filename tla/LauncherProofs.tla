--------------------------- MODULE LauncherProofs ---------------------------
(***************************************************************************)
(* What TLAPS proves about the launchers, for any number of them, versions *)
(* and shells.                                                             *)
(***************************************************************************)
EXTENDS Launcher, TLAPS

Intact == FileNames \ Damaged

\* Of a file that no two have rewritten at once: only one is rewriting it.
OneRewrites == \A f \in Intact : \A l, k \in At(f, Rewriting) : l = k

\* How far it is.
SoFar(l, f) ==
    [halves |-> CASE pc[l] = "first" -> <<Missing, Missing>>
                  [] pc[l] = "second" -> <<Content[l][f], Missing>>
                  [] pc[l] \in {"closed", "stamping"} -> <<Content[l][f], Content[l][f]>>,
     time |-> Now]

RewrittenSoFar == \A f \in Intact : \A l \in At(f, Rewriting) : file[f] = SoFar(l, f)

\* Launchers that are active at once know of each other.
KnowEachOther == \A l, k \in Launchers : Active(l) /\ Active(k) /\ l # k => k \in others[l]

\* A launcher is done with its files in their order.
Past(l, f) == Active(l) /\ (pc[l] \in {"run", "injecting"} \/ (f = Injector /\ at[l] = 2))

\* What a launcher has behind it is as it needs it, or what one of the others has
\* made of it.
PastIsWritten ==
    \A f \in Intact : \A l \in Launchers : Past(l, f) =>
        \/ file[f].halves = <<Content[l][f], Content[l][f]>>
        \/ \E o \in others[l] : \A i \in 1 .. 2 : file[f].halves[i] \in {Missing, Content[o][f]}

\* Without others, what is rewritten does not come into use, and what is compared
\* does not go out of use.
UndisturbedUse ==
    \A l \in Launchers : others[l] = {} =>
        /\ pc[l] \in Rewriting => ~InUse(CurrentFile(l))
        /\ pc[l] \in {"compare", "comparing"} => InUse(CurrentFile(l))

\* A library that is loaded stays what it was.
LoadedStays ==
    \A l \in Launchers : loaded[l] # Missing =>
        /\ pc[l] = "done"
        /\ Exists(Library)
        /\ At(Library, Writing \cup {"stamping"}) = {}
        /\ loaded[l] # Broken => file[Library].halves = <<loaded[l], loaded[l]>>

\* A file that is not there is empty, and who has not begun begins with the first.
Outset ==
    /\ \A f \in FileNames : ~Exists(f) => file[f].halves = <<Missing, Missing>>
    /\ \A l \in Launchers : pc[l] = "idle" => at[l] = 1

LauncherInv ==
    /\ TypeOK /\ Outset
    /\ OneRewrites /\ RewrittenSoFar /\ StampedIsWhole
    /\ KnowEachOther /\ PastIsWritten /\ UndisturbedUse
    /\ LoadedStays /\ LoadsItsOwn

\* The two files of Files, by their places.
LEMMA FileFacts ==
    ASSUME TypeOK, NEW l \in Launchers
    PROVE  /\ CurrentFile(l) = (IF at[l] = 1 THEN Injector ELSE Library)
           /\ CurrentFile(l) \in FileNames
           /\ at[l] < Len(Files) <=> at[l] = 1
<1>1. at[l] \in 1 .. 2
  BY DEF TypeOK
<1> QED BY <1>1 DEF CurrentFile, Files, FileNames

\* After one file comes the other, and after that the injector.
LEMMA FileDoneFacts ==
    ASSUME TypeOK, NEW l \in Launchers, FileDone(l)
    PROVE  /\ pc' = [pc EXCEPT ![l] = IF at[l] = 1 THEN "check" ELSE "run"]
           /\ at' = [at EXCEPT ![l] = 2]
           /\ at' \in [Launchers -> 1 .. 2]
BY FileFacts DEF FileDone, Goes, TypeOK

\* Written changes one half and the time of one file.
LEMMA WrittenFacts ==
    ASSUME TypeOK, NEW l \in Launchers, NEW f \in FileNames, NEW i \in 1 .. 2
    PROVE  /\ Written(l, f, i) \in [FileNames -> [halves : [1 .. 2 -> Contents \cup {Missing}],
                                                 time : Times \cup {Never, Now}]]
           /\ \A g \in FileNames \ {f} : Written(l, f, i)[g] = file[g]
           /\ Written(l, f, i)[f] = [halves |-> [file[f].halves EXCEPT ![i] = Content[l][f]], time |-> Now]
<1>1. file[f].halves \in [1 .. 2 -> Contents \cup {Missing}] /\ Content[l][f] \in Contents
  BY LauncherAssumption DEF TypeOK
<1>2. [file[f].halves EXCEPT ![i] = Content[l][f]] \in [1 .. 2 -> Contents \cup {Missing}]
  BY <1>1
<1> QED BY <1>2 DEF Written, TypeOK

\* A step that makes nobody active leaves who knows whom.
LEMMA NobodyNew ==
    ASSUME KnowEachOther, UNCHANGED others,
           \A k \in Launchers : Active(k)' => Active(k)
    PROVE  KnowEachOther'
BY DEF KnowEachOther

\* What concerns the others of a launcher that acts is disturbed by it.
LEMMA UseStays ==
    ASSUME KnowEachOther, NEW l \in Launchers, Active(l),
           \A k \in Launchers \ {l} : pc'[k] = pc[k] /\ others'[k] = others[k],
           others'[l] = {} /\ pc'[l] \in Rewriting => ~InUse(CurrentFile(l))',
           others'[l] = {} /\ pc'[l] \in {"compare", "comparing"} => InUse(CurrentFile(l))'
    PROVE  UndisturbedUse'
<1>1. ASSUME NEW k \in Launchers \ {l}, others'[k] = {}
      PROVE  pc'[k] \notin Rewriting \cup {"compare", "comparing"}
  <2>1. ~Active(k)
    BY <1>1 DEF KnowEachOther
  <2> QED BY <1>1, <2>1 DEF Active, Ended, Rewriting, Writing
<1> QED BY <1>1 DEF UndisturbedUse

\* A step at which nobody begins or goes on rewriting leaves how far it is.
LEMMA RewritingStays ==
    ASSUME OneRewrites, RewrittenSoFar, UNCHANGED <<file, clashed, short>>,
           \A f \in FileNames : \A k \in At(f, Rewriting)' : k \in At(f, Rewriting) /\ pc'[k] = pc[k]
    PROVE  OneRewrites' /\ RewrittenSoFar'
<1>1. Intact' = Intact /\ Intact \subseteq FileNames
  BY DEF Intact, Damaged
<1>2. OneRewrites'
  BY <1>1 DEF OneRewrites
<1>3. ASSUME NEW f \in Intact', NEW k \in At(f, Rewriting)' PROVE file'[f] = SoFar(k, f)'
  <2>1. k \in At(f, Rewriting) /\ pc'[k] = pc[k] /\ f \in Intact
    BY <1>1, <1>3
  <2>2. SoFar(k, f)' = SoFar(k, f)
    BY <2>1 DEF SoFar
  <2> QED BY <2>1, <2>2 DEF RewrittenSoFar
<1> QED BY <1>2, <1>3 DEF RewrittenSoFar

\* Two that rewrite are at two files.
LEMMA OnlyOne ==
    ASSUME OneRewrites, NEW f, NEW g \in Intact,
           NEW l \in At(f, Rewriting), NEW k \in At(g, Rewriting), k # l
    PROVE  g # f
BY DEF OneRewrites

\* A write that does not fail leaves the file as far as it should be.
LEMMA WriteFacts ==
    ASSUME TypeOK, RewrittenSoFar, NEW l \in Launchers, NEW f, f = CurrentFile(l),
           WriteFirst(l) \/ WriteSecond(l)
    PROVE  /\ pc[l] \in Writing
           /\ pc' = [pc EXCEPT ![l] = IF pc[l] = "first" THEN "second" ELSE "closed"]
           /\ UNCHANGED <<at, loaded, suspended, clashed, others>>
           /\ file' \in [FileNames -> [halves : [1 .. 2 -> Contents \cup {Missing}],
                                       time : Times \cup {Never, Now}]]
           /\ short' \subseteq FileNames
           /\ \A g \in FileNames \ {f} : file'[g] = file[g]
           /\ f \in FileNames /\ Intact' \subseteq Intact
           /\ f \in Intact' => file'[f] = SoFar(l, f)'
<1> f \in FileNames
  BY FileFacts
<1>1. ASSUME NEW i \in 1 .. 2, NEW next, Write(l, i, next), next = IF i = 1 THEN "second" ELSE "closed"
      PROVE  /\ pc[l] = (IF i = 1 THEN "first" ELSE "second")
             /\ pc' = [pc EXCEPT ![l] = next]
             /\ UNCHANGED <<at, loaded, suspended, clashed, others>>
             /\ \/ file' = Written(l, f, i) /\ short' = short
                \/ file' = file /\ short' = short \cup {f}
  BY <1>1 DEF Write, Goes, Step
<1>2. PICK i \in 1 .. 2 :
          /\ pc[l] = (IF i = 1 THEN "first" ELSE "second")
          /\ pc' = [pc EXCEPT ![l] = IF i = 1 THEN "second" ELSE "closed"]
          /\ UNCHANGED <<at, loaded, suspended, clashed, others>>
          /\ \/ file' = Written(l, f, i) /\ short' = short
             \/ file' = file /\ short' = short \cup {f}
  BY <1>1 DEF WriteFirst, WriteSecond
<1>3. /\ pc[l] \in Writing
      /\ pc' = [pc EXCEPT ![l] = IF pc[l] = "first" THEN "second" ELSE "closed"]
      /\ UNCHANGED <<at, loaded, suspended, clashed, others>>
  BY <1>2 DEF Writing
<1>a. /\ Written(l, f, i) \in [FileNames -> [halves : [1 .. 2 -> Contents \cup {Missing}],
                                              time : Times \cup {Never, Now}]]
      /\ \A g \in FileNames \ {f} : Written(l, f, i)[g] = file[g]
      /\ Written(l, f, i)[f] = [halves |-> [file[f].halves EXCEPT ![i] = Content[l][f]], time |-> Now]
  BY <1>2, WrittenFacts, ZenonT(30)
<1>4. /\ file' \in [FileNames -> [halves : [1 .. 2 -> Contents \cup {Missing}],
                                 time : Times \cup {Never, Now}]]
      /\ short' \subseteq FileNames
      /\ \A g \in FileNames \ {f} : file'[g] = file[g]
  <2>1. CASE file' = Written(l, f, i) /\ short' = short
    BY <2>1, <1>a DEF TypeOK
  <2>2. CASE file' = file /\ short' = short \cup {f}
    BY <2>2 DEF TypeOK
  <2> QED BY <1>2, <2>1, <2>2
<1>5. Intact' \subseteq Intact
  BY <1>2 DEF Intact, Damaged
<1>6. ASSUME f \in Intact' PROVE file'[f] = SoFar(l, f)'
  <2>1. file'[f] = [halves |-> [file[f].halves EXCEPT ![i] = Content[l][f]], time |-> Now]
    <3>1. f \notin short'
      BY <1>6 DEF Intact, Damaged
    <3>2. file' = Written(l, f, i)
      BY <1>2, <3>1
    <3> QED BY <1>a, <3>2
  <2>2. file[f] = SoFar(l, f)
    BY <1>2, <1>5, <1>6 DEF RewrittenSoFar, At, Rewriting, Writing
  <2>3. CASE i = 1
    BY <1>2, <2>1, <2>2, <2>3 DEF SoFar, TypeOK
  <2>4. CASE i = 2
    BY <1>2, <2>1, <2>2, <2>4 DEF SoFar, TypeOK
  <2> QED BY <2>3, <2>4
<1> QED BY <1>3, <1>4, <1>5, <1>6

\* A launcher that leaves a file behind it has found it to be its own.
LEMMA PastStays ==
    ASSUME PastIsWritten, NEW l \in Launchers, UNCHANGED <<file, clashed, short, others>>,
           \A k \in Launchers \ {l}, f \in FileNames : Past(k, f)' => Past(k, f),
           \A f \in Intact : Past(l, f)' => Past(l, f) \/ file[f].halves = <<Content[l][f], Content[l][f]>>
    PROVE  PastIsWritten'
BY DEF PastIsWritten, Intact, Damaged

\* A launcher that starts is noticed by those that are active.
LEMMA LaunchPreserves ==
    ASSUME LauncherInv, NEW l \in Launchers, Launch(l)
    PROVE  LauncherInv'
<1> USE LauncherAssumption, FileFacts DEF LauncherInv, Intact, Damaged, Active, Ended,
    Reading, Writing, Rewriting, Goes, Step, CurrentFile, Files, Whole, TypeOK, Steps,
    FileNames
<1>a. /\ pc[l] = "idle" /\ at[l] = 1
      /\ pc' = [pc EXCEPT ![l] = "check"]
      /\ UNCHANGED <<file, at, loaded, suspended, clashed, short>>
      /\ others' \in [Launchers -> SUBSET Launchers]
      /\ \A k \in Launchers \ {l} : Active(k) => others'[k] = others[k] \cup {l}
      /\ \A k \in Launchers \ {l} : ~Active(k) => others'[k] = others[k]
      /\ others'[l] = {k \in Launchers : Active(k)}
  BY DEF Launch, Noticed, Outset
<1>1. TypeOK'
  BY <1>a
<1>2. Outset'
  BY <1>a DEF Outset, Exists
<1>3. OneRewrites'
  BY <1>a DEF OneRewrites, At
<1>4. RewrittenSoFar'
  BY <1>a DEF RewrittenSoFar, SoFar, At
<1>5. StampedIsWhole'
  BY <1>a DEF StampedIsWhole
<1>6. KnowEachOther'
  BY <1>a DEF KnowEachOther
<1>7. PastIsWritten'
  <2>1. ASSUME NEW f \in Intact', NEW k \in Launchers, Past(k, f)'
        PROVE  Past(k, f) /\ f \in Intact /\ others[k] \subseteq others'[k]
    <3>1. k # l /\ Past(k, f) /\ f \in Intact
      BY <1>a, <2>1 DEF Past
    <3> QED BY <1>a, <3>1 DEF Past
  <2>2. file' = file
    BY <1>a
  <2> QED BY <2>1, <2>2 DEF PastIsWritten
<1>8. UndisturbedUse'
  BY <1>a DEF UndisturbedUse, InUse
<1>9. LoadedStays'
  BY <1>a DEF LoadedStays, Exists, At
<1>10. LoadsItsOwn'
  BY DEF Launch, Noticed, LoadsItsOwn, LoadedStays, PastIsWritten, Past, Executed, InUse,
      CanWrite
<1> QED BY <1>1, <1>2, <1>3, <1>4, <1>5, <1>6, <1>7, <1>8, <1>9, <1>10

\* To open a file for its time changes nothing but the step.
LEMMA OpenToCheckPreserves ==
    ASSUME LauncherInv, NEW l \in Launchers, OpenToCheck(l)
    PROVE  LauncherInv'
<1> USE LauncherAssumption, FileFacts DEF LauncherInv, Intact, Damaged, Active, Ended,
    Reading, Writing, Rewriting, Goes, Step, CurrentFile, Files, Whole, TypeOK, Steps,
    FileNames
<1>1. TypeOK'
  BY DEF OpenToCheck
<1>2. Outset'
  BY DEF OpenToCheck, Outset, Exists
<1>3. OneRewrites'
  BY DEF OpenToCheck, OneRewrites, At
<1>4. RewrittenSoFar'
  BY DEF OpenToCheck, RewrittenSoFar, SoFar, At
<1>5. StampedIsWhole'
  BY DEF OpenToCheck, StampedIsWhole
<1>6. KnowEachOther'
  BY DEF OpenToCheck, KnowEachOther
<1>7. PastIsWritten'
  BY DEF OpenToCheck, PastIsWritten, Past
<1>8. UndisturbedUse'
  BY DEF OpenToCheck, UndisturbedUse, InUse
<1>9. LoadedStays'
  BY DEF OpenToCheck, LoadedStays, Exists, At
<1>10. LoadsItsOwn'
  BY DEF OpenToCheck, LoadsItsOwn
<1> QED BY <1>1, <1>2, <1>3, <1>4, <1>5, <1>6, <1>7, <1>8, <1>9, <1>10

\* A time that is its own shows a launcher that the file is its own.
LEMMA CheckPreserves ==
    ASSUME LauncherInv, NEW l \in Launchers, Check(l)
    PROVE  LauncherInv'
<1> USE LauncherAssumption, FileFacts DEF LauncherInv, Intact, Damaged, Active, Ended,
    Reading, Writing, Rewriting, Goes, Step, CurrentFile, Files, Whole, TypeOK, Steps,
    FileNames
<1>a. /\ pc[l] = "checking"
      /\ \/ /\ file[CurrentFile(l)].time = Stamp[l]
            /\ pc' = [pc EXCEPT ![l] = IF at[l] = 1 THEN "check" ELSE "run"]
            /\ at' = [at EXCEPT ![l] = 2] /\ at' \in [Launchers -> 1 .. 2]
         \/ pc' = [pc EXCEPT ![l] = "extract"] /\ at' = at
      /\ UNCHANGED <<file, loaded, suspended, clashed, short, others>>
  BY FileDoneFacts DEF Check, MtimeMatchesSelf
<1>1. TypeOK'
  BY <1>a, SMTT(30)
<1>2. Outset'
  BY <1>a DEF Outset, Exists
<1>3. OneRewrites'
  <2>1. \A f \in FileNames : \A k \in At(f, Rewriting)' : k \in At(f, Rewriting) /\ pc'[k] = pc[k]
    BY <1>a DEF At
  <2> QED BY <1>a, <2>1, RewritingStays
<1>4. RewrittenSoFar'
  <2>1. \A f \in FileNames : \A k \in At(f, Rewriting)' : k \in At(f, Rewriting) /\ pc'[k] = pc[k]
    BY <1>a DEF At
  <2> QED BY <1>a, <2>1, RewritingStays
<1>5. StampedIsWhole'
  BY <1>a DEF StampedIsWhole
<1>6. KnowEachOther'
  <2>1. \A k \in Launchers : Active(k)' => Active(k)
    BY <1>a
  <2> QED BY <1>a, <2>1, NobodyNew
<1>7. PastIsWritten'
  <2>1. \A k \in Launchers \ {l}, f \in FileNames : Past(k, f)' => Past(k, f)
    BY <1>a DEF Past
  <2>2. ASSUME NEW f \in Intact, Past(l, f)'
        PROVE  Past(l, f) \/ file[f].halves = <<Content[l][f], Content[l][f]>>
    <3>1. CASE f = CurrentFile(l) /\ file[f].time = Stamp[l]
      <4>1. file[f] = [halves |-> <<Content[l][f], Content[l][f]>>, time |-> Stamp[l]]
        BY <2>2, <3>1 DEF StampedIsWhole, Intact
      <4> QED BY <4>1
    <3>2. CASE ~(f = CurrentFile(l) /\ file[f].time = Stamp[l])
      BY <1>a, <2>2, <3>2 DEF Past
    <3> QED BY <3>1, <3>2
  <2> QED BY <1>a, <2>1, <2>2, PastStays
<1>8. UndisturbedUse'
  <2>1. Active(l) /\ pc'[l] \notin Rewriting \cup {"compare", "comparing"}
    BY <1>a
  <2>2. \A k \in Launchers \ {l} : pc'[k] = pc[k] /\ others'[k] = others[k]
    BY <1>a
  <2> QED BY <2>1, <2>2, UseStays
<1>9. LoadedStays'
  BY <1>a DEF LoadedStays, Exists, At
<1>10. LoadsItsOwn'
  BY <1>a DEF LoadsItsOwn
<1> QED BY <1>1, <1>2, <1>3, <1>4, <1>5, <1>6, <1>7, <1>8, <1>9, <1>10

\* To truncate a file disturbs those that have it behind them, and damages it for
\* those that are rewriting it.
LEMMA OpenToWritePreserves ==
    ASSUME LauncherInv, NEW l \in Launchers, OpenToWrite(l)
    PROVE  LauncherInv'
<1> USE LauncherAssumption, FileFacts DEF LauncherInv, Intact, Damaged, Active, Ended,
    Reading, Writing, Rewriting, Goes, Step, CurrentFile, Files, Whole, TypeOK, Steps,
    FileNames
<1> DEFINE f == CurrentFile(l)
<1>a. /\ pc[l] = "extract" /\ f \in FileNames /\ ~InUse(f)
      /\ file' = [file EXCEPT ![f] = [halves |-> <<Missing, Missing>>, time |-> Now]]
      /\ pc' = [pc EXCEPT ![l] = "first"]
      /\ UNCHANGED <<at, loaded, suspended, others>>
  BY DEF OpenToWrite, CanWrite
<1>c. Intact' \ {f} \subseteq Intact /\ (f \in Intact' => At(f, Rewriting) = {})
  <2>1. /\ clashed' = IF At(f, Rewriting) = {} THEN clashed \ {f} ELSE clashed \cup {f}
        /\ short' = short \ {f}
    BY DEF OpenToWrite
  <2> QED BY <1>a, <2>1
<1>b. /\ \A g \in FileNames \ {f} : file'[g] = file[g]
      /\ file'[f] = [halves |-> <<Missing, Missing>>, time |-> Now]
  BY <1>a
<1>1. TypeOK'
  BY DEF OpenToWrite, TypeOK, Steps
<1>2. Outset'
  BY <1>a DEF Outset, Exists
<1>3. OneRewrites'
  BY DEF OpenToWrite, OneRewrites, At
<1>4. RewrittenSoFar'
  BY SMTT(30) DEF OpenToWrite, RewrittenSoFar, OneRewrites, SoFar, At
<1>5. StampedIsWhole'
  <2>1. ASSUME NEW g \in Intact', NEW k \in Launchers, file'[g].time = Stamp[k]
        PROVE  g \in Intact /\ file'[g] = file[g]
    BY <1>a, <1>b, <1>c, <2>1
  <2> QED BY <2>1 DEF StampedIsWhole
<1>6. KnowEachOther'
  BY <1>a DEF KnowEachOther
<1>7. PastIsWritten'
  <2>1. ASSUME NEW g \in Intact', NEW k \in Launchers, Past(k, g)'
        PROVE  \/ file'[g].halves = <<Content[k][g], Content[k][g]>>
               \/ \E o \in others[k] : \A i \in 1 .. 2 : file'[g].halves[i] \in {Missing, Content[o][g]}
    <3>1. Past(k, g) /\ Active(l)
      BY <1>a, <2>1 DEF Past
    <3>2. CASE g = f
      <4>1. l \in others[k]
        BY <1>a, <3>1, <3>2 DEF KnowEachOther, Past
      <4> QED BY <1>b, <3>2, <4>1, SMTT(30)
    <3>3. CASE g # f
      BY <1>a, <1>b, <1>c, <2>1, <3>1, <3>3 DEF PastIsWritten
    <3> QED BY <3>2, <3>3
  <2> QED BY <1>a, <2>1 DEF PastIsWritten
<1>8. UndisturbedUse'
  BY <1>a DEF UndisturbedUse, InUse
<1>9. LoadedStays'
  <2>1. ASSUME NEW k \in Launchers, loaded[k] # Missing
        PROVE  /\ pc'[k] = "done" /\ file'[Library] = file[Library]
               /\ At(Library, Writing \cup {"stamping"})' = {}
    <3>1. pc[k] = "done" /\ At(Library, Writing \cup {"stamping"}) = {}
      BY <2>1 DEF LoadedStays
    <3>2. f # Library
      BY <1>a, <2>1 DEF InUse
    <3>3. At(Library, Writing \cup {"stamping"})' = {}
      BY <1>a, <3>1, <3>2, SMTT(30) DEF At
    <3> QED BY <1>a, <1>b, <3>1, <3>2, <3>3
  <2> QED BY <1>a, <2>1 DEF LoadedStays, Exists
<1>10. LoadsItsOwn'
  BY DEF OpenToWrite, LoadsItsOwn, LoadedStays, PastIsWritten, Past, Executed, InUse, CanWrite
<1> QED BY <1>1, <1>2, <1>3, <1>4, <1>5, <1>6, <1>7, <1>8, <1>9, <1>10

\* The first half of the file.
LEMMA WriteFirstPreserves ==
    ASSUME LauncherInv, NEW l \in Launchers, WriteFirst(l)
    PROVE  LauncherInv'
<1>0. OneRewrites
  BY DEF LauncherInv
<1> USE LauncherAssumption, FileFacts DEF LauncherInv, Intact, Damaged, Active, Ended,
    Reading, Writing, Rewriting, Goes, Step, CurrentFile, Files, Whole, TypeOK, Steps,
    FileNames
<1> DEFINE f == CurrentFile(l)
<1>a. /\ pc[l] \in Writing
      /\ pc' = [pc EXCEPT ![l] = IF pc[l] = "first" THEN "second" ELSE "closed"]
      /\ UNCHANGED <<at, loaded, suspended, clashed, others>>
      /\ file' \in [FileNames -> [halves : [1 .. 2 -> Contents \cup {Missing}],
                                  time : Times \cup {Never, Now}]]
      /\ short' \subseteq FileNames
      /\ \A g \in FileNames \ {f} : file'[g] = file[g]
      /\ f \in FileNames /\ Intact' \subseteq Intact
      /\ f \in Intact' => file'[f] = SoFar(l, f)'
  BY WriteFacts
<1>b. f \in Intact' => file'[f].time = Now
                       /\ \A i \in 1 .. 2 : file'[f].halves[i] \in {Missing, Content[l][f]}
  BY <1>a DEF SoFar
<1>1. TypeOK'
  BY <1>a
<1>2. Outset'
  BY DEF WriteFirst, Write, Written, Outset, Exists
<1>3. OneRewrites'
  BY <1>a DEF OneRewrites, At
<1>4. RewrittenSoFar'
  <2>1. ASSUME NEW g \in Intact', NEW k \in At(g, Rewriting)' PROVE file'[g] = SoFar(k, g)'
    <3>1. CASE k = l
      BY <1>a, <2>1, <3>1 DEF At
    <3>2. CASE k # l
      <4>1. k \in At(g, Rewriting) /\ pc'[k] = pc[k] /\ l \in At(f, Rewriting)
        BY <1>a, <2>1, <3>2 DEF At
      <4>2. g # f /\ g \in Intact
        <5>1. g \in Intact
          BY <1>a, <2>1
        <5> HIDE DEF f, LauncherInv, Intact, Damaged, Active, Ended, Reading, Writing,
            Rewriting, Goes, Step, CurrentFile, Files, Whole, TypeOK, Steps, FileNames
        <5> QED BY <1>0, <3>2, <4>1, <5>1, OnlyOne
      <4>3. SoFar(k, g)' = SoFar(k, g)
        BY <4>1 DEF SoFar
      <4>4. file[g] = SoFar(k, g)
        BY <4>1, <4>2 DEF RewrittenSoFar
      <4>5. file'[g] = file[g]
        BY <1>a, <4>2
      <4> QED BY <4>3, <4>4, <4>5
    <3> QED BY <3>1, <3>2
  <2> QED BY <2>1 DEF RewrittenSoFar
<1>5. StampedIsWhole'
  BY <1>a, <1>b DEF StampedIsWhole
<1>6. KnowEachOther'
  BY <1>a DEF KnowEachOther
<1>7. PastIsWritten'
  <2>1. ASSUME NEW g \in Intact', NEW k \in Launchers, Past(k, g)'
        PROVE  \/ file'[g].halves = <<Content[k][g], Content[k][g]>>
               \/ \E o \in others[k] : \A i \in 1 .. 2 : file'[g].halves[i] \in {Missing, Content[o][g]}
    <3>1. Past(k, g)
      BY <1>a, <2>1 DEF Past
    <3>2. CASE g = f
      <4>1. k # l /\ Active(k) /\ Active(l)
        BY <1>a, <3>1, <3>2 DEF Past
      <4>2. l \in others[k]
        BY <4>1 DEF KnowEachOther
      <4> QED BY <1>b, <2>1, <3>2, <4>2
    <3>3. CASE g # f
      BY <1>a, <2>1, <3>1, <3>3 DEF PastIsWritten
    <3> QED BY <3>2, <3>3
  <2> QED BY <1>a, <2>1 DEF PastIsWritten
<1>8. UndisturbedUse'
  <2>1. Active(l) /\ pc'[l] \notin {"compare", "comparing"}
    BY <1>a
  <2>2. others'[l] = {} => ~InUse(CurrentFile(l))
    BY <1>a DEF UndisturbedUse
  <2>3. InUse(CurrentFile(l))' <=> InUse(CurrentFile(l))
    BY <1>a DEF InUse
  <2> QED BY <1>a, <2>1, <2>2, <2>3, UseStays
<1>9. LoadedStays'
  <2>1. ASSUME NEW k \in Launchers, loaded[k] # Missing
        PROVE  /\ pc'[k] = "done" /\ file'[Library] = file[Library]
               /\ At(Library, Writing \cup {"stamping"})' = {}
    <3>1. pc[k] = "done" /\ At(Library, Writing \cup {"stamping"}) = {}
      BY <2>1 DEF LoadedStays
    <3>2. f # Library
      BY <1>a, <3>1 DEF At
    <3>3. At(Library, Writing \cup {"stamping"})' = {}
      BY <1>a, <3>1, <3>2 DEF At
    <3> QED BY <1>a, <3>1, <3>2, <3>3
  <2> QED BY <1>a, <2>1 DEF LoadedStays, Exists
<1>10. LoadsItsOwn'
  BY <1>a DEF LoadsItsOwn
<1> QED BY <1>1, <1>2, <1>3, <1>4, <1>5, <1>6, <1>7, <1>8, <1>9, <1>10

\* The second half of the file.
LEMMA WriteSecondPreserves ==
    ASSUME LauncherInv, NEW l \in Launchers, WriteSecond(l)
    PROVE  LauncherInv'
<1>0. OneRewrites
  BY DEF LauncherInv
<1> USE LauncherAssumption, FileFacts DEF LauncherInv, Intact, Damaged, Active, Ended,
    Reading, Writing, Rewriting, Goes, Step, CurrentFile, Files, Whole, TypeOK, Steps,
    FileNames
<1> DEFINE f == CurrentFile(l)
<1>a. /\ pc[l] \in Writing
      /\ pc' = [pc EXCEPT ![l] = IF pc[l] = "first" THEN "second" ELSE "closed"]
      /\ UNCHANGED <<at, loaded, suspended, clashed, others>>
      /\ file' \in [FileNames -> [halves : [1 .. 2 -> Contents \cup {Missing}],
                                  time : Times \cup {Never, Now}]]
      /\ short' \subseteq FileNames
      /\ \A g \in FileNames \ {f} : file'[g] = file[g]
      /\ f \in FileNames /\ Intact' \subseteq Intact
      /\ f \in Intact' => file'[f] = SoFar(l, f)'
  BY WriteFacts
<1>b. f \in Intact' => file'[f].time = Now
                       /\ \A i \in 1 .. 2 : file'[f].halves[i] \in {Missing, Content[l][f]}
  BY <1>a DEF SoFar
<1>1. TypeOK'
  BY <1>a
<1>2. Outset'
  BY DEF WriteSecond, Write, Written, Outset, Exists
<1>3. OneRewrites'
  BY <1>a DEF OneRewrites, At
<1>4. RewrittenSoFar'
  <2>1. ASSUME NEW g \in Intact', NEW k \in At(g, Rewriting)' PROVE file'[g] = SoFar(k, g)'
    <3>1. CASE k = l
      BY <1>a, <2>1, <3>1 DEF At
    <3>2. CASE k # l
      <4>1. k \in At(g, Rewriting) /\ pc'[k] = pc[k] /\ l \in At(f, Rewriting)
        BY <1>a, <2>1, <3>2 DEF At
      <4>2. g # f /\ g \in Intact
        <5>1. g \in Intact
          BY <1>a, <2>1
        <5> HIDE DEF f, LauncherInv, Intact, Damaged, Active, Ended, Reading, Writing,
            Rewriting, Goes, Step, CurrentFile, Files, Whole, TypeOK, Steps, FileNames
        <5> QED BY <1>0, <3>2, <4>1, <5>1, OnlyOne
      <4>3. SoFar(k, g)' = SoFar(k, g)
        BY <4>1 DEF SoFar
      <4>4. file[g] = SoFar(k, g)
        BY <4>1, <4>2 DEF RewrittenSoFar
      <4>5. file'[g] = file[g]
        BY <1>a, <4>2
      <4> QED BY <4>3, <4>4, <4>5
    <3> QED BY <3>1, <3>2
  <2> QED BY <2>1 DEF RewrittenSoFar
<1>5. StampedIsWhole'
  BY <1>a, <1>b DEF StampedIsWhole
<1>6. KnowEachOther'
  BY <1>a DEF KnowEachOther
<1>7. PastIsWritten'
  <2>1. ASSUME NEW g \in Intact', NEW k \in Launchers, Past(k, g)'
        PROVE  \/ file'[g].halves = <<Content[k][g], Content[k][g]>>
               \/ \E o \in others[k] : \A i \in 1 .. 2 : file'[g].halves[i] \in {Missing, Content[o][g]}
    <3>1. Past(k, g)
      BY <1>a, <2>1 DEF Past
    <3>2. CASE g = f
      <4>1. k # l /\ Active(k) /\ Active(l)
        BY <1>a, <3>1, <3>2 DEF Past
      <4>2. l \in others[k]
        BY <4>1 DEF KnowEachOther
      <4> QED BY <1>b, <2>1, <3>2, <4>2
    <3>3. CASE g # f
      BY <1>a, <2>1, <3>1, <3>3 DEF PastIsWritten
    <3> QED BY <3>2, <3>3
  <2> QED BY <1>a, <2>1 DEF PastIsWritten
<1>8. UndisturbedUse'
  <2>1. Active(l) /\ pc'[l] \notin {"compare", "comparing"}
    BY <1>a
  <2>2. others'[l] = {} => ~InUse(CurrentFile(l))
    BY <1>a DEF UndisturbedUse
  <2>3. InUse(CurrentFile(l))' <=> InUse(CurrentFile(l))
    BY <1>a DEF InUse
  <2> QED BY <1>a, <2>1, <2>2, <2>3, UseStays
<1>9. LoadedStays'
  <2>1. ASSUME NEW k \in Launchers, loaded[k] # Missing
        PROVE  /\ pc'[k] = "done" /\ file'[Library] = file[Library]
               /\ At(Library, Writing \cup {"stamping"})' = {}
    <3>1. pc[k] = "done" /\ At(Library, Writing \cup {"stamping"}) = {}
      BY <2>1 DEF LoadedStays
    <3>2. f # Library
      BY <1>a, <3>1 DEF At
    <3>3. At(Library, Writing \cup {"stamping"})' = {}
      BY <1>a, <3>1, <3>2 DEF At
    <3> QED BY <1>a, <3>1, <3>2, <3>3
  <2> QED BY <1>a, <2>1 DEF LoadedStays, Exists
<1>10. LoadsItsOwn'
  BY <1>a DEF LoadsItsOwn
<1> QED BY <1>1, <1>2, <1>3, <1>4, <1>5, <1>6, <1>7, <1>8, <1>9, <1>10

\* The file is closed; to open it again changes nothing but the step.
LEMMA OpenToStampPreserves ==
    ASSUME LauncherInv, NEW l \in Launchers, OpenToStamp(l)
    PROVE  LauncherInv'
<1> USE LauncherAssumption, FileFacts DEF LauncherInv, Intact, Damaged, Active, Ended,
    Reading, Writing, Rewriting, Goes, Step, CurrentFile, Files, Whole, TypeOK, Steps,
    FileNames
<1>1. TypeOK'
  BY DEF OpenToStamp
<1>2. Outset'
  BY DEF OpenToStamp, Outset, Exists
<1>3. OneRewrites'
  BY DEF OpenToStamp, OneRewrites, At
<1>4. RewrittenSoFar'
  BY DEF OpenToStamp, RewrittenSoFar, SoFar, At
<1>5. StampedIsWhole'
  BY DEF OpenToStamp, StampedIsWhole
<1>6. KnowEachOther'
  BY DEF OpenToStamp, KnowEachOther
<1>7. PastIsWritten'
  BY DEF OpenToStamp, PastIsWritten, Past
<1>8. UndisturbedUse'
  BY DEF OpenToStamp, UndisturbedUse, InUse
<1>9. LoadedStays'
  BY SMTT(30) DEF OpenToStamp, LoadedStays, InUse, CanWrite, CanStamp, CanExecute, Executed, Exists, At
<1>10. LoadsItsOwn'
  BY DEF OpenToStamp, LoadsItsOwn
<1> QED BY <1>1, <1>2, <1>3, <1>4, <1>5, <1>6, <1>7, <1>8, <1>9, <1>10

\* A file gets the time when it is whole, unless it is damaged.
LEMMA SetMtimeOfFilePreserves ==
    ASSUME LauncherInv, NEW l \in Launchers, SetMtimeOfFile(l)
    PROVE  LauncherInv'
<1> USE LauncherAssumption, FileFacts DEF LauncherInv, Intact, Damaged, Active, Ended,
    Reading, Writing, Rewriting, Goes, Step, CurrentFile, Files, Whole, TypeOK, Steps,
    FileNames
<1>a. /\ pc[l] = "stamping"
      /\ file' = [file EXCEPT ![CurrentFile(l)].time = Stamp[l]]
      /\ pc' = [pc EXCEPT ![l] = IF at[l] = 1 THEN "check" ELSE "run"]
      /\ at' = [at EXCEPT ![l] = 2] /\ at' \in [Launchers -> 1 .. 2]
      /\ UNCHANGED <<loaded, suspended, clashed, short, others>>
  BY FileDoneFacts DEF SetMtimeOfFile
<1> DEFINE f == CurrentFile(l)
<1>b. /\ f \in FileNames /\ l \in At(f, Rewriting)
      /\ file'[f].halves = file[f].halves /\ file'[f] = [halves |-> file[f].halves, time |-> Stamp[l]]
      /\ \A g \in FileNames \ {f} : file'[g] = file[g]
  BY <1>a DEF At
<1>c. f \in Intact => file[f].halves = <<Content[l][f], Content[l][f]>>
  <2>1. f \in Intact => file[f] = SoFar(l, f)
    BY <1>b DEF RewrittenSoFar
  <2>2. SoFar(l, f).halves = <<Content[l][f], Content[l][f]>>
    BY <1>a DEF SoFar
  <2> QED BY <2>1, <2>2
<1>1. TypeOK'
  BY <1>a, SMTT(30)
<1>2. Outset'
  BY <1>a DEF Outset, Exists
<1>3. OneRewrites'
  BY <1>a DEF OneRewrites, At
<1>4. RewrittenSoFar'
  BY <1>a DEF RewrittenSoFar, OneRewrites, SoFar, At
<1>5. StampedIsWhole'
  <2>1. ASSUME NEW g \in Intact, NEW k \in Launchers, file'[g].time = Stamp[k]
        PROVE  file'[g] = Whole(Content[k][g], Stamp[k])
    <3>1. CASE g = f
      <4>1. Stamp[l] = Stamp[k]
        BY <1>b, <2>1, <3>1
      <4>2. Content[l] = Content[k]
        BY <4>1
      <4> QED BY <1>b, <1>c, <3>1, <4>1, <4>2
    <3>2. CASE g # f
      BY <1>b, <2>1, <3>2 DEF StampedIsWhole
    <3> QED BY <3>1, <3>2
  <2>2. Intact' = Intact
    BY <1>a
  <2> QED BY <2>1, <2>2 DEF StampedIsWhole
<1>6. KnowEachOther'
  <2>1. \A k \in Launchers : Active(k)' => Active(k)
    BY <1>a
  <2> QED BY <1>a, <2>1, NobodyNew
<1>7. PastIsWritten'
  <2>1. ASSUME NEW g \in Intact, NEW k \in Launchers, Past(k, g)'
        PROVE  \/ file'[g].halves = <<Content[k][g], Content[k][g]>>
               \/ \E o \in others[k] : \A i \in 1 .. 2 : file'[g].halves[i] \in {Missing, Content[o][g]}
    <3>1. file'[g].halves = file[g].halves
      BY <1>a, <1>b
    <3>2. Past(k, g) \/ (k = l /\ g = f)
      BY <1>a, <2>1 DEF Past
    <3> QED BY <1>c, <2>1, <3>1, <3>2 DEF PastIsWritten
  <2> QED BY <1>a, <2>1 DEF PastIsWritten
<1>8. UndisturbedUse'
  BY <1>a DEF UndisturbedUse, InUse
<1>9. LoadedStays'
  BY <1>a DEF LoadedStays, Exists, At
<1>10. LoadsItsOwn'
  BY <1>a DEF LoadsItsOwn
<1> QED BY <1>1, <1>2, <1>3, <1>4, <1>5, <1>6, <1>7, <1>8, <1>9, <1>10

\* A file that cannot be written to is opened to be compared.
LEMMA OpenToComparePreserves ==
    ASSUME LauncherInv, NEW l \in Launchers, OpenToCompare(l)
    PROVE  LauncherInv'
<1> USE LauncherAssumption, FileFacts DEF LauncherInv, Intact, Damaged, Active, Ended,
    Reading, Writing, Rewriting, Goes, Step, CurrentFile, Files, Whole, TypeOK, Steps,
    FileNames
<1>a. /\ \/ pc[l] = "extract" /\ ~CanWrite(CurrentFile(l)) /\ pc' = [pc EXCEPT ![l] = "compare"]
         \/ pc[l] = "compare" /\ (pc' = [pc EXCEPT ![l] = "comparing"] \/ pc' = [pc EXCEPT ![l] = "fatal"])
      /\ UNCHANGED <<file, at, loaded, suspended, clashed, short, others>>
  BY DEF OpenToCompare
<1>1. TypeOK'
  BY <1>a, SMTT(30)
<1>2. Outset'
  BY <1>a DEF Outset, Exists
<1>3. OneRewrites'
  <2>1. \A f \in FileNames : \A k \in At(f, Rewriting)' : k \in At(f, Rewriting) /\ pc'[k] = pc[k]
    BY <1>a DEF At
  <2> QED BY <1>a, <2>1, RewritingStays
<1>4. RewrittenSoFar'
  <2>1. \A f \in FileNames : \A k \in At(f, Rewriting)' : k \in At(f, Rewriting) /\ pc'[k] = pc[k]
    BY <1>a DEF At
  <2> QED BY <1>a, <2>1, RewritingStays
<1>5. StampedIsWhole'
  BY <1>a DEF StampedIsWhole
<1>6. KnowEachOther'
  <2>1. \A k \in Launchers : Active(k)' => Active(k)
    BY <1>a
  <2> QED BY <1>a, <2>1, NobodyNew
<1>7. PastIsWritten'
  <2>1. \A k \in Launchers \ {l}, f \in FileNames : Past(k, f)' => Past(k, f)
    BY <1>a DEF Past
  <2>2. \A f \in Intact : Past(l, f)' => Past(l, f) \/ file[f].halves = <<Content[l][f], Content[l][f]>>
    BY <1>a DEF Past, StampedIsWhole
  <2> QED BY <1>a, <2>1, <2>2, PastStays
<1>8. UndisturbedUse'
  <2>1. Active(l)
    BY <1>a
  <2>2. ASSUME others'[l] = {} PROVE pc[l] = "extract" => InUse(CurrentFile(l))
    BY <1>a, <2>2 DEF KnowEachOther, CanWrite, At
  <2>3. others'[l] = {} /\ pc'[l] \in {"compare", "comparing"} => InUse(CurrentFile(l))
    BY <1>a, <2>2 DEF UndisturbedUse
  <2>4. InUse(CurrentFile(l))' <=> InUse(CurrentFile(l))
    BY <1>a DEF InUse
  <2>5. pc'[l] \notin Rewriting
    BY <1>a
  <2> QED BY <1>a, <2>1, <2>3, <2>4, <2>5, UseStays
<1>9. LoadedStays'
  BY <1>a DEF LoadedStays, Exists, At
<1>10. LoadsItsOwn'
  BY <1>a DEF LoadsItsOwn
<1> QED BY <1>1, <1>2, <1>3, <1>4, <1>5, <1>6, <1>7, <1>8, <1>9, <1>10

\* A file with the same halves is as good as a written one.
LEMMA ComparePreserves ==
    ASSUME LauncherInv, NEW l \in Launchers, Compare(l)
    PROVE  LauncherInv'
<1> USE LauncherAssumption, FileFacts DEF LauncherInv, Intact, Damaged, Active, Ended,
    Reading, Writing, Rewriting, Goes, Step, CurrentFile, Files, Whole, TypeOK, Steps,
    FileNames
<1>a. /\ pc[l] = "comparing"
      /\ \/ /\ file[CurrentFile(l)].halves = [i \in 1 .. 2 |-> Content[l][CurrentFile(l)]]
            /\ pc' = [pc EXCEPT ![l] = IF at[l] = 1 THEN "check" ELSE "run"]
            /\ at' = [at EXCEPT ![l] = 2] /\ at' \in [Launchers -> 1 .. 2]
         \/ pc' = [pc EXCEPT ![l] = "fatal"] /\ at' = at
      /\ UNCHANGED <<file, loaded, suspended, clashed, short, others>>
  BY FileDoneFacts DEF Compare, Same
<1>1. TypeOK'
  <2>1. pc' \in [Launchers -> Steps]
    BY <1>a
  <2>2. at' \in [Launchers -> 1 .. 2]
    BY <1>a
  <2> QED BY <1>a, <2>1, <2>2
<1>2. Outset'
  BY <1>a DEF Outset, Exists
<1>3. OneRewrites'
  <2>1. \A f \in FileNames : \A k \in At(f, Rewriting)' : k \in At(f, Rewriting) /\ pc'[k] = pc[k]
    BY <1>a DEF At
  <2> QED BY <1>a, <2>1, RewritingStays
<1>4. RewrittenSoFar'
  <2>1. \A f \in FileNames : \A k \in At(f, Rewriting)' : k \in At(f, Rewriting) /\ pc'[k] = pc[k]
    BY <1>a DEF At
  <2> QED BY <1>a, <2>1, RewritingStays
<1>5. StampedIsWhole'
  BY <1>a DEF StampedIsWhole
<1>6. KnowEachOther'
  <2>1. \A k \in Launchers : Active(k)' => Active(k)
    BY <1>a
  <2> QED BY <1>a, <2>1, NobodyNew
<1>7. PastIsWritten'
  <2>1. \A k \in Launchers \ {l}, f \in FileNames : Past(k, f)' => Past(k, f)
    BY <1>a DEF Past
  <2>2. \A f \in Intact : Past(l, f)' => Past(l, f) \/ file[f].halves = <<Content[l][f], Content[l][f]>>
    BY <1>a DEF Past, StampedIsWhole
  <2> QED BY <1>a, <2>1, <2>2, PastStays
<1>8. UndisturbedUse'
  BY <1>a DEF UndisturbedUse, InUse
<1>9. LoadedStays'
  BY <1>a DEF LoadedStays, Exists, At
<1>10. LoadsItsOwn'
  BY <1>a DEF LoadsItsOwn
<1> QED BY <1>1, <1>2, <1>3, <1>4, <1>5, <1>6, <1>7, <1>8, <1>9, <1>10

\* The injector runs, or it does not.
LEMMA RunProcessPreserves ==
    ASSUME LauncherInv, NEW l \in Launchers, RunProcess(l)
    PROVE  LauncherInv'
<1> USE LauncherAssumption, FileFacts DEF LauncherInv, Intact, Damaged, Active, Ended,
    Reading, Writing, Rewriting, Goes, Step, CurrentFile, Files, Whole, TypeOK, Steps,
    FileNames
<1>a. /\ pc[l] = "run"
      /\ pc' = [pc EXCEPT ![l] = "injecting"] \/ pc' = [pc EXCEPT ![l] = "fatal"]
      /\ UNCHANGED <<file, at, loaded, suspended, clashed, short, others>>
  BY DEF RunProcess
<1>1. TypeOK'
  BY <1>a
<1>2. Outset'
  BY <1>a DEF Outset, Exists
<1>3. OneRewrites'
  BY <1>a DEF OneRewrites, At
<1>4. RewrittenSoFar'
  BY DEF RunProcess, RewrittenSoFar, OneRewrites, SoFar, At
<1>5. StampedIsWhole'
  BY <1>a DEF StampedIsWhole
<1>6. KnowEachOther'
  BY DEF RunProcess, KnowEachOther
<1>7. PastIsWritten'
  BY DEF RunProcess, PastIsWritten, Past, KnowEachOther, RewrittenSoFar, SoFar,
      StampedIsWhole, At
<1>8. UndisturbedUse'
  <2>1. Active(l) /\ pc'[l] \notin Rewriting \cup {"compare", "comparing"}
    BY <1>a
  <2> QED BY <1>a, <2>1, UseStays
<1>9. LoadedStays'
  BY <1>a DEF LoadedStays, Exists, At
<1>10. LoadsItsOwn'
  BY <1>a DEF LoadsItsOwn
<1> QED BY <1>1, <1>2, <1>3, <1>4, <1>5, <1>6, <1>7, <1>8, <1>9, <1>10

\* Who is suspended changes nothing else.
LEMMA SuspendThreadsPreserves ==
    ASSUME LauncherInv, NEW l \in Launchers, SuspendThreads(l)
    PROVE  LauncherInv'
<1> USE LauncherAssumption, FileFacts DEF LauncherInv, Intact, Damaged, Active, Ended,
    Reading, Writing, Rewriting, Goes, Step, CurrentFile, Files, Whole, TypeOK, Steps,
    FileNames
<1>1. TypeOK'
  BY DEF SuspendThreads
<1>2. Outset'
  BY DEF SuspendThreads, Outset, Exists
<1>3. OneRewrites'
  BY DEF SuspendThreads, OneRewrites, At
<1>4. RewrittenSoFar'
  BY DEF SuspendThreads, RewrittenSoFar, SoFar, At
<1>5. StampedIsWhole'
  BY DEF SuspendThreads, StampedIsWhole
<1>6. KnowEachOther'
  BY DEF SuspendThreads, KnowEachOther
<1>7. PastIsWritten'
  BY DEF SuspendThreads, PastIsWritten, Past
<1>8. UndisturbedUse'
  BY DEF SuspendThreads, UndisturbedUse, InUse
<1>9. LoadedStays'
  BY DEF SuspendThreads, LoadedStays, Exists, At
<1>10. LoadsItsOwn'
  BY DEF SuspendThreads, LoadsItsOwn
<1> QED BY <1>1, <1>2, <1>3, <1>4, <1>5, <1>6, <1>7, <1>8, <1>9, <1>10

\* What is loaded is what is in the file, or Broken where it is torn.
LEMMA LoadLibraryPreserves ==
    ASSUME LauncherInv, NEW l \in Launchers, LoadLibrary(l)
    PROVE  LauncherInv'
<1>a. /\ pc[l] = "injecting"
      /\ pc' = [pc EXCEPT ![l] = "done"]
      /\ UNCHANGED <<file, at, suspended, clashed, short, others>>
  BY DEF LoadLibrary, Goes, Step
<1>b. PICK what : /\ loaded' = [loaded EXCEPT ![l] = what]
                  /\ what \in {Missing} \cup IF CanExecute(Library) THEN Executed(Library) ELSE {}
  BY DEF LoadLibrary
<1> DEFINE halves == file[Library].halves
<1>c. halves \in [1 .. 2 -> Contents \cup {Missing}]
  BY DEF LauncherInv, TypeOK, FileNames
<1>d. \/ what = Missing
      \/ CanExecute(Library) /\ what = Broken /\ halves[1] # halves[2]
      \/ CanExecute(Library) /\ what \in Contents /\ halves[1] = what /\ halves[2] = what
  <2>1. CASE what = Missing
    BY <2>1
  <2>2. CASE what # Missing
    <3>1. CanExecute(Library) /\ what \in Executed(Library)
      BY <1>b, <2>2
    <3>2. CASE halves[1] = halves[2]
      <4>1. what = halves[1]
        BY <3>1, <3>2 DEF Executed
      <4>2. what \in Contents
        BY <1>c, <2>2, <4>1
      <4> QED BY <3>1, <3>2, <4>1, <4>2
    <3>3. CASE halves[1] # halves[2]
      <4>1. what = Broken
        BY <2>2, <3>1, <3>3 DEF Executed
      <4> QED BY <3>1, <3>3, <4>1
    <3> QED BY <3>2, <3>3
  <2> QED BY <2>1, <2>2
<1>e. /\ \A k \in Launchers \ {l} : loaded'[k] = loaded[k] /\ pc'[k] = pc[k]
      /\ loaded'[l] = what /\ pc'[l] = "done"
  BY <1>a, <1>b DEF LauncherInv, TypeOK
<1>f. \A f \in FileNames : \A steps : "done" \notin steps => At(f, steps)' \subseteq At(f, steps)
  BY <1>a, <1>e DEF At, CurrentFile
<1>1. TypeOK'
  <2>1. what \in Contents \cup {Missing, Broken}
    BY <1>d
  <2>2. loaded' \in [Launchers -> Contents \cup {Missing, Broken}]
    BY <1>b, <2>1 DEF LauncherInv, TypeOK
  <2>3. pc' \in [Launchers -> Steps]
    BY <1>a DEF LauncherInv, TypeOK, Steps, Ended
  <2> QED BY <1>a, <2>2, <2>3 DEF LauncherInv, TypeOK
<1>2. Outset'
  BY <1>a, <1>e DEF LauncherInv, Outset, Exists
<1>3. OneRewrites' /\ RewrittenSoFar'
  <2>1. \A f \in FileNames : \A k \in At(f, Rewriting)' : k \in At(f, Rewriting) /\ pc'[k] = pc[k]
    BY <1>a, <1>e DEF At, CurrentFile, Rewriting, Writing
  <2> QED BY <1>a, <2>1, RewritingStays DEF LauncherInv
<1>4. StampedIsWhole'
  BY <1>a DEF LauncherInv, StampedIsWhole, Damaged
<1>5. KnowEachOther'
  <2>1. \A k \in Launchers : Active(k)' => Active(k)
    BY <1>a, <1>e DEF Active, Ended
  <2> QED BY <1>a, <2>1, NobodyNew DEF LauncherInv
<1>6. PastIsWritten'
  <2>1. \A k \in Launchers, f \in FileNames : Past(k, f)' => Past(k, f)
    BY <1>a, <1>e DEF Past, Active, Ended
  <2> QED BY <1>a, <2>1, PastStays DEF LauncherInv, Intact
<1>7. UndisturbedUse'
  <2>1. Active(l) /\ pc'[l] \notin Rewriting \cup {"compare", "comparing"}
    BY <1>a, <1>e DEF Active, Ended, Rewriting, Writing
  <2> QED BY <1>a, <1>e, <2>1, UseStays DEF LauncherInv
<1>8. LoadedStays'
  <2>1. At(Library, Writing \cup {"stamping"})' \subseteq At(Library, Writing \cup {"stamping"})
    BY <1>f DEF FileNames, Writing
  <2>2. ASSUME NEW k \in Launchers, loaded'[k] # Missing
        PROVE  /\ pc'[k] = "done" /\ Exists(Library)
               /\ At(Library, Writing \cup {"stamping"}) = {}
               /\ loaded'[k] # Broken => file[Library].halves = <<loaded'[k], loaded'[k]>>
    <3>1. CASE k = l
      <4>1. CanExecute(Library) /\ (what # Broken => halves[1] = what /\ halves[2] = what)
        BY <1>d, <1>e, <2>2, <3>1
      <4>2. what # Broken => halves = <<what, what>>
        BY <1>c, <4>1
      <4> QED BY <1>e, <3>1, <4>1, <4>2 DEF CanExecute
    <3>2. CASE k # l
      BY <1>e, <2>2, <3>2 DEF LauncherInv, LoadedStays
    <3> QED BY <3>1, <3>2
  <2> QED BY <1>a, <2>1, <2>2 DEF LoadedStays, Exists
<1>9. LoadsItsOwn'
  <2>1. ASSUME Library \notin Damaged, what # Missing
        PROVE  what = Content[l][Library] \/ \E o \in others[l] : what \in {Broken, Content[o][Library]}
    <3>1. Library \in Intact /\ Past(l, Library)
      BY <1>a, <2>1 DEF Past, Active, Ended, Intact, FileNames
    <3>2. CASE halves = <<Content[l][Library], Content[l][Library]>>
      BY <1>d, <2>1, <3>2
    <3>3. CASE \E o \in others[l] : \A i \in 1 .. 2 : halves[i] \in {Missing, Content[o][Library]}
      <4>1. PICK o \in others[l] : halves[1] \in {Missing, Content[o][Library]}
        BY <3>3
      <4> QED BY <1>d, <2>1, <4>1
    <3> QED BY <3>1, <3>2, <3>3 DEF LauncherInv, PastIsWritten
  <2>2. ASSUME NEW k \in Launchers, Library \notin Damaged
        PROVE  \/ loaded'[k] \in {Missing, Content[k][Library]}
               \/ \E o \in others[k] : loaded'[k] \in {Broken, Content[o][Library]}
    <3>1. CASE k = l
      BY <1>e, <2>1, <2>2, <3>1
    <3>2. CASE k # l
      BY <1>e, <2>2, <3>2 DEF LauncherInv, LoadsItsOwn
    <3> QED BY <3>1, <3>2
  <2> QED BY <1>a, <2>2 DEF LoadsItsOwn, Damaged
<1> QED BY <1>1, <1>2, <1>3, <1>4, <1>5, <1>6, <1>7, <1>8, <1>9 DEF LauncherInv

\* A launcher that is killed leaves the file as it is.
LEMMA KillPreserves ==
    ASSUME LauncherInv, NEW l \in Launchers, Kill(l)
    PROVE  LauncherInv'
<1> USE LauncherAssumption, FileFacts DEF LauncherInv, Intact, Damaged, Active, Ended,
    Reading, Writing, Rewriting, Goes, Step, CurrentFile, Files, Whole, TypeOK, Steps,
    FileNames
<1>a. /\ Active(l)
      /\ pc' = [pc EXCEPT ![l] = "killed"]
      /\ at' = [at EXCEPT ![l] = 1]
      /\ suspended' = suspended \ {l}
      /\ others' = [others EXCEPT ![l] = {}]
      /\ UNCHANGED <<file, loaded, clashed, short>>
  BY DEF Kill
<1>1. TypeOK'
  BY <1>a
<1>2. Outset'
  BY <1>a DEF Outset, Exists
<1>3. OneRewrites'
  BY <1>a DEF OneRewrites, At
<1>4. RewrittenSoFar'
  BY <1>a DEF RewrittenSoFar, SoFar, At
<1>5. StampedIsWhole'
  BY <1>a DEF StampedIsWhole
<1>6. KnowEachOther'
  BY <1>a DEF KnowEachOther
<1>7. PastIsWritten'
  BY <1>a DEF PastIsWritten, Past
<1>8. UndisturbedUse'
  <2>1. pc'[l] \notin Rewriting \cup {"compare", "comparing"}
    BY <1>a
  <2> QED BY <1>a, <2>1, UseStays
<1>9. LoadedStays'
  BY <1>a DEF LoadedStays, Exists, At
<1>10. LoadsItsOwn'
  BY DEF Kill, LoadsItsOwn, LoadedStays, PastIsWritten, Past, Executed, InUse, CanWrite
<1> QED BY <1>1, <1>2, <1>3, <1>4, <1>5, <1>6, <1>7, <1>8, <1>9, <1>10

\* A library goes out of use; the active launchers notice.
LEMMA ShellExitsPreserves ==
    ASSUME LauncherInv, NEW l \in Launchers, ShellExits(l)
    PROVE  LauncherInv'
<1> USE LauncherAssumption, FileFacts DEF LauncherInv, Intact, Damaged, Active, Ended,
    Reading, Writing, Rewriting, Goes, Step, CurrentFile, Files, Whole, TypeOK, Steps,
    FileNames
<1>a. /\ pc[l] = "done" /\ loaded[l] # Missing
      /\ loaded' = [loaded EXCEPT ![l] = Missing]
      /\ UNCHANGED <<file, pc, at, suspended, clashed, short>>
      /\ others' \in [Launchers -> SUBSET Launchers]
      /\ \A k \in Launchers : Active(k) => others'[k] = others[k] \cup {l}
      /\ \A k \in Launchers \ {l} : ~Active(k) => others'[k] = others[k]
  BY DEF ShellExits, Noticed, LoadedStays
<1>1. TypeOK'
  BY <1>a
<1>2. Outset'
  BY <1>a DEF Outset, Exists
<1>3. OneRewrites'
  BY <1>a DEF OneRewrites, At
<1>4. RewrittenSoFar'
  BY <1>a DEF RewrittenSoFar, SoFar, At
<1>5. StampedIsWhole'
  BY <1>a DEF StampedIsWhole
<1>6. KnowEachOther'
  BY <1>a DEF KnowEachOther
<1>7. PastIsWritten'
  <2>1. ASSUME NEW f \in Intact', NEW k \in Launchers, Past(k, f)'
        PROVE  Past(k, f) /\ f \in Intact /\ others[k] \subseteq others'[k]
    BY <1>a, <2>1 DEF Past
  <2>2. file' = file
    BY <1>a
  <2> QED BY <2>1, <2>2 DEF PastIsWritten
<1>8. UndisturbedUse'
  <2>1. ASSUME NEW k \in Launchers, others'[k] = {} PROVE ~Active(k)
    <3>1. Active(k) => l \in others'[k]
      BY <1>a
    <3> QED BY <2>1, <3>1
  <2> QED BY <1>a, <2>1 DEF UndisturbedUse
<1>9. LoadedStays'
  BY <1>a, SMTT(30) DEF LoadedStays, Exists, At
<1>10. LoadsItsOwn'
  BY <1>a, SMTT(30) DEF LoadsItsOwn
<1> QED BY <1>1, <1>2, <1>3, <1>4, <1>5, <1>6, <1>7, <1>8, <1>9, <1>10

\* Where all begin: an empty directory, or one a launcher has left.
LEMMA LauncherInit ==
    ASSUME Init
    PROVE  LauncherInv
<1> USE LauncherAssumption
<1>1. file \in [FileNames -> [halves : [1 .. 2 -> Contents \cup {Missing}],
                              time : Times \cup {Never, Now}]]
  <2>1. CASE file = [f \in FileNames |-> Whole(Missing, Never)]
    BY <2>1 DEF Whole
  <2>2. CASE \E l \in Launchers : file = [f \in FileNames |-> Whole(Content[l][f], Stamp[l])]
    <3>1. PICK l \in Launchers : file = [f \in FileNames |-> Whole(Content[l][f], Stamp[l])]
      BY <2>2
    <3>2. Stamp[l] \in Times /\ \A f \in FileNames : Content[l][f] \in Contents
      BY <3>1
    <3> QED BY <3>1, <3>2 DEF Whole
  <2> QED BY <2>1, <2>2 DEF Init
<1>2. TypeOK
  BY <1>1 DEF Init, TypeOK, Steps
<1>3. \A l \in Launchers : pc[l] = "idle" /\ at[l] = 1 /\ loaded[l] = Missing
  BY DEF Init
<1>4. \A l \in Launchers : ~Active(l) /\ pc[l] \notin Rewriting \cup {"compare", "comparing"}
  BY <1>3 DEF Active, Rewriting, Writing
<1>5. \A f : At(f, Rewriting) = {}
  BY <1>4 DEF At
<1>6. \A f \in FileNames :
          \/ file[f] = Whole(Missing, Never)
          \/ \E l \in Launchers : file[f] = Whole(Content[l][f], Stamp[l])
  BY DEF Init
<1>7. Outset
  <2>1. ASSUME NEW f \in FileNames, ~Exists(f) PROVE file[f].halves = <<Missing, Missing>>
    <3>1. CASE file[f] = Whole(Missing, Never)
      BY <3>1 DEF Whole
    <3>2. CASE \E l \in Launchers : file[f] = Whole(Content[l][f], Stamp[l])
      <4>1. file[f].time \in Times
        BY <3>2 DEF Whole
      <4> QED BY <2>1, <4>1 DEF Exists
    <3> QED BY <1>6, <3>1, <3>2
  <2> QED BY <1>3, <2>1 DEF Outset
<1>8. StampedIsWhole
  <2>1. ASSUME NEW l \in Launchers, NEW f \in FileNames, file[f].time = Stamp[l]
        PROVE  file[f] = Whole(Content[l][f], Stamp[l])
    <3>1. CASE file[f] = Whole(Missing, Never)
      BY <2>1, <3>1 DEF Whole
    <3>2. CASE \E k \in Launchers : file[f] = Whole(Content[k][f], Stamp[k])
      <4>1. PICK k \in Launchers : file[f] = Whole(Content[k][f], Stamp[k])
        BY <3>2
      <4>2. Stamp[k] = Stamp[l] /\ Content[k] = Content[l]
        BY <2>1, <4>1 DEF Whole
      <4> QED BY <4>1, <4>2
    <3> QED BY <1>6, <3>1, <3>2
  <2> QED BY <2>1 DEF StampedIsWhole
<1>9. OneRewrites /\ RewrittenSoFar
  BY <1>5 DEF OneRewrites, RewrittenSoFar
<1>10. KnowEachOther /\ PastIsWritten
  BY <1>4 DEF KnowEachOther, PastIsWritten, Past
<1>11. UndisturbedUse /\ LoadedStays /\ LoadsItsOwn
  BY <1>3, <1>4 DEF UndisturbedUse, LoadedStays, LoadsItsOwn
<1> QED BY <1>2, <1>7, <1>8, <1>9, <1>10, <1>11 DEF LauncherInv

\* A step in which nothing happens.
LEMMA StutterPreserves ==
    ASSUME LauncherInv, UNCHANGED vars
    PROVE  LauncherInv'
<1> USE DEF vars, LauncherInv
<1>1. TypeOK' /\ Outset'
  BY DEF TypeOK, Outset, Exists
<1>2. OneRewrites' /\ RewrittenSoFar'
  BY DEF OneRewrites, RewrittenSoFar, Intact, Damaged, SoFar, At, CurrentFile
<1>3. StampedIsWhole'
  BY DEF StampedIsWhole, Damaged
<1>4. KnowEachOther' /\ PastIsWritten'
  BY DEF KnowEachOther, PastIsWritten, Intact, Damaged, Past, Active
<1>5. UndisturbedUse'
  BY DEF UndisturbedUse, InUse, CurrentFile
<1>6. LoadedStays' /\ LoadsItsOwn'
  BY DEF LoadedStays, LoadsItsOwn, Exists, At, CurrentFile, Damaged
<1> QED BY <1>1, <1>2, <1>3, <1>4, <1>5, <1>6

\* Every step keeps the inductive invariant: one lemma for each action.
LEMMA LauncherStep ==
    ASSUME LauncherInv, [Next]_vars
    PROVE  LauncherInv'
<1>1. ASSUME NEW l \in Launchers,
             \/ Launch(l) \/ OpenToCheck(l) \/ Check(l)
             \/ OpenToWrite(l) \/ WriteFirst(l) \/ WriteSecond(l)
             \/ OpenToStamp(l) \/ SetMtimeOfFile(l)
             \/ OpenToCompare(l) \/ Compare(l)
             \/ RunProcess(l) \/ SuspendThreads(l) \/ LoadLibrary(l)
             \/ Kill(l) \/ ShellExits(l)
      PROVE  LauncherInv'
  <2>1. CASE Launch(l)
    BY <2>1, LaunchPreserves
  <2>2. CASE OpenToCheck(l)
    BY <2>2, OpenToCheckPreserves
  <2>3. CASE Check(l)
    BY <2>3, CheckPreserves
  <2>4. CASE OpenToWrite(l)
    BY <2>4, OpenToWritePreserves
  <2>5. CASE WriteFirst(l)
    BY <2>5, WriteFirstPreserves
  <2>6. CASE WriteSecond(l)
    BY <2>6, WriteSecondPreserves
  <2>7. CASE OpenToStamp(l)
    BY <2>7, OpenToStampPreserves
  <2>8. CASE SetMtimeOfFile(l)
    BY <2>8, SetMtimeOfFilePreserves
  <2>9. CASE OpenToCompare(l)
    BY <2>9, OpenToComparePreserves
  <2>10. CASE Compare(l)
    BY <2>10, ComparePreserves
  <2>11. CASE RunProcess(l)
    BY <2>11, RunProcessPreserves
  <2>12. CASE SuspendThreads(l)
    BY <2>12, SuspendThreadsPreserves
  <2>13. CASE LoadLibrary(l)
    BY <2>13, LoadLibraryPreserves
  <2>14. CASE Kill(l)
    BY <2>14, KillPreserves
  <2>15. CASE ShellExits(l)
    BY <2>15, ShellExitsPreserves
  <2> QED BY <1>1, <2>1, <2>2, <2>3, <2>4, <2>5, <2>6, <2>7, <2>8, <2>9, <2>10,
             <2>11, <2>12, <2>13, <2>14, <2>15
<1>2. CASE UNCHANGED vars
  BY <1>2, StutterPreserves
<1> QED BY <1>1, <1>2 DEF Next

\* The inductive invariant holds in every state of every execution.
THEOREM LauncherInvariant == Spec => []LauncherInv
<1>1. Init => LauncherInv
  BY LauncherInit
<1>2. LauncherInv /\ [Next]_vars => LauncherInv'
  BY LauncherStep
<1> QED BY <1>1, <1>2, PTL DEF Spec

\* The variables of the launchers have their types.
THEOREM TypeCorrect == Spec => []TypeOK
BY LauncherInvariant, PTL DEF LauncherInv

\* However many launchers run at once, and whichever are killed: a file with a
\* launcher's time, which MtimeMatchesSelf takes for its own, is its own.
THEOREM StampIsTrue == Spec => []StampedIsWhole
BY LauncherInvariant, PTL DEF LauncherInv

\* A shell has loaded the library of its launcher, or of one that was active then.
THEOREM ShellLoadsItsOwn == Spec => []LoadsItsOwn
BY LauncherInvariant, PTL DEF LauncherInv

\* Who has noticed nobody is alone.
LEMMA Alone ==
    ASSUME LauncherInv, NEW l \in Launchers, Active(l), others[l] = {}
    PROVE  \A k \in Launchers : Active(k) => k = l
BY DEF LauncherInv, KnowEachOther

\* Who is alone finds nobody at any file.
LEMMA NobodyElseAt ==
    ASSUME LauncherInv, NEW l \in Launchers, Active(l), others[l] = {},
           NEW f, NEW steps, pc[l] \notin steps,
           steps \subseteq Reading \cup Writing \cup {"stamping"}
    PROVE  At(f, steps) = {}
BY Alone DEF At, Active, Ended, Reading, Writing

\* What an undisturbed launcher finds in use is the library, and its own.
LEMMA InUseIsOwn ==
    ASSUME LauncherInv, NEW l \in Launchers, Active(l), others[l] = {},
           pc[l] \in {"compare", "comparing"},
           \A k \in Launchers : loaded[k] \in {Missing, Content[l][Library]}
    PROVE  /\ CurrentFile(l) = Library /\ Exists(Library)
           /\ file[Library].halves = <<Content[l][Library], Content[l][Library]>>
<1>1. InUse(CurrentFile(l))
  BY DEF LauncherInv, UndisturbedUse
<1>2. ~\E k \in Launchers : pc[k] = "injecting"
  <2>1. ASSUME NEW k \in Launchers, pc[k] = "injecting" PROVE FALSE
    <3>1. k = l
      BY <2>1, Alone DEF Active, Ended
    <3> QED BY <2>1, <3>1
  <2> QED BY <2>1
<1>3. PICK k \in Launchers : CurrentFile(l) = Library /\ loaded[k] # Missing
  BY <1>1, <1>2 DEF InUse
<1>4. loaded[k] = Content[l][Library] /\ loaded[k] # Broken
  <2>1. loaded[k] = Content[l][Library]
    BY <1>3
  <2>2. Content[l][Library] \in Contents
    BY LauncherAssumption DEF FileNames
  <2> QED BY <2>1, <2>2, LauncherAssumption
<1> QED BY <1>3, <1>4 DEF LauncherInv, LoadedStays

\* The steps at which a launcher fails.
LEMMA FailingSteps ==
    ASSUME TypeOK, NEW l \in Launchers, NEW k \in Launchers,
           \/ Launch(k) \/ OpenToCheck(k) \/ Check(k)
           \/ OpenToWrite(k) \/ WriteFirst(k) \/ WriteSecond(k)
           \/ OpenToStamp(k) \/ SetMtimeOfFile(k)
           \/ OpenToCompare(k) \/ Compare(k)
           \/ RunProcess(k) \/ SuspendThreads(k) \/ LoadLibrary(k)
           \/ Kill(k) \/ ShellExits(k),
           Active(l), pc'[l] = "fatal"
    PROVE  k = l /\ (OpenToStamp(l) \/ OpenToCompare(l) \/ Compare(l) \/ RunProcess(l))
<1>1. ASSUME pc' = pc PROVE FALSE
  BY <1>1 DEF Active, Ended
<1>2. ASSUME NEW step, pc' = [pc EXCEPT ![k] = step] PROVE k = l /\ step = "fatal"
  BY <1>2 DEF TypeOK, Active, Ended
<1>3. ~SuspendThreads(k) /\ ~ShellExits(k)
  BY <1>1 DEF SuspendThreads, ShellExits
<1>4. ~Launch(k) /\ ~LoadLibrary(k) /\ ~Kill(k)
  BY <1>2 DEF Launch, LoadLibrary, Kill, Goes
<1>a. ~FileDone(k)
  <2>1. FileDone(k) => pc' = [pc EXCEPT ![k] = IF at[k] = 1 THEN "check" ELSE "run"]
    BY FileDoneFacts
  <2> QED BY <2>1, <1>2
<1>5. ~OpenToCheck(k) /\ ~Check(k) /\ ~SetMtimeOfFile(k)
  <2>1. ~OpenToCheck(k)
    BY <1>2 DEF OpenToCheck, Goes
  <2>2. ~Check(k) /\ ~SetMtimeOfFile(k)
    BY <1>2, <1>a DEF Check, SetMtimeOfFile, Goes
  <2> QED BY <2>1, <2>2
<1>6. ~OpenToWrite(k) /\ ~WriteFirst(k) /\ ~WriteSecond(k)
  BY <1>2 DEF OpenToWrite, WriteFirst, WriteSecond, Write, Goes
<1>7. k = l
  BY <1>2, <1>3, <1>4, <1>5, <1>6 DEF OpenToStamp, OpenToCompare, Compare, FileDone,
      RunProcess, Goes
<1> QED BY <1>3, <1>4, <1>5, <1>6, <1>7

\* At none of these steps does an undisturbed launcher fail: nobody else has the
\* file open, what it compares is in use and its own, and what it runs is whole.
LEMMA UndisturbedGoesOn ==
    ASSUME LauncherInv, NEW l \in Launchers, Active(l), pc'[l] = "fatal",
           OpenToStamp(l) \/ OpenToCompare(l) \/ Compare(l) \/ RunProcess(l),
           others[l] = {}, Damaged = {},
           \A k \in Launchers : loaded[k] \in {Missing, Content[l][Library]}
    PROVE  FALSE
<1>t. TypeOK /\ CurrentFile(l) \in FileNames
  BY FileFacts DEF LauncherInv
<1>g. ASSUME NEW step, Goes(l, step) PROVE step = "fatal"
  BY <1>g, <1>t DEF Goes, TypeOK
<1>1. CASE OpenToStamp(l)
  <2>1. pc[l] = "closed" /\ ~CanStamp(CurrentFile(l))
    BY <1>1, <1>g DEF OpenToStamp, Step
  <2>2. ~InUse(CurrentFile(l))
    BY <2>1 DEF LauncherInv, UndisturbedUse, Rewriting
  <2>3. At(CurrentFile(l), Reading) = {}
    BY <2>1, NobodyElseAt DEF Reading
  <2> QED BY <2>1, <2>2, <2>3 DEF CanStamp
<1>2. CASE OpenToCompare(l)
  <2>1. pc[l] = "compare" /\ ~CanCompare(CurrentFile(l))
    BY <1>2, <1>g DEF OpenToCompare, Step
  <2>2. Exists(CurrentFile(l))
    BY <2>1, InUseIsOwn
  <2>3. At(CurrentFile(l), {"stamping"}) = {}
    BY <2>1, NobodyElseAt
  <2> QED BY <2>1, <2>2, <2>3 DEF CanCompare
<1>3. CASE Compare(l)
  <2>1. pc[l] = "comparing"
    BY <1>3 DEF Compare, Step
  <2>2. ~Same(l)
    <3>1. Same(l) => FileDone(l)
      BY <1>3 DEF Compare
    <3> QED BY <1>g, <3>1 DEF FileDone
  <2>3. /\ CurrentFile(l) = Library
        /\ file[Library].halves = <<Content[l][Library], Content[l][Library]>>
    BY <2>1, InUseIsOwn
  <2> QED BY <2>2, <2>3 DEF Same
<1>4. CASE RunProcess(l)
  <2>1. pc[l] = "run"
    BY <1>4 DEF RunProcess, Step
  <2>2. Injector \in FileNames /\ Content[l][Injector] \in Contents
    BY LauncherAssumption DEF FileNames
  <2>3. file[Injector].halves = <<Content[l][Injector], Content[l][Injector]>>
    BY <2>1, <2>2 DEF LauncherInv, PastIsWritten, Past, Intact
  <2>4. Exists(Injector)
    <3>1. file[Injector].halves # <<Missing, Missing>>
      BY <2>2, <2>3, LauncherAssumption
    <3> QED BY <2>2, <3>1 DEF LauncherInv, Outset
  <2>5. At(Injector, Writing \cup {"stamping"}) = {}
    BY <2>1, NobodyElseAt DEF Writing
  <2>6. CanExecute(Injector) /\ Executed(Injector) = {Content[l][Injector]}
    BY <2>3, <2>4, <2>5 DEF CanExecute, Executed
  <2>7. Goes(l, "injecting")
    BY <1>4, <2>2, <2>6 DEF RunProcess
  <2> QED BY <1>g, <2>7
<1> QED BY <1>1, <1>2, <1>3, <1>4

\* A launcher that nobody disturbs does not end in FATAL, at whatever step the
\* launchers before it were killed, unless another version of the library is in use.
THEOREM UndisturbedSucceeds == Spec => FailsOnlyDisturbed
<1>1. ASSUME LauncherInv, [Next]_vars, NEW l \in Launchers, Active(l), pc'[l] = "fatal"
      PROVE  \/ others[l] # {}
             \/ Damaged # {}
             \/ \E k \in Launchers : loaded[k] \notin {Missing, Content[l][Library]}
  <2>1. CASE UNCHANGED vars
    BY <1>1, <2>1 DEF vars, Active, Ended
  <2>2. CASE Next
    <3>1. OpenToStamp(l) \/ OpenToCompare(l) \/ Compare(l) \/ RunProcess(l)
      <4>1. TypeOK
        BY <1>1 DEF LauncherInv
      <4> QED BY <1>1, <2>2, <4>1, FailingSteps DEF Next
    <3> QED BY <1>1, <3>1, UndisturbedGoesOn
  <2> QED BY <1>1, <2>1, <2>2
<1>2. LauncherInv /\ [Next]_vars =>
          [\A l \in Launchers :
              Active(l) /\ pc'[l] = "fatal" =>
                  \/ others[l] # {}
                  \/ Damaged # {}
                  \/ \E k \in Launchers : loaded[k] \notin {Missing, Content[l][Library]}]_vars
  BY <1>1
<1> QED BY <1>2, LauncherInvariant, PTL DEF FailsOnlyDisturbed, Spec

=============================================================================
