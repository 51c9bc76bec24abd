---------------------------- MODULE ToolsProofs ----------------------------
(***************************************************************************)
(* Theorems about the two programs.                                        *)
(*                                                                         *)
(* About BZip2Tool, however the command is called within CallAssumption,   *)
(* whatever fails and wherever it is stopped: no data that is owed is      *)
(* lost, no exit leaves part of an output unannounced, and an exit value   *)
(* of 0 says that all output is what it should be.                         *)
(*                                                                         *)
(* About Recover, whatever the marks and whatever the file: every block    *)
(* that is undamaged has an output of its own.                             *)
(***************************************************************************)
EXTENDS BZip2Tool, Recover, CommonLemmas, FiniteSetTheorems

-----------------------------------------------------------------------------
(* What a step does to the globals, and to the files *)

(* A step that says nothing of the names, of the deletion or of what went unchecked, and takes back  *)
(* nothing that the exit value will tell.                                                             *)
Aside == {"pc", "exitValue", "ec", "handle", "failsExist"}
Moved(pc) == /\ DOMAIN p' = Fields /\ p'.pc = pc /\ (\A f \in Fields \ Aside : p'[f] = p[f])
             /\ (Fair' => Fair)

(* A step sets the fields that it names and keeps the others. *)
LEMMA StepIs ==
  ASSUME DOMAIN p = Fields, NEW change, DOMAIN change \subseteq Fields, Step(change)
  PROVE  DOMAIN p' = Fields /\ \A f \in Fields : p'[f] = IF f \in DOMAIN change THEN change[f] ELSE p[f]
  BY DEF Step

(* The exit value does not go back to 0. *)
LEMMA ExitValueStays == \A v : v # 0 => (setExit(v) = 0 => p.exitValue = 0)
  BY DEF setExit

(* An exit value of its own is not 0. *)
LEMMA ExitValueIs == setExit(1) # 0 /\ setExit(2) # 0
  BY DEF setExit

(* The steps that only go on, skip a file, fail or end. *)
LEMMA GoesTo ==
  ASSUME DOMAIN p = Fields, NEW change, Step(change), "pc" \in DOMAIN change, DOMAIN change \subseteq Aside,
         "exitValue" \in DOMAIN change => (change.exitValue = 0 => p.exitValue = 0),
         "failsExist" \in DOMAIN change => (p.failsExist => change.failsExist)
  PROVE  Moved(change.pc)
<1>1. DOMAIN p' = Fields /\ \A f \in Fields : p'[f] = IF f \in DOMAIN change THEN change[f] ELSE p[f]
  BY StepIs, DOMAIN change \subseteq Fields DEF Aside, Fields
<1>2. p'.pc = change.pc /\ \A f \in Fields \ Aside : p'[f] = p[f]
  BY <1>1 DEF Aside, Fields
<1>3. p'.exitValue = 0 => p.exitValue = 0
  BY <1>1 DEF Fields
<1>4. p.failsExist => p'.failsExist
  BY <1>1 DEF Fields
<1>5. p'.unchecked = p.unchecked
  BY <1>2 DEF Aside, Fields
<1> QED BY <1>1, <1>2, <1>3, <1>4, <1>5 DEF Moved, Fair

(* Where these steps go. *)
LEMMA GoesOn ==
  ASSUME DOMAIN p = Fields
  PROVE  /\ \A pc : GoTo(pc) => Moved(pc)
         /\ \A v \in {1, 2} : Skipped(v) => Moved("next") /\ ~Fair'
         /\ \A error : Failing(error) => Moved("fail")
         /\ FailingWithout => Moved("fail")
         /\ Dies => Moved("killed")
         /\ TestFails => Moved("next") /\ ~Fair'
<1>1. ASSUME NEW pc, GoTo(pc) PROVE Moved(pc)
  <2> DEFINE c == [pc |-> pc]
  <2>1. c.pc = pc /\ DOMAIN c = {"pc"} /\ Step(c)
    BY <1>1 DEF GoTo
  <2> HIDE DEF c
  <2> QED BY <2>1, GoesTo DEF Aside
<1>2. ASSUME NEW v \in {1, 2}, Skipped(v) PROVE Moved("next") /\ ~Fair'
  <2> DEFINE c == [pc |-> "next", exitValue |-> setExit(v)]
  <2>1. c.pc = "next" /\ c.exitValue = setExit(v) /\ DOMAIN c = {"pc", "exitValue"} /\ Step(c)
    BY <1>2 DEF Skipped
  <2> HIDE DEF c
  <2>2. c.exitValue # 0
    BY <2>1, ExitValueIs
  <2>3. Moved("next")
    BY <2>1, <2>2, GoesTo DEF Aside
  <2>4. p'.exitValue = c.exitValue
    BY <2>1, StepIs DEF Fields
  <2> QED BY <2>2, <2>3, <2>4 DEF Fair
<1>3. ASSUME NEW error, Failing(error) PROVE Moved("fail")
  <2> DEFINE c == [pc |-> "fail", ec |-> Code[error]]
  <2>1. c.pc = "fail" /\ DOMAIN c = {"pc", "ec"} /\ Step(c)
    BY <1>3 DEF Failing
  <2> HIDE DEF c
  <2> QED BY <2>1, GoesTo DEF Aside
<1>4. ASSUME FailingWithout PROVE Moved("fail")
  <2> DEFINE c == [pc |-> "fail", ec |-> Code.io, handle |-> FALSE]
  <2>1. c.pc = "fail" /\ DOMAIN c = {"pc", "ec", "handle"} /\ Step(c)
    BY <1>4 DEF FailingWithout
  <2> HIDE DEF c
  <2> QED BY <2>1, GoesTo DEF Aside
<1>5. ASSUME Dies PROVE Moved("killed")
  <2> DEFINE c == [pc |-> "killed"]
  <2>1. c.pc = "killed" /\ DOMAIN c = {"pc"} /\ Step(c)
    BY <1>5 DEF Dies, GoTo
  <2> HIDE DEF c
  <2> QED BY <2>1, GoesTo DEF Aside
<1>6. ASSUME TestFails PROVE Moved("next") /\ ~Fair'
  <2> DEFINE c == [pc |-> "next", failsExist |-> TRUE]
  <2>1. c.pc = "next" /\ c.failsExist = TRUE /\ DOMAIN c = {"pc", "failsExist"} /\ Step(c)
    BY <1>6 DEF TestFails
  <2> HIDE DEF c
  <2>2. Moved("next")
    BY <2>1, GoesTo DEF Aside
  <2>3. p'.failsExist = TRUE
    BY <2>1, StepIs DEF Fields
  <2> QED BY <2>2, <2>3 DEF Fair
<1> QED BY <1>1, <1>2, <1>3, <1>4, <1>5, <1>6

(* A file that grows, one that goes, one that is made. *)
LEMMA GrownIs ==
  ASSUME TypeOK, NEW data \in Seq(Chunks), disk' = Grown(data)
  PROVE  /\ DOMAIN disk' = DOMAIN disk /\ disk' \in [DOMAIN disk' -> FileType]
         /\ \A n \in DOMAIN disk : n # p.outName => disk'[n] = disk[n]
         /\ p.outName \in DOMAIN disk =>
              /\ disk'[p.outName].data = disk[p.outName].data \o data
              /\ disk'[p.outName].by = disk[p.outName].by /\ disk'[p.outName].kind = disk[p.outName].kind
<1> DEFINE o == p.outName
           f == [disk[o] EXCEPT !.data = @ \o data]
<1>0. disk \in [DOMAIN disk -> FileType]
  BY DEF TypeOK
<1>1. disk' = [disk EXCEPT ![o] = f]
  BY DEF Grown
<1>2. CASE o \in DOMAIN disk
  <2>1. disk[o] \in FileType
    BY <1>0, <1>2
  <2>2. disk[o].data \o data \in Seq(Chunks)
    BY <2>1, ConcatProperties DEF FileType
  <2>3. f \in FileType /\ f.data = disk[o].data \o data /\ f.by = disk[o].by /\ f.kind = disk[o].kind
    BY <2>1, <2>2 DEF FileType
  <2> HIDE DEF f
  <2> QED BY <1>0, <1>1, <1>2, <2>3
<1>3. CASE o \notin DOMAIN disk
  BY <1>0, <1>1, <1>3
<1> QED BY <1>2, <1>3

(* A file that goes. *)
LEMMA WithoutIs ==
  ASSUME TypeOK, NEW name, disk' = Without(name)
  PROVE  /\ DOMAIN disk' = DOMAIN disk \ {name} /\ disk' \in [DOMAIN disk' -> FileType]
         /\ \A n \in DOMAIN disk' : disk'[n] = disk[n]
  BY DEF TypeOK, Without

(* A file that is made. *)
LEMMA WithIs ==
  ASSUME TypeOK, NEW name, NEW file \in FileType, disk' = With(name, file)
  PROVE  /\ DOMAIN disk' = DOMAIN disk \cup {name} /\ disk' \in [DOMAIN disk' -> FileType]
         /\ disk'[name] = file
         /\ \A n \in DOMAIN disk : n # name => disk'[n] = disk[n]
  BY DEF TypeOK, With

-----------------------------------------------------------------------------
(* What keeps the parts of the invariant *)

(* The step is about the same file, with the same options.                 *)
Same == /\ UNCHANGED <<conf, first>>
        /\ p'.names = p.names /\ p'.todo = p.todo /\ p'.inName = p.inName /\ p'.outName = p.outName
        /\ (p.unchecked => p'.unchecked) /\ (Fair' => Fair)

(* It changes no file but the one called name.                             *)
Spares(name) == /\ disk' \in [DOMAIN disk' -> FileType] /\ NoName \notin DOMAIN disk' /\ Stdout \in DOMAIN disk'
                /\ \A n \in DOMAIN disk' : n # name => n \in DOMAIN disk /\ disk'[n] = disk[n]

(* Nothing else is read under the name of another input.                   *)
LEMMA OutIsApart ==
  ASSUME InOrder, now > 0
  PROVE  /\ now \in DOMAIN p.names /\ now \in Nat /\ DOMAIN p.names = 1..Len(p.names) /\ Len(p.names) \in Nat
         /\ p.inName # Stdout /\ \A j \in DOMAIN p.names : p.names[j] # Stdout
         /\ MakesFile =>
              /\ p.outName # Stdout /\ p.outName # NoName /\ p.outName # p.inName
              /\ \A j \in DOMAIN p.names : j >= now => p.names[j] # p.outName
              /\ \A j \in 1..now : j # now => OutName(p.names[j]) # p.outName
              /\ \A j \in 1..now : OutName(p.names[j]) # p.inName
         /\ ~MakesFile => p.outName \in {Stdout, NoName}
<1> DEFINE S == {p.names[i] : i \in DOMAIN p.names}
<1>1. p.names \in Seq(S) /\ p.todo \in Seq(S) /\ Len(p.todo) <= Len(p.names)
  BY DEF InOrder
<1> HIDE DEF S
<1>2. Len(p.names) \in Nat /\ Len(p.todo) \in Nat /\ DOMAIN p.names = 1..Len(p.names)
  BY <1>1
<1>3. now \in Nat /\ now \in DOMAIN p.names /\ \A j \in 1..now : j \in DOMAIN p.names
  <2> DEFINE a == Len(p.names)
             b == Len(p.todo)
  <2>1. now = a - b /\ a \in Nat /\ b \in Nat /\ b <= a /\ DOMAIN p.names = 1..a
    BY <1>1, <1>2 DEF now
  <2> HIDE DEF a, b
  <2> QED BY <2>1
<1>4. p.inName = p.names[now] /\ p.outName = OutName(p.inName) /\ Apart(conf, p.names)
      /\ \A j \in DOMAIN p.names : p.names[j] # Stdout
  BY <1>3 DEF InOrder, Apart
<1>5. ASSUME MakesFile
      PROVE  \A i, j \in DOMAIN p.names :
               /\ OutName(p.names[i]) \notin {Stdout, NoName}
               /\ i # j => OutName(p.names[i]) # OutName(p.names[j])
               /\ i <= j => OutName(p.names[i]) # p.names[j]
  BY <1>4, <1>5 DEF Apart, MakesFile, OutName
<1>6. ~MakesFile => p.outName \in {Stdout, NoName}
  <2>1. ~MakesFile => conf.src # "F2F" \/ conf.op = "test"
    BY DEF MakesFile, FileFor
  <2>2. conf.op = "test" => OutName(p.inName) = NoName
    BY DEF OutName, OutNameFor
  <2>3. conf.src # "F2F" => OutName(p.inName) \in {Stdout, NoName}
    BY DEF OutName, OutNameFor, Suffixed, Unsuffixed
  <2> QED BY <1>4, <2>1, <2>2, <2>3
<1>7. MakesFile => /\ p.outName # Stdout /\ p.outName # NoName /\ p.outName # p.inName
                   /\ \A j \in DOMAIN p.names : j >= now => p.names[j] # p.outName
                   /\ \A j \in 1..now : j # now => OutName(p.names[j]) # p.outName
                   /\ \A j \in 1..now : OutName(p.names[j]) # p.inName
  BY <1>2, <1>3, <1>4, <1>5
<1> QED BY <1>2, <1>3, <1>4, <1>6, <1>7

(* A step about the same file leaves it where it is in the order. *)
LEMMA OrderStays ==
  ASSUME InOrder, Same, NoName \notin DOMAIN disk', Stdout \in DOMAIN disk',
         now = 0 => p'.pc \in {"next", "exited", "killed"} /\ out'.buf = <<>>
  PROVE  InOrder' /\ now' = now
<1>1. now' = now
  BY DEF now, Same
<1>2. \A name : OutName(name)' = OutName(name)
  BY DEF OutName, Same
<1> QED BY <1>1, <1>2 DEF InOrder, Same, OutName

(* While a file is read nobody replaces it.                                *)
LEMMA InputsStay ==
  ASSUME IInv, Same, Spares(p.outName), now > 0,
         inp'.open => inp.open /\ inp'.all = inp.all
  PROVE  Inputs'
<1>1. now' = now
  BY DEF now, Same
<1>2. \A j \in DOMAIN p.names : j >= now /\ p.names[j] \in DOMAIN disk' => p.names[j] # p.outName
  BY OutIsApart DEF IInv, Spares
<1> QED BY <1>1, <1>2 DEF IInv, Inputs, Same, Spares

(* The meaning of data does not change.                                    *)
LEMMA MeantSame ==
  ASSUME UNCHANGED <<conf, first>>
  PROVE  /\ \A m : Meant(m)' = Meant(m) /\ Passed(m)' = Passed(m) /\ OutName(m)' = OutName(m)
         /\ MakesFile' = MakesFile
  BY DEF Meant, Passed, OutName, MakesFile

(* What was made stays whole, if what is made now is whole when it must be. *)
LEMMA MadeStays ==
  ASSUME IInv, Same, Spares(p.outName),
         p.outName \in DOMAIN disk' /\ disk'[p.outName].by = "bzip2" =>
           /\ MakesFile
           /\ p'.unchecked \/ Whole(p.outName)'
              \/ ((p'.delete \/ p'.pc = "killed") /\ (p'.pc = "exited" => p'.warned))
  PROVE  Made'
<1>1. MakesFile' = MakesFile /\ p'.outName = p.outName
  BY MeantSame DEF Same
<1>2. ASSUME NEW n \in DOMAIN disk', disk'[n].by = "bzip2", n # p.outName
      PROVE  MakesFile /\ (p'.unchecked \/ Whole(n)')
  <2>1. n \in DOMAIN disk /\ disk'[n] = disk[n] /\ (p.unchecked => p'.unchecked)
    BY <1>2 DEF Spares, Same
  <2>2. MakesFile /\ (p.unchecked \/ Whole(n))
    BY <1>2, <2>1 DEF IInv, Made
  <2>3. Whole(n) => Whole(n)'
    BY <2>1, MeantSame DEF Whole, Same
  <2> QED BY <2>1, <2>2, <2>3
<1> QED BY <1>1, <1>2 DEF Made

(* What is owed stays in a file of the user's that nobody touches, or in an *)
(* output that is finished.                                                 *)
LEMMA KeptOne ==
  ASSUME IInv, Same,
         \A n \in DOMAIN disk \ {Stdout} : disk[n].by = "user" => n \in DOMAIN disk' /\ disk'[n] = disk[n],
         \A n \in DOMAIN disk : n # p.outName => n \in DOMAIN disk' /\ disk'[n] = disk[n],
         MakesFile /\ p.pc \in {"next", "exited", "killed"} /\ ~p.delete =>
           /\ p'.pc \in {"next", "exited", "killed"} /\ ~p'.delete
           /\ p.outName \in DOMAIN disk => p.outName \in DOMAIN disk' /\ disk'[p.outName] = disk[p.outName],
         NEW data, Kept(data)
  PROVE  Kept(data)'
<1>1. now' = now /\ p'.names = p.names /\ (p.unchecked => p'.unchecked)
  BY DEF now, Same
<1>2. CASE \E n \in DOMAIN disk \ {Stdout} : disk[n].by = "user" /\ disk[n].kind = "regular" /\ disk[n].data = data
  BY <1>2 DEF Kept
<1>3. CASE \E j \in 1..now :
             /\ j = now => p.pc \in {"next", "exited", "killed"} /\ ~p.delete
             /\ MakesFile /\ OutName(p.names[j]) \in DOMAIN disk /\ disk[OutName(p.names[j])].data = Meant(data)
  <2>1. PICK j \in 1..now :
             /\ j = now => p.pc \in {"next", "exited", "killed"} /\ ~p.delete
             /\ MakesFile /\ OutName(p.names[j]) \in DOMAIN disk /\ disk[OutName(p.names[j])].data = Meant(data)
    BY <1>3
  <2>2. now \in Int
    BY DEF now, IInv, InOrder
  <2>3. now > 0
    BY <2>2
  <2>4. j # now => OutName(p.names[j]) # p.outName
    BY <2>1, <2>3, OutIsApart DEF IInv
  <2>5. j = now => OutName(p.names[j]) = p.outName
    BY <2>3 DEF IInv, InOrder
  <2>6. OutName(p.names[j]) \in DOMAIN disk' /\ disk'[OutName(p.names[j])] = disk[OutName(p.names[j])]
    BY <2>1, <2>4, <2>5
  <2>7. /\ OutName(p.names[j])' = OutName(p.names[j]) /\ Meant(data)' = Meant(data) /\ MakesFile'
    BY <1>1, <2>1, MeantSame DEF Same, OutName, Meant
  <2>8. \E i \in 1..now' :
             /\ i = now' => p'.pc \in {"next", "exited", "killed"} /\ ~p'.delete
             /\ MakesFile' /\ OutName(p.names[i])' \in DOMAIN disk' /\ disk'[OutName(p.names[i])'].data = Meant(data)'
    BY <1>1, <2>1, <2>6, <2>7
  <2> QED BY <2>8 DEF Kept
<1> QED BY <1>2, <1>3 DEF Kept

(* All that is owed stays so. *)
LEMMA KeptStays ==
  ASSUME IInv, Same, owed' \subseteq owed,
         \A n \in DOMAIN disk \ {Stdout} : disk[n].by = "user" => n \in DOMAIN disk' /\ disk'[n] = disk[n],
         \A n \in DOMAIN disk : n # p.outName => n \in DOMAIN disk' /\ disk'[n] = disk[n],
         MakesFile /\ p.pc \in {"next", "exited", "killed"} /\ ~p.delete =>
           /\ p'.pc \in {"next", "exited", "killed"} /\ ~p'.delete
           /\ p.outName \in DOMAIN disk => p.outName \in DOMAIN disk' /\ disk'[p.outName] = disk[p.outName]
  PROVE  KeptAll'
<1>1. p.unchecked => p'.unchecked
  BY DEF Same
<1>2. ASSUME NEW data, Kept(data) PROVE Kept(data)'
  BY <1>2, KeptOne
<1> QED BY <1>1, <1>2 DEF IInv, KeptAll

-----------------------------------------------------------------------------
(* Steps while a file is worked on *)

(* There is a file that is dealt with. *)
LEMMA Active ==
  ASSUME InOrder, p.pc \notin {"next", "exited", "killed"}
  PROVE  now > 0 /\ now \in Nat /\ p.inName = p.names[now] /\ p.outName = OutName(p.inName)
<1> DEFINE S == {p.names[i] : i \in DOMAIN p.names}
<1>1. p.names \in Seq(S) /\ p.todo \in Seq(S) /\ Len(p.todo) <= Len(p.names)
  BY DEF InOrder
<1> HIDE DEF S
<1>2. Len(p.names) \in Nat /\ Len(p.todo) \in Nat
  BY <1>1
<1>3. now \in Nat
  BY <1>1, <1>2 DEF now
<1>4. now # 0
  BY DEF InOrder
<1> QED BY <1>3, <1>4 DEF InOrder

(* The output is written, or not. *)
Writes == disk' = disk \/ \E d \in Seq(Chunks) : disk' = Grown(d)

(* Writing leaves all files but the output as they are, and it the one that was made. *)
LEMMA WritesIs ==
  ASSUME TypeOK, NoName \notin DOMAIN disk, Stdout \in DOMAIN disk, Writes
  PROVE  /\ Spares(p.outName) /\ DOMAIN disk' = DOMAIN disk
         /\ \A n \in DOMAIN disk : n # p.outName => disk'[n] = disk[n]
         /\ p.outName \in DOMAIN disk => disk'[p.outName].by = disk[p.outName].by
<1>1. CASE disk' = disk
  BY <1>1 DEF TypeOK, Spares
<1>2. CASE \E d \in Seq(Chunks) : disk' = Grown(d)
  <2>1. PICK d \in Seq(Chunks) : disk' = Grown(d)
    BY <1>2
  <2>2. /\ DOMAIN disk' = DOMAIN disk /\ disk' \in [DOMAIN disk' -> FileType]
        /\ \A n \in DOMAIN disk : n # p.outName => disk'[n] = disk[n]
        /\ p.outName \in DOMAIN disk => disk'[p.outName].by = disk[p.outName].by
    BY <2>1, GrownIs
  <2> QED BY <2>2 DEF Spares
<1> QED BY <1>1, <1>2 DEF Writes

(* A step of the work: it goes on, fails, or in a test comes to the next file. *)
LEMMA WorkStep ==
  ASSUME IInv, p.pc \in Writing, Same, DOMAIN p' = Fields, p'.delete = p.delete, p'.streamNo \in Nat,
         UNCHANGED owed, p'.pc \in Writing \cup {"fail", "next"}, inp' \in FILE, out' \in FILE, Writes,
         inp'.open => inp.open /\ inp'.all = inp.all,
         p'.pc \in Reading => inp'.open,
         p'.pc \in {"next", "not bzip2", "finish"} => ~inp'.open,
         p'.pc = "next" => ~MakesFile,
         Content'
  PROVE  IInv'
<1>0. /\ p.pc \in Working /\ p.pc \notin {"next", "exited", "killed"}
      /\ p'.pc \notin {"output", "links", "create", "ready", "exited", "killed", "check", "open", "unlink", "discard"}
      /\ (p'.pc \in Before => p'.pc = "next")
      /\ p'.pc \in Before \cup {"create", "ready"} \cup Working \cup {"fail", "exited", "killed"}
  BY DEF Writing, Working, Before
<1>1. TypeOK /\ InOrder /\ now > 0 /\ now \in Nat /\ NoName \notin DOMAIN disk /\ Stdout \in DOMAIN disk
  BY <1>0, Active DEF IInv, InOrder
<1>2. /\ Spares(p.outName) /\ DOMAIN disk' = DOMAIN disk
      /\ \A n \in DOMAIN disk : n # p.outName => disk'[n] = disk[n]
      /\ p.outName \in DOMAIN disk => disk'[p.outName].by = disk[p.outName].by
  BY <1>1, WritesIs
<1>3. MakesFile' = MakesFile /\ p'.outName = p.outName
  BY MeantSame DEF Same
<1>4. TypeOK'
  BY <1>0, <1>2 DEF IInv, TypeOK, Same, Spares
<1>5. InOrder'
  <2>1. now # 0
    BY ONLY <1>1
  <2>2. NoName \notin DOMAIN disk' /\ Stdout \in DOMAIN disk'
    BY <1>2 DEF Spares
  <2> QED BY <1>1, <2>1, <2>2, OrderStays
<1>6. MakesFile => p.delete /\ p.outName \in DOMAIN disk /\ disk[p.outName].by = "bzip2"
  BY <1>0 DEF IInv, Located, Mine
<1>7. Located'
  <2>1. p'.pc \notin Early /\ (p'.pc \in After => p'.pc \in {"not bzip2", "finish"})
    BY <1>0 DEF Early, After, Before, Working, Writing
  <2> QED BY <1>0, <1>3, <1>6, <2>1 DEF Located
<1>8. Mine'
  BY <1>2, <1>3, <1>6 DEF Mine
<1>9. Inputs'
  BY <1>1, <1>2, InputsStay
<1>10. ~MakesFile => p.outName \in {Stdout, NoName}
  BY <1>1, OutIsApart
<1>11. Made'
  <2>1. ASSUME p.outName \in DOMAIN disk', disk'[p.outName].by = "bzip2"
        PROVE  MakesFile
    BY <1>2, <2>1 DEF IInv, Made
  <2> QED BY <1>0, <1>2, <1>6, <2>1, MadeStays
<1>12. KeptAll'
  <2>1. ASSUME NEW n \in DOMAIN disk \ {Stdout}, disk[n].by = "user" PROVE n # p.outName
    BY <1>1, <1>6, <1>10, <2>1
  <2> QED BY <1>0, <1>2, <2>1, KeptStays
<1> QED BY <1>4, <1>5, <1>7, <1>8, <1>9, <1>11, <1>12 DEF IInv

-----------------------------------------------------------------------------
(* What is written, and what is read *)

(* Chunks of data, joined and taken. *)
LEMMA Joined ==
  ASSUME NEW s \in Seq(Chunks), NEW t \in Seq(Chunks), NEW u \in Seq(Chunks)
  PROVE  /\ s \o t \in Seq(Chunks) /\ (s \o t) \o u = s \o (t \o u)
         /\ s \o <<>> = s /\ <<>> \o s = s /\ <<>> \in Seq(Chunks)
<1>1. s \o t \in Seq(Chunks)
  BY ConcatProperties
<1>2. (s \o t) \o u = s \o (t \o u)
  BY ConcatAssociative
<1>3. s \o <<>> = s /\ <<>> \o s = s
  BY ConcatEmptySeq
<1> QED BY <1>1, <1>2, <1>3, EmptySeq

(* Three pieces of data, joined in either order. *)
LEMMA Regroup ==
  \A s, t, u \in Seq(Chunks) : s \o (t \o u) = (s \o t) \o u
  BY ConcatAssociative

(* Data of one chunk. *)
LEMMA OneChunk == \A c \in Chunks : <<c>> \in Seq(Chunks)
  OBVIOUS

(* The chunks of the format. *)
LEMMA Marks == /\ "BZh" \in Chunks /\ "end" \in Chunks /\ "!" \in Chunks /\ "new" \in Chunks
               /\ <<"BZh">> \in Seq(Chunks) /\ <<"end">> \in Seq(Chunks) /\ <<"new">> \in Seq(Chunks)
<1>1. "BZh" \in Chunks /\ "end" \in Chunks /\ "!" \in Chunks /\ "new" \in Chunks
  BY ChunkAssumption
<1> QED BY <1>1

(* The first chunk, and the others. *)
LEMMA Taken ==
  ASSUME NEW d \in Seq(Chunks), d # <<>>
  PROVE  Head(d) \in Chunks /\ Tail(d) \in Seq(Chunks) /\ d = <<Head(d)>> \o Tail(d)
<1>1. Head(d) \in Chunks /\ Tail(d) \in Seq(Chunks)
  BY HeadTailProperties
<1>2. /\ Len(Tail(d)) = Len(d) - 1 /\ \A i \in 1..Len(Tail(d)) : Tail(d)[i] = d[i + 1]
      /\ Len(d) \in Nat /\ Len(d) > 0 /\ d[1] = Head(d)
  BY HeadTailProperties, EmptySeq
<1> QED BY <1>1, <1>2

(* A buffer of a FILE. *)
LEMMA BufIs ==
  ASSUME NEW f \in FILE, NEW b \in Seq(Chunks)
  PROVE  /\ [f EXCEPT !.buf = b] \in FILE /\ [f EXCEPT !.buf = b].buf = b
         /\ [f EXCEPT !.buf = b, !.err = TRUE] \in FILE /\ [f EXCEPT !.buf = b, !.err = TRUE].err
         /\ f.buf \in Seq(Chunks) /\ <<>> \in Seq(Chunks)
  BY EmptySeq DEF FILE

(* What is in the output file and in its buffer, after a write. *)
LEMMA WrittenIs ==
  ASSUME TypeOK, NEW data \in Seq(Chunks), Written(data), p'.outName = p.outName
  PROVE  /\ out' \in FILE /\ Writes
         /\ p.outName \in DOMAIN disk /\ ~out'.err => Got' = Got \o data
<1> DEFINE o == p.outName
           b == out.buf
           a == disk[o].data
<1>0. out \in FILE /\ b \in Seq(Chunks) /\ (o \in DOMAIN disk => a \in Seq(Chunks)) /\ <<>> \in Seq(Chunks)
  BY BufIs DEF TypeOK, FileType
<1>1. b \o data \in Seq(Chunks)
  BY <1>0, Joined
<1>2. CASE out' = [out EXCEPT !.buf = @ \o data] /\ UNCHANGED disk /\ Fine
  <2>1. out' \in FILE /\ out'.buf = b \o data
    BY <1>0, <1>1, <1>2, BufIs
  <2>2. ASSUME o \in DOMAIN disk PROVE Got' = Got \o data
    <3>1. Got' = a \o (b \o data) /\ Got = a \o b /\ a \in Seq(Chunks)
      BY <1>0, <1>2, <2>1, <2>2 DEF Got
    <3> HIDE DEF a, b
    <3>2. a \in Seq(Chunks) /\ b \in Seq(Chunks) /\ data \in Seq(Chunks)
      BY <1>0, <3>1
    <3>3. a \o (b \o data) = (a \o b) \o data
      BY ONLY <3>2, Regroup, Zenon
    <3> QED BY <3>1, <3>3
  <2> QED BY <1>2, <2>1, <2>2 DEF Writes
<1>3. CASE out' = [out EXCEPT !.buf = <<>>] /\ disk' = Grown(b \o data) /\ Fine
  <2>1. out' \in FILE /\ out'.buf = <<>>
    BY <1>0, <1>3, BufIs
  <2>2. ASSUME o \in DOMAIN disk PROVE Got' = Got \o data
    <3>1. disk'[o].data = a \o (b \o data) /\ a \in Seq(Chunks)
      BY <1>0, <1>1, <1>3, <2>2, GrownIs
    <3>2. Got' = (a \o (b \o data)) \o <<>> /\ Got = a \o b
      BY <2>1, <3>1 DEF Got
    <3> HIDE DEF a, b
    <3>3. a \in Seq(Chunks) /\ b \in Seq(Chunks) /\ data \in Seq(Chunks) /\ b \o data \in Seq(Chunks)
      BY <1>0, <1>1, <3>1
    <3>4. a \o (b \o data) = (a \o b) \o data
      BY ONLY <3>3, Regroup, Zenon
    <3>5. a \o (b \o data) \in Seq(Chunks)
      BY ONLY <3>3, ConcatProperties
    <3>6. (a \o (b \o data)) \o <<>> = a \o (b \o data)
      BY ONLY <3>5, ConcatEmptySeq
    <3> QED BY <3>2, <3>4, <3>6
  <2> QED BY <1>1, <1>3, <2>1, <2>2 DEF Writes
<1>4. CASE out' = [out EXCEPT !.buf = <<>>, !.err = TRUE] /\ UNCHANGED disk /\ Mishap
  <2>1. out' \in FILE /\ out'.err
    BY <1>0, <1>4, BufIs
  <2> QED BY <1>4, <2>1 DEF Writes
<1> QED BY <1>2, <1>3, <1>4 DEF Written

(* All of it is in the file after a flush, unless that fails and there was something to flush. *)
LEMMA FlushedIs ==
  ASSUME TypeOK, NEW data \in Seq(Chunks), Flushed(data), p'.outName = p.outName
  PROVE  /\ out' \in FILE /\ Writes
         /\ p.outName \in DOMAIN disk =>
              /\ disk'[p.outName].data = Got \o data \/ (out'.err /\ (out.buf = <<>> => disk'[p.outName].data = Got))
              /\ ~out'.err => Got' = Got \o data
<1> DEFINE o == p.outName
           b == out.buf
           a == disk[o].data
<1>0. out \in FILE /\ b \in Seq(Chunks) /\ (o \in DOMAIN disk => a \in Seq(Chunks)) /\ <<>> \in Seq(Chunks)
  BY BufIs DEF TypeOK, FileType
<1>1. b \o data \in Seq(Chunks)
  BY <1>0, Joined
<1>3. CASE out' = [out EXCEPT !.buf = <<>>] /\ disk' = Grown(b \o data) /\ Fine
  <2>1. out' \in FILE /\ out'.buf = <<>>
    BY <1>0, <1>3, BufIs
  <2>2. ASSUME o \in DOMAIN disk PROVE disk'[o].data = Got \o data /\ Got' = Got \o data
    <3>1. /\ disk'[o].data = a \o (b \o data) /\ a \in Seq(Chunks) /\ Got = a \o b
          /\ Got' = disk'[o].data \o <<>>
      BY <1>0, <1>1, <1>3, <2>1, <2>2, GrownIs DEF Got
    <3> HIDE DEF a, b
    <3>2. a \in Seq(Chunks) /\ b \in Seq(Chunks) /\ data \in Seq(Chunks)
      BY <1>0, <3>1
    <3>3. a \o (b \o data) = (a \o b) \o data
      BY ONLY <3>2, Regroup, Zenon
    <3>4. a \o (b \o data) \in Seq(Chunks)
      BY ONLY <1>1, <3>2, ConcatProperties
    <3>5. (a \o (b \o data)) \o <<>> = a \o (b \o data)
      BY ONLY <3>4, ConcatEmptySeq
    <3> QED BY <3>1, <3>3, <3>5
  <2> QED BY <1>1, <1>3, <2>1, <2>2 DEF Writes
<1>4. CASE out' = [out EXCEPT !.buf = <<>>, !.err = TRUE] /\ UNCHANGED disk /\ Mishap
  <2>1. out' \in FILE /\ out'.err
    BY <1>0, <1>4, BufIs
  <2>2. ASSUME o \in DOMAIN disk, b = <<>> PROVE disk'[o].data = Got
    <3>1. Got = a \o <<>> /\ a \in Seq(Chunks) /\ disk'[o].data = a
      BY <1>0, <1>4, <2>2 DEF Got
    <3> HIDE DEF a, b
    <3> QED BY <3>1, ConcatEmptySeq
  <2> QED BY <1>4, <2>1, <2>2 DEF Writes
<1> QED BY <1>3, <1>4 DEF Flushed

(* A chunk is taken from the input. *)
LEMMA Parts ==
  ASSUME NEW a \in Seq(Chunks), NEW b \in Seq(Chunks)
  PROVE  SubSeq(a \o b, 1, Len(a \o b) - Len(b)) = a
<1> DEFINE s == a \o b
           n == Len(a)
<1>1. s \in Seq(Chunks) /\ Len(s) = n + Len(b) /\ n \in Nat /\ Len(b) \in Nat
      /\ \A i \in 1..n : s[i] = a[i]
  BY ConcatProperties, LenProperties
<1>2. Len(s) - Len(b) = n /\ n \in 0..Len(s) /\ 0 \in 0..Len(s)
  BY <1>1
<1> HIDE DEF s, n
<1>3. SubSeq(s, 1, n) \in Seq(Chunks) /\ Len(SubSeq(s, 1, n)) = n /\ \A i \in 1..n : SubSeq(s, 1, n)[i] = s[i]
  <2>1. \A i \in 1..n : s[i] \in Chunks
    BY <1>1, <1>2, ElementOfSeq
  <2> QED BY <1>1, <1>2, <2>1, SubSeqProperties
<1>4. SubSeq(s, 1, n) = a
  BY <1>1, <1>3, SeqEqual DEF n
<1> QED BY <1>2, <1>4 DEF s

(* What has been read grows by the chunk that is taken from the input. *)
LEMMA TakeOne ==
  ASSUME inp \in FILE, inp.data # <<>>, inp.all = Consumed \o inp.data,
         inp' = [inp EXCEPT !.data = Tail(@)]
  PROVE  /\ inp' \in FILE /\ inp'.all = inp.all /\ inp'.open = inp.open /\ inp'.err = inp.err
         /\ inp'.data = Tail(inp.data) /\ Head(inp.data) \in Chunks
         /\ Consumed \in Seq(Chunks) /\ Consumed' = Append(Consumed, Head(inp.data))
         /\ inp'.all = Consumed' \o inp'.data
<1> DEFINE a == inp.all
           d == inp.data
           h == Head(d)
           t == Tail(d)
<1>1. a \in Seq(Chunks) /\ d \in Seq(Chunks)
  BY DEF FILE
<1>2. h \in Chunks /\ t \in Seq(Chunks) /\ d = <<h>> \o t
  BY <1>1, Taken
<1>3. inp' \in FILE /\ inp'.all = a /\ inp'.data = t /\ inp'.open = inp.open /\ inp'.err = inp.err
  BY <1>2 DEF FILE
<1>4. Consumed \in Seq(Chunks)
  <2>1. Len(a) \in Nat /\ Len(d) \in Nat
    BY <1>1
  <2> QED BY <1>1, <2>1 DEF Consumed
<1> HIDE DEF h, t
<1>5. Append(Consumed, h) \in Seq(Chunks) /\ a = Append(Consumed, h) \o t
  <2>1. Append(Consumed, h) = Consumed \o <<h>> /\ <<h>> \in Seq(Chunks)
    BY <1>2, <1>4, AppendIsConcat
  <2>2. Consumed \in Seq(Chunks) /\ <<h>> \in Seq(Chunks) /\ t \in Seq(Chunks)
    BY <1>2, <1>4, <2>1
  <2>3. Consumed \o (<<h>> \o t) = (Consumed \o <<h>>) \o t
    BY ONLY <2>2, Regroup, Zenon
  <2> QED BY <1>2, <1>4, <2>1, <2>3, AppendProperties
<1>6. Consumed' = Append(Consumed, h)
  <2>1. Consumed' = SubSeq(a, 1, Len(a) - Len(t))
    BY <1>3 DEF Consumed
  <2> QED BY <1>2, <1>5, <2>1, Parts
<1> QED BY <1>2, <1>3, <1>4, <1>5, <1>6 DEF h, t

(* What has been read of the input. *)
LEMMA ConsumedIs == ASSUME inp \in FILE PROVE Consumed \in Seq(Chunks) /\ (inp.data = <<>> => Consumed = inp.all)
<1> DEFINE a == inp.all
           n == Len(inp.data)
<1>1. a \in Seq(Chunks) /\ Len(a) \in Nat /\ n \in Nat /\ (inp.data = <<>> => n = 0) /\ Consumed = SubSeq(a, 1, Len(a) - n)
  BY DEF FILE, Consumed
<1> HIDE DEF a, n
<1>2. SubSeq(a, 1, Len(a) - n) \in Seq(Chunks)
  BY <1>1
<1>3. n = 0 => SubSeq(a, 1, Len(a) - n) = a
  BY <1>1
<1> QED BY <1>1, <1>2, <1>3 DEF a

-----------------------------------------------------------------------------
(* What counts as the output of the file *)

(* What stdout should hold grows with every file that is made into something. *)
LEMMA DueIs ==
  ASSUME TypeOK, Stdout \in DOMAIN first, NEW k \in Nat, AllMeant(k)
  PROVE  /\ Due(k) \in Seq(Chunks) /\ Due(0) = first[Stdout].data
         /\ AllMeant(k + 1) => Due(k + 1) = Due(k) \o Meant(first[p.names[k + 1]].data)
<1> DEFINE D == Seq(Chunks)
           start == first[Stdout].data
           M(i) == Meant(first[p.names[i]].data)
           s(n) == [i \in 1..n |-> M(i)]
<1>1. start \in D
  BY DEF TypeOK, FileType
<1>2. Takes(JoinStep, D, D) /\ \A a, b \in D : JoinStep[<<a, b>>] = a \o b
  <2>1. \A x \in D \X D : x[1] \o x[2] \in D
    BY ConcatProperties
  <2> HIDE DEF D
  <2>2. JoinStep = [x \in D \X D |-> x[1] \o x[2]]
    BY DEF JoinStep, D
  <2> QED BY <2>1, <2>2 DEF Takes
<1>3. \A i \in 1..k : M(i) \in D
  BY DEF AllMeant
<1>4. AllMeant(k + 1) => M(k + 1) \in D
  BY DEF AllMeant
<1>5. \A n : Due(n) = Accumulate(JoinStep, start, s(n))
  BY DEF Due
<1>6. Due(0) = start
  <2>1. s(0) = <<>>
    OBVIOUS
  <2> HIDE DEF s, start
  <2> QED BY <1>5, <2>1, AccumulateNone
<1> HIDE DEF D, M, start
<1>7. s(k) \in Seq(D)
  BY <1>3
<1>8. Due(k) \in D
  <2>1. start \in D /\ \A e \in D : Accumulate(JoinStep, start, s(k)) \in D
    <3> HIDE DEF s
    <3> QED BY <1>1, <1>2, <1>7, AccumulateOne
  <2> QED BY <1>5, <2>1
<1>9. ASSUME AllMeant(k + 1) PROVE Due(k + 1) = Due(k) \o M(k + 1)
  <2>1. s(k + 1) = Append(s(k), M(k + 1))
    <3>1. Len(s(k)) = k /\ DOMAIN s(k) = 1..k
      OBVIOUS
    <3> QED BY <3>1
  <2>2. M(k + 1) \in D
    BY <1>4, <1>9
  <2> HIDE DEF s
  <2>3. Accumulate(JoinStep, start, Append(s(k), M(k + 1))) = JoinStep[<<Accumulate(JoinStep, start, s(k)), M(k + 1)>>]
    BY <1>1, <1>2, <1>7, <2>2, AccumulateOne
  <2> QED BY <1>2, <1>5, <1>8, <2>1, <2>2, <2>3
<1> QED BY <1>6, <1>8, <1>9 DEF D, M, start

(* What the files before have brought stays as it was, and counts no more than before. *)
LEMMA CountsStay ==
  ASSUME Same
  PROVE  /\ \A k : Due(k)' = Due(k) /\ (AllMeant(k)' <=> AllMeant(k))
         /\ (Well' => Well) /\ now' = now /\ ToStdout' = ToStdout
         /\ (Counts' => Counts) /\ Base' = Base
<1>1. \A m : Meant(m)' = Meant(m) /\ Passed(m)' = Passed(m)
  BY MeantSame DEF Same
<1>2. now' = now /\ p'.names = p.names /\ first' = first /\ MakesFile' = MakesFile
  BY MeantSame DEF Same, now
<1>3. \A k : Due(k)' = Due(k)
  BY <1>2 DEF Due, Meant, Same
<1>4. \A k : AllMeant(k)' <=> AllMeant(k)
  BY <1>2 DEF AllMeant, Meant, Same
<1>5. Well' => Well
  BY <1>2 DEF Well, Passed, Same
<1>6. Base' = Base
  BY <1>2 DEF Base, Due, Meant, Same
<1>7. AllMeant(now - 1)' <=> AllMeant(now - 1)
  BY <1>2 DEF AllMeant, Meant, Same
<1>8. ToStdout' = ToStdout
  BY DEF ToStdout, Same
<1> QED BY <1>2, <1>3, <1>4, <1>5, <1>6, <1>7, <1>8 DEF Counts

(* What the files before have brought is data. *)
LEMMA BaseIs == ASSUME TypeOK, InOrder, now > 0, now \in Nat, Counts PROVE Base \in Seq(Chunks)
<1>1. CASE MakesFile
  BY <1>1, EmptySeq DEF Base
<1>2. CASE ~MakesFile
  <2>1. AllMeant(now - 1) /\ now - 1 \in Nat /\ Stdout \in DOMAIN first
    BY <1>2 DEF Counts, InOrder
  <2>2. Due(now - 1) \in Seq(Chunks)
    BY <2>1, DueIs
  <2> QED BY <1>2, <2>2 DEF Base
<1> QED BY <1>1, <1>2

(* More is written. *)
LEMMA WroteMore ==
  ASSUME TypeOK, InOrder, now > 0, now \in Nat, Same, NEW x \in Seq(Chunks), NEW s \in Seq(Chunks), Wrote(x),
         Counts => Got' = Got \o s, NEW y, y = x \o s
  PROVE  Counts' => Got' = Base' \o y
<1>1. (Counts' => Counts) /\ Base' = Base
  BY CountsStay
<1>2. ASSUME Counts PROVE Got' = Base \o y
  <2>1. Got' = (Base \o x) \o s /\ Base \in Seq(Chunks)
    BY <1>2, BaseIs DEF Wrote
  <2> HIDE DEF Base
  <2>2. Base \in Seq(Chunks) /\ x \in Seq(Chunks) /\ s \in Seq(Chunks)
    BY <2>1
  <2>3. Base \o (x \o s) = (Base \o x) \o s
    BY ONLY <2>2, Regroup, Zenon
  <2> QED BY <2>1, <2>3
<1> QED BY <1>1, <1>2

(* Nothing is written. *)
LEMMA WroteSame ==
  ASSUME Same, NEW x, Wrote(x), Counts => Got' = Got
  PROVE  Counts' => Got' = Base' \o x
<1>1. (Counts' => Counts) /\ Base' = Base
  BY CountsStay
<1> QED BY <1>1 DEF Wrote

(* What the output should be stays what it was. *)
LEMMA GoalSame ==
  ASSUME Same
  PROVE  Goal' = Goal /\ (Judged' <=> Judged) /\ (Piped' <=> Piped) /\ MakesFile' = MakesFile
         /\ p'.inName = p.inName /\ p'.outName = p.outName
<1>1. p'.inName = p.inName /\ p'.outName = p.outName /\ conf' = conf /\ first' = first
  BY DEF Same
<1>2. Goal' = Goal
  BY <1>1 DEF Goal, Meant
<1>3. Piped' <=> Piped
  BY <1>1 DEF Piped, Passed
<1> QED BY <1>1, <1>2, <1>3, MeantSame DEF Judged

(* An output that is complete stays so when nothing is written. *)
LEMMA DoneStays == ASSUME Same, Done, Counts => Got' = Got PROVE Done'
<1>1. Wrote(Goal) => (Counts' => Got' = Base' \o Goal)
  BY WroteSame
<1> QED BY <1>1, GoalSame DEF Done, Wrote

(* So does one that is in its file. *)
LEMMA DeliveredStays ==
  ASSUME Same, Delivered, MakesFile => disk'[p.outName].data = disk[p.outName].data,
         ~MakesFile /\ Counts => Got' = Got
  PROVE  Delivered'
<1>1. CASE MakesFile
  BY <1>1, GoalSame DEF Delivered
<1>2. CASE ~MakesFile
  <2>1. Wrote(Goal) => (Counts' => Got' = Base' \o Goal)
    BY <1>2, WroteSame
  <2> QED BY <1>2, <2>1, GoalSame DEF Delivered, Wrote
<1> QED BY <1>1, <1>2

(* The end of the output is written, and all of it comes to its file. *)
LEMMA FlushFinishes ==
  ASSUME TypeOK, InOrder, now > 0, now \in Nat, Same, Judged, NEW x \in Seq(Chunks), NEW s \in Seq(Chunks),
         Wrote(x), Goal = x \o s,
         Counts => disk'[p.outName].data = Got \o s /\ Got' = Got \o s
  PROVE  Delivered'
<1>1. CASE MakesFile
  <2>1. Counts /\ Base = <<>>
    BY <1>1 DEF Counts, Base
  <2>2. Got = x
    BY <2>1, ConcatEmptySeq DEF Wrote
  <2> QED BY <1>1, <2>1, <2>2, GoalSame DEF Delivered
<1>2. CASE ~MakesFile
  <2>1. ASSUME NEW y, y = x \o s PROVE Counts' => Got' = Base' \o y
    <3>1. Counts => Got' = Got \o s
      OBVIOUS
    <3> QED BY <2>1, <3>1, WroteMore
  <2>2. Counts' => Got' = Base' \o Goal
    BY <2>1
  <2>3. Judged' /\ ~MakesFile' /\ Goal' = Goal
    BY <1>2, GoalSame
  <2>4. Wrote(Goal)'
    BY <2>2, <2>3 DEF Wrote
  <2> QED BY <2>3, <2>4 DEF Delivered
<1> QED BY <1>1, <1>2

(* Nothing is read yet. *)
LEMMA NoneRead == ASSUME NEW a \in Seq(Chunks) PROVE SubSeq(a, 1, Len(a) - Len(a)) = <<>> /\ a = <<>> \o a
<1>1. Len(a) - Len(a) = 0
  OBVIOUS
<1> QED BY <1>1, ConcatEmptySeq

(* One more chunk at the end. *)
LEMMA AppendOn ==
  ASSUME NEW a \in Seq(Chunks), NEW c \in Seq(Chunks), NEW h \in Chunks
  PROVE  a \o Append(c, h) = (a \o c) \o <<h>>
<1>1. Append(c, h) = c \o <<h>> /\ <<h>> \in Seq(Chunks)
  BY AppendIsConcat
<1>2. a \in Seq(Chunks) /\ c \in Seq(Chunks) /\ <<h>> \in Seq(Chunks)
  BY <1>1
<1>3. a \o (c \o <<h>>) = (a \o c) \o <<h>>
  BY ONLY <1>2, Regroup, Zenon
<1> QED BY <1>1, <1>3

-----------------------------------------------------------------------------
(* Unpacking a chunk at a time *)

(* Unpacking goes from an Unpacker to an Unpacker. *)
LEMMA UnpackTakes == Takes(UnpackStep, Unpacker, Chunks) /\ Packet \in Unpacker
<1>1. Packet \in Unpacker
  BY EmptySeq DEF Packet, Unpacker
<1> DEFINE Out(u, c) ==
             CASE u.mode = "between" -> IF c = "BZh" THEN [u EXCEPT !.mode = "inside", !.any = TRUE]
                                        ELSE [u EXCEPT !.mode = "garbage"]
               [] u.mode = "inside"  -> IF c = "end" THEN [u EXCEPT !.mode = "between"]
                                        ELSE IF c = "!" THEN [u EXCEPT !.mode = "bad"]
                                        ELSE [u EXCEPT !.data = Append(@, c)]
               [] OTHER -> u
<1>2. ASSUME NEW u \in Unpacker, NEW c \in Chunks PROVE Out(u, c) \in Unpacker
  <2>1. u.data \in Seq(Chunks) /\ Append(u.data, c) \in Seq(Chunks)
    BY AppendProperties DEF Unpacker
  <2>2. CASE u.mode = "between"
    BY <2>2 DEF Unpacker
  <2>3. CASE u.mode = "inside"
    BY <2>1, <2>3 DEF Unpacker
  <2>4. CASE u.mode \notin {"between", "inside"}
    BY <2>4
  <2> QED BY <2>2, <2>3, <2>4
<1>3. UnpackStep = [x \in Unpacker \X Chunks |-> Out(x[1], x[2])]
  BY DEF UnpackStep
<1> HIDE DEF Out
<1>4. UnpackStep \in [Unpacker \X Chunks -> Unpacker]
  BY <1>2, <1>3
<1> QED BY <1>1, <1>4 DEF Takes

(* One more chunk. *)
LEMMA UnpackOne ==
  ASSUME NEW s \in Seq(Chunks), NEW c \in Chunks
  PROVE  /\ Unpacked(s) \in Unpacker /\ Unpacked(<<>>) = Packet
         /\ Unpacked(Append(s, c)) = UnpackStep[<<Unpacked(s), c>>]
<1>1. Unpacked(<<>>) = Packet
  BY AccumulateNone DEF Unpacked
<1> DEFINE B == Chunks
<1>2. Takes(UnpackStep, Unpacker, B)
  BY UnpackTakes
<1> HIDE DEF B
<1>3. ASSUME NEW t \in Seq(B), NEW e \in B
      PROVE  /\ Accumulate(UnpackStep, Packet, t) \in Unpacker
             /\ Accumulate(UnpackStep, Packet, Append(t, e)) = UnpackStep[<<Accumulate(UnpackStep, Packet, t), e>>]
  BY ONLY <1>2, UnpackTakes, AccumulateOne, t \in Seq(B), e \in B
<1>4. /\ Accumulate(UnpackStep, Packet, s) \in Unpacker
      /\ Accumulate(UnpackStep, Packet, Append(s, c)) = UnpackStep[<<Accumulate(UnpackStep, Packet, s), c>>]
  BY <1>3 DEF B
<1> QED BY <1>1, <1>4 DEF Unpacked

(* What one more chunk does, between streams, inside one, after garbage. *)
LEMMA UnpackCases ==
  ASSUME NEW s \in Seq(Chunks), NEW c \in Chunks
  PROVE  LET u == Unpacked(s)
             v == Unpacked(Append(s, c))
         IN  /\ u \in Unpacker /\ v \in Unpacker
             /\ u.mode = "between" /\ c = "BZh" => v.mode = "inside" /\ v.any /\ v.data = u.data
             /\ u.mode = "between" /\ c # "BZh" => v = [u EXCEPT !.mode = "garbage"]
             /\ u.mode = "garbage" => v = u
             /\ u.mode = "inside" /\ c = "end" => v.mode = "between" /\ v.any = u.any /\ v.data = u.data
             /\ u.mode = "inside" /\ c \notin {"end", "!"} =>
                  v.mode = "inside" /\ v.any = u.any /\ v.data = Append(u.data, c)
<1> DEFINE u == Unpacked(s)
           v == Unpacked(Append(s, c))
<1>1. u \in Unpacker /\ v = UnpackStep[<<u, c>>] /\ Append(s, c) \in Seq(Chunks)
  BY UnpackOne, AppendProperties
<1>2. v \in Unpacker
  BY <1>1, UnpackOne
<1> HIDE DEF u, v
<1>3. v = CASE u.mode = "between" -> IF c = "BZh" THEN [u EXCEPT !.mode = "inside", !.any = TRUE]
                                     ELSE [u EXCEPT !.mode = "garbage"]
            [] u.mode = "inside"  -> IF c = "end" THEN [u EXCEPT !.mode = "between"]
                                     ELSE IF c = "!" THEN [u EXCEPT !.mode = "bad"]
                                     ELSE [u EXCEPT !.data = Append(@, c)]
            [] OTHER -> u
  BY <1>1 DEF UnpackStep
<1>4. /\ u.mode = "between" /\ c = "BZh" => v = [u EXCEPT !.mode = "inside", !.any = TRUE]
      /\ u.mode = "between" /\ c # "BZh" => v = [u EXCEPT !.mode = "garbage"]
      /\ u.mode = "garbage" => v = u
      /\ u.mode = "inside" /\ c = "end" => v = [u EXCEPT !.mode = "between"]
      /\ u.mode = "inside" /\ c \notin {"end", "!"} => v = [u EXCEPT !.data = Append(@, c)]
  BY <1>3
<1>5. /\ [u EXCEPT !.mode = "inside", !.any = TRUE].mode = "inside" /\ [u EXCEPT !.mode = "inside", !.any = TRUE].any
      /\ [u EXCEPT !.mode = "inside", !.any = TRUE].data = u.data
      /\ [u EXCEPT !.mode = "between"].mode = "between" /\ [u EXCEPT !.mode = "between"].any = u.any
      /\ [u EXCEPT !.mode = "between"].data = u.data
      /\ [u EXCEPT !.data = Append(@, c)].mode = u.mode /\ [u EXCEPT !.data = Append(@, c)].any = u.any
      /\ [u EXCEPT !.data = Append(@, c)].data = Append(u.data, c)
  BY <1>1 DEF Unpacker
<1> QED BY <1>1, <1>2, <1>4, <1>5 DEF u, v

(* Where no stream begins everything is garbage, to the end. *)
LEMMA GarbageStays ==
  ASSUME NEW c \in Seq(Chunks), NEW s \in Seq(Chunks), s # <<>>, Head(s) # "BZh", Unpacked(c).mode = "between"
  PROVE  Unpacked(c \o s).mode = "garbage" /\ Unpacked(c \o s).any = Unpacked(c).any
         /\ Unpacked(c \o s).data = Unpacked(c).data
<1> DEFINE n == Len(s)
           Part(i) == c \o SubSeq(s, 1, i)
           g == [Unpacked(c) EXCEPT !.mode = "garbage"]
           P == {i \in 0..n - 1 : Unpacked(Part(i + 1)) = g}
<1>1. n \in Nat /\ n > 0 /\ (\A i \in 1..n : s[i] \in Chunks) /\ s[1] = Head(s) /\ s[1] \in Chunks
  BY HeadTailProperties, LenProperties, EmptySeq, ElementOfSeq
<1>2. \A i \in 0..n - 1 : Part(i) \in Seq(Chunks) /\ Part(i + 1) = Append(Part(i), s[i + 1])
  <2> SUFFICES ASSUME NEW i \in 0..n - 1
               PROVE  Part(i) \in Seq(Chunks) /\ Part(i + 1) = Append(Part(i), s[i + 1])
    OBVIOUS
  <2>1. s[i + 1] \in Chunks /\ i \in Nat /\ i + 1 \in 1..n
    BY <1>1
  <2>2. SubSeq(s, 1, i) \in Seq(Chunks) /\ SubSeq(s, 1, i + 1) = Append(SubSeq(s, 1, i), s[i + 1])
    BY <1>1, <2>1
  <2>3. Append(SubSeq(s, 1, i), s[i + 1]) = SubSeq(s, 1, i) \o <<s[i + 1]>> /\ <<s[i + 1]>> \in Seq(Chunks)
    BY <2>1, <2>2, AppendIsConcat
  <2>4. Part(i) \in Seq(Chunks) /\ c \o (SubSeq(s, 1, i) \o <<s[i + 1]>>) = Part(i) \o <<s[i + 1]>>
    BY <2>2, <2>3, Joined
  <2>5. Part(i) \o <<s[i + 1]>> = Append(Part(i), s[i + 1])
    BY <2>1, <2>4, AppendIsConcat
  <2> QED BY <2>2, <2>3, <2>4, <2>5
<1>3. Part(0) = c /\ Part(n) = c \o s
  <2>1. SubSeq(s, 1, 0) = <<>> /\ SubSeq(s, 1, n) = s
    BY <1>1
  <2> QED BY <2>1, Joined
<1> HIDE DEF Part
<1>4. Unpacked(c) \in Unpacker /\ g.mode = "garbage" /\ g.any = Unpacked(c).any /\ g.data = Unpacked(c).data
  <2>1. Unpacked(c) \in Unpacker
    BY <1>1, UnpackOne
  <2> QED BY <2>1 DEF Unpacker
<1> HIDE DEF g
<1>5. 0 \in P
  <2>1. Part(0 + 1) = Append(c, s[1])
    <3>1. 0 \in 0..n - 1 /\ 0 + 1 = 1
      BY <1>1
    <3> QED BY <1>2, <1>3, <3>1
  <2>2. \A e \in Chunks : e # "BZh" => Unpacked(Append(c, e)) = g
    BY UnpackCases DEF g
  <2>3. s[1] # "BZh" /\ s[1] \in Chunks
    BY <1>1
  <2>4. Unpacked(Append(c, s[1])) = g
    BY <2>2, <2>3, Zenon
  <2>5. Unpacked(Part(0 + 1)) = g
    BY <2>1, <2>4, Zenon
  <2> QED BY <1>1, <2>5
<1>6. ASSUME NEW i \in 0..(n - 1) - 1, i \in P PROVE i + 1 \in P
  <2>1. i + 1 \in 0..n - 1 /\ i + 2 \in 1..n /\ i + 2 = (i + 1) + 1
    BY <1>1
  <2>2. Part(i + 1) \in Seq(Chunks) /\ Part((i + 1) + 1) = Append(Part(i + 1), s[i + 2]) /\ s[i + 2] \in Chunks
    BY <1>1, <1>2, <2>1
  <2>3. Unpacked(Append(Part(i + 1), s[i + 2])) = g
    <3>1. Unpacked(Part(i + 1)) = g
      BY <1>6
    <3> QED BY <1>4, <2>2, <3>1, UnpackCases
  <2> QED BY <2>1, <2>2, <2>3
<1>7. n - 1 \in P
  <2>1. n - 1 \in Nat /\ n - 1 \in 0..n - 1
    BY <1>1
  <2> HIDE DEF P
  <2>2. 0..n - 1 \subseteq P
    BY <1>5, <1>6, <2>1, UpTo
  <2> QED BY <2>1, <2>2
<1>8. (n - 1) + 1 = n
  BY <1>1
<1> QED BY <1>3, <1>4, <1>7, <1>8

-----------------------------------------------------------------------------
(* The steps of compressStream and of the closing after it *)

(* What is known while a file is worked on. *)
LEMMA AtWork ==
  ASSUME IInv, p.pc \in Writing
  PROVE  /\ TypeOK /\ InOrder /\ DOMAIN p = Fields /\ inp \in FILE /\ out \in FILE /\ p.streamNo \in Nat
         /\ p.pc \in Working /\ now > 0 /\ now \in Nat /\ p.outName = OutName(p.inName) /\ Content
         /\ (MakesFile \/ Counts => p.outName \in DOMAIN disk /\ disk[p.outName].data \in Seq(Chunks))
         /\ (inp.open => p.inName \in DOMAIN first /\ inp.all = first[p.inName].data)
<1>1. TypeOK /\ p.pc \in Working /\ Content /\ InOrder /\ Mine /\ Inputs
  BY DEF IInv, Working
<1>2. now > 0 /\ now \in Nat /\ p.outName = OutName(p.inName)
  BY <1>1, Active DEF Writing
<1>3. MakesFile => p.outName \in DOMAIN disk
  BY <1>1 DEF Mine
<1>4. ToStdout => p.outName = Stdout /\ Stdout \in DOMAIN disk
  <2>1. ToStdout => OutName(p.inName) = Stdout
    BY DEF OutName, OutNameFor, Suffixed, Unsuffixed, ToStdout
  <2> QED BY <1>1, <1>2, <2>1 DEF InOrder
<1>5. p.outName \in DOMAIN disk => disk[p.outName].data \in Seq(Chunks)
  BY <1>1 DEF TypeOK, FileType
<1>6. Counts => MakesFile \/ ToStdout
  BY DEF Counts
<1> QED BY <1>1, <1>2, <1>3, <1>4, <1>5, <1>6 DEF TypeOK, Inputs

(* A step that only moves on keeps the rest of what is known of the file. *)
LEMMA MovedIs ==
  ASSUME NEW pc, Moved(pc), UNCHANGED <<conf, first>>
  PROVE  /\ Same /\ DOMAIN p' = Fields /\ p'.pc = pc /\ p'.delete = p.delete /\ p'.streamNo = p.streamNo
         /\ p'.unchecked = p.unchecked /\ p'.warned = p.warned
  BY DEF Moved, Fields, Aside, Same

(* Nothing moves. *)
LEMMA Stays == ASSUME DOMAIN p = Fields, p' = p PROVE Moved(p.pc)
  BY DEF Moved, Fair

(* A step of the work that says only where it goes on. *)
LEMMA WorkMoves ==
  ASSUME IInv, p.pc \in Writing, NEW pc \in Writing \cup {"fail", "next"}, Moved(pc),
         UNCHANGED <<conf, owed, first>>, inp' \in FILE, out' \in FILE, Writes,
         inp'.open => inp.open /\ inp'.all = inp.all,
         pc \in Reading => inp'.open,
         pc \in {"next", "not bzip2", "finish"} => ~inp'.open,
         pc = "next" => ~MakesFile,
         pc # "fail" => Content'
  PROVE  IInv'
<1>1. /\ Same /\ DOMAIN p' = Fields /\ p'.pc = pc /\ p'.delete = p.delete /\ p'.streamNo = p.streamNo
  BY MovedIs
<1>2. p'.pc = "fail" => Content'
  BY DEF Content, Early
<1>3. p'.streamNo \in Nat
  BY <1>1, AtWork
<1> QED BY <1>1, <1>2, <1>3, WorkStep

(* A call fails, and the program ends. *)
LEMMA FailsStep ==
  ASSUME IInv, p.pc \in Writing, Moved("fail"), UNCHANGED <<conf, owed, first>>,
         inp' \in FILE, out' \in FILE, Writes, inp'.open => inp.open /\ inp'.all = inp.all
  PROVE  IInv'
<1>1. "fail" \in Writing \cup {"fail", "next"} /\ "fail" \notin Reading
  BY DEF Reading
<1> QED BY <1>1, WorkMoves

(* The FILEs as they were, or closed, or with an error. *)
LEMMA FILEs ==
  ASSUME inp \in FILE
  PROVE  /\ Closed \in FILE /\ ~Closed.open /\ Closed.buf = <<>>
         /\ \A d \in Seq(Chunks) : Opened(d) \in FILE /\ Opened(d).open /\ Opened(d).all = d
                                    /\ Opened(d).data = d /\ Opened(d).buf = <<>> /\ ~Opened(d).err
         /\ [inp EXCEPT !.err = TRUE] \in FILE /\ [inp EXCEPT !.err = TRUE].err
         /\ [inp EXCEPT !.err = TRUE].open = inp.open /\ [inp EXCEPT !.err = TRUE].all = inp.all
         /\ [inp EXCEPT !.err = TRUE].data = inp.data
         /\ inp.data \in Seq(Chunks) /\ inp.all \in Seq(Chunks)
<1>1. <<>> \in Seq(Chunks)
  BY EmptySeq
<1>2. \A d \in Seq(Chunks) : Opened(d) \in FILE /\ Opened(d).open /\ Opened(d).all = d
                              /\ Opened(d).data = d /\ Opened(d).buf = <<>> /\ ~Opened(d).err
  BY <1>1 DEF Opened, FILE
<1>3. Closed \in FILE /\ ~Closed.open /\ Closed.buf = <<>>
  BY <1>1, <1>2 DEF Closed, FILE
<1> QED BY <1>2, <1>3 DEF FILE

(* bzip2.c, compressStream: BZ2_bzWriteOpen. *)
LEMMA CompressOpenOK == ASSUME IInv, CompressOpen PROVE IInv'
<1>1. p.pc = "compress" /\ p.pc \in Writing /\ p.pc \in Reading /\ UNCHANGED <<conf, owed, first>>
  BY DEF CompressOpen, At, Writing, Reading
<1>2. /\ TypeOK /\ InOrder /\ DOMAIN p = Fields /\ inp \in FILE /\ out \in FILE /\ now > 0 /\ now \in Nat /\ Content
      /\ (Counts => p.outName \in DOMAIN disk /\ disk[p.outName].data \in Seq(Chunks))
  BY <1>1, AtWork
<1>3. CASE Fails("memory")
  BY <1>1, <1>2, <1>3, GoesOn, FailsStep DEF Fails, Untouched, Writes
<1>4. CASE GoTo("write") /\ out' = [out EXCEPT !.buf = @ \o <<"BZh">>] /\ Fine /\ UNCHANGED <<disk, inp>>
  <2>1. Moved("write")
    BY <1>2, <1>4, GoesOn
  <2>2. /\ out.buf \in Seq(Chunks) /\ <<"BZh">> \in Seq(Chunks) /\ out.buf \o <<"BZh">> \in Seq(Chunks)
        /\ inp.all \in Seq(Chunks) /\ <<>> \in Seq(Chunks)
    BY <1>2, Marks, Joined DEF FILE
  <2>3. out' \in FILE /\ out'.buf = out.buf \o <<"BZh">>
    BY <1>2, <1>4, <2>2, BufIs
  <2>4. "write" \in Writing \cup {"fail", "next"} /\ inp.open
    BY <1>1 DEF Writing, IInv, Located
  <2>5. conf.op = "z" /\ Wrote(<<>>) /\ inp.data = inp.all
    BY <1>1, <1>2 DEF Content
  <2>6. p'.pc = "write" /\ p'.outName = p.outName /\ Same
    BY <1>1, <2>1, MovedIs DEF Same
  <2>7. ASSUME Counts PROVE Got' = Got \o <<"BZh">>
    <3> DEFINE d == disk[p.outName].data
               b == out.buf
    <3>1. Got' = d \o (b \o <<"BZh">>) /\ Got = d \o b
      BY <1>4, <2>3, <2>6 DEF Got
    <3>2. d \in Seq(Chunks) /\ b \in Seq(Chunks)
      BY <1>2, <2>2, <2>7
    <3> HIDE DEF d, b
    <3>3. d \o (b \o <<"BZh">>) = (d \o b) \o <<"BZh">>
      BY <3>2, Marks, Joined
    <3> QED BY <3>1, <3>3
  <2>8. Consumed' = <<>> /\ inp'.all = <<>> \o inp'.data
    BY <1>4, <2>2, <2>5, NoneRead DEF Consumed
  <2>9. ASSUME NEW y, y = <<>> \o <<"BZh">> PROVE Counts' => Got' = Base' \o y
    BY <1>2, <2>2, <2>5, <2>6, <2>7, <2>9, WroteMore
  <2>10. <<"BZh">> = <<>> \o <<"BZh">> /\ <<"BZh">> \o <<>> = <<"BZh">>
    BY <2>2, ConcatEmptySeq
  <2>11. Counts' => Got' = Base' \o (<<"BZh">> \o Consumed')
    BY <2>8, <2>9, <2>10
  <2>12. Content'
    BY <1>1, <2>5, <2>6, <2>8, <2>11 DEF Content, Early, Wrote
  <2> QED BY <1>1, <1>2, <1>4, <2>1, <2>3, <2>4, <2>12, WorkMoves DEF Writes
<1> QED BY <1>3, <1>4 DEF CompressOpen

(* The next chunk is read. *)
LEMMA NextChunk ==
  ASSUME inp \in FILE, inp.data # <<>>, inp' = [inp EXCEPT !.data = Tail(@)]
  PROVE  /\ inp' \in FILE /\ inp'.all = inp.all /\ inp'.open = inp.open /\ inp'.err = inp.err
         /\ inp'.data = Tail(inp.data) /\ Head(inp.data) \in Chunks /\ <<Head(inp.data)>> \in Seq(Chunks)
         /\ Tail(inp.data) \in Seq(Chunks) /\ inp.data = <<Head(inp.data)>> \o Tail(inp.data)
<1>1. inp.data \in Seq(Chunks)
  BY DEF FILE
<1>2. /\ Head(inp.data) \in Chunks /\ Tail(inp.data) \in Seq(Chunks)
      /\ inp.data = <<Head(inp.data)>> \o Tail(inp.data)
  BY <1>1, Taken
<1>3. inp' \in FILE /\ inp'.all = inp.all /\ inp'.data = Tail(inp.data) /\ inp'.open = inp.open /\ inp'.err = inp.err
  BY <1>2 DEF FILE
<1> QED BY <1>2, <1>3, OneChunk

(* A read that fails leaves the rest of the file unread. *)
LEMMA ReadErrorIs ==
  ASSUME inp \in FILE, out \in FILE, ReadError
  PROVE  /\ inp' \in FILE /\ inp'.err /\ inp'.open = inp.open /\ inp'.all = inp.all
         /\ disk' = disk /\ out' = out /\ out' \in FILE /\ Writes
  BY FILEs DEF ReadError, Writes

(* The reading and writing loop of compressStream. *)
LEMMA CompressChunkOK == ASSUME IInv, CompressChunk PROVE IInv'
<1>1. /\ p.pc = "write" /\ p.pc \in Writing /\ p.pc \in Reading /\ UNCHANGED <<conf, owed, first>>
      /\ inp.data # <<>> /\ ~inp.err /\ p.pc \in Writing \cup {"fail", "next"} /\ p.pc # "next"
  BY DEF CompressChunk, At, Writing, Reading
<1>2. /\ TypeOK /\ InOrder /\ DOMAIN p = Fields /\ inp \in FILE /\ out \in FILE /\ now > 0 /\ now \in Nat /\ Content
      /\ (Counts => p.outName \in DOMAIN disk /\ disk[p.outName].data \in Seq(Chunks))
  BY <1>1, AtWork
<1>3. inp.open /\ conf.op = "z" /\ inp.all = Consumed \o inp.data /\ Wrote(<<"BZh">> \o Consumed)
  BY <1>1, <1>2 DEF IInv, Located, Content
<1>4. CASE /\ Written(<<Head(inp.data)>>) /\ inp' = [inp EXCEPT !.data = Tail(@)]
           /\ IF out'.err THEN Failing("io") ELSE UNCHANGED p
  <2>1. /\ inp' \in FILE /\ inp'.all = inp.all /\ inp'.open = inp.open /\ inp'.err = inp.err
        /\ <<Head(inp.data)>> \in Seq(Chunks) /\ Head(inp.data) \in Chunks
    BY <1>1, <1>2, <1>4, NextChunk
  <2>2. (out'.err => Moved("fail")) /\ (~out'.err => Moved(p.pc))
    BY <1>2, <1>4, GoesOn, Stays
  <2>3. p'.outName = p.outName /\ Same
    BY <1>1, <2>2, MovedIs DEF Same
  <2>4. /\ out' \in FILE /\ Writes
        /\ p.outName \in DOMAIN disk /\ ~out'.err => Got' = Got \o <<Head(inp.data)>>
    BY <1>2, <1>4, <2>1, <2>3, WrittenIs
  <2>5. CASE out'.err
    BY <1>1, <1>2, <2>1, <2>2, <2>4, <2>5, FailsStep
  <2>6. CASE ~out'.err
    <3>1. Moved(p.pc) /\ p'.pc = p.pc
      BY <1>1, <2>2, <2>6, MovedIs
    <3>2. /\ Consumed \in Seq(Chunks) /\ Consumed' = Append(Consumed, Head(inp.data))
          /\ inp'.all = Consumed' \o inp'.data
      BY <1>1, <1>2, <1>3, <1>4, TakeOne
    <3> DEFINE x == <<"BZh">> \o Consumed
               s == <<Head(inp.data)>>
    <3>3. x \in Seq(Chunks) /\ s \in Seq(Chunks) /\ Wrote(x) /\ (Counts => Got' = Got \o s)
      BY <1>2, <1>3, <2>1, <2>4, <2>6, <3>2, Marks, ConcatProperties
    <3>4. <<"BZh">> \o Consumed' = x \o s
      BY <2>1, <3>2, Marks, AppendOn
    <3> HIDE DEF x, s
    <3>5. ASSUME NEW y, y = x \o s PROVE Counts' => Got' = Base' \o y
      BY <1>2, <2>3, <3>3, <3>5, WroteMore
    <3>6. Counts' => Got' = Base' \o (<<"BZh">> \o Consumed')
      BY <3>4, <3>5
    <3>7. Content'
      BY <1>1, <1>3, <3>1, <3>2, <3>6 DEF Content, Early, Wrote
    <3> QED BY <1>1, <1>3, <2>1, <2>4, <3>1, <3>7, WorkMoves
  <2> QED BY <2>5, <2>6
<1>5. CASE ReadError /\ UNCHANGED p
  <2>1. Moved(p.pc) /\ p'.pc = p.pc
    BY <1>2, <1>5, Stays
  <2>2. /\ inp' \in FILE /\ inp'.err /\ inp'.open = inp.open /\ inp'.all = inp.all
        /\ disk' = disk /\ out' = out /\ out' \in FILE /\ Writes
    BY <1>2, <1>5, ReadErrorIs
  <2>3. Content'
    BY <1>1, <1>3, <2>1, <2>2 DEF Content, Early
  <2> QED BY <1>1, <1>3, <2>1, <2>2, <2>3, WorkMoves
<1>6. CASE ReadError /\ Failing("io")
  <2>1. Moved("fail")
    BY <1>2, <1>6, GoesOn
  <2>2. inp' \in FILE /\ inp'.open = inp.open /\ inp'.all = inp.all /\ out' \in FILE /\ Writes
    BY <1>2, <1>6, ReadErrorIs
  <2> QED BY <1>1, <2>1, <2>2, FailsStep
<1> QED BY <1>4, <1>5, <1>6 DEF CompressChunk

(* BZ2_bzWriteClose64 and fflush: the output is packed if the input was read to its end. *)
LEMMA CompressEndOK == ASSUME IInv, CompressEnd PROVE IInv'
<1>1. /\ p.pc = "write" /\ p.pc \in Writing /\ p.pc \in Reading /\ UNCHANGED <<conf, owed, first, inp>>
      /\ (inp.data = <<>> \/ inp.err) /\ Flushed(<<"end">>)
      /\ IF out'.err THEN Failing("io") ELSE GoTo("flushed")
      /\ "flushed" \in Writing \cup {"fail", "next"} /\ "flushed" \notin Reading
  BY DEF CompressEnd, At, Writing, Reading
<1>2. /\ TypeOK /\ InOrder /\ DOMAIN p = Fields /\ inp \in FILE /\ out \in FILE /\ now > 0 /\ now \in Nat /\ Content
      /\ (Counts => p.outName \in DOMAIN disk /\ disk[p.outName].data \in Seq(Chunks))
      /\ p.inName \in DOMAIN first /\ inp.all = first[p.inName].data
  BY <1>1, AtWork DEF IInv, Located
<1>3. (out'.err => Moved("fail")) /\ (~out'.err => Moved("flushed"))
  BY <1>1, <1>2, GoesOn
<1>4. p'.outName = p.outName /\ Same
  BY <1>1, <1>3, MovedIs DEF Same
<1>5. /\ out' \in FILE /\ Writes
      /\ p.outName \in DOMAIN disk /\ ~out'.err => disk'[p.outName].data = Got \o <<"end">> /\ Got' = Got \o <<"end">>
  BY <1>1, <1>2, <1>4, Marks, FlushedIs
<1>6. CASE out'.err
  BY <1>1, <1>2, <1>3, <1>5, <1>6, FailsStep
<1>7. CASE ~out'.err
  <2>1. p'.pc = "flushed"
    BY <1>1, <1>3, <1>7, MovedIs
  <2>2. CASE inp.err
    <3>1. Content'
      BY <1>1, <2>1, <2>2 DEF Content, Early
    <3> QED BY <1>1, <1>2, <1>3, <1>5, <1>7, <3>1, WorkMoves
  <2>3. CASE ~inp.err
    <3> DEFINE x == <<"BZh">> \o inp.all
    <3>1. conf.op = "z" /\ Wrote(x)
      <4>1. Consumed = inp.all
        BY <1>1, <1>2, <2>3, ConsumedIs
      <4> QED BY <1>1, <1>2, <2>3, <4>1 DEF Content
    <3>2. x \in Seq(Chunks) /\ x \o <<"end">> \in Seq(Chunks)
      BY <1>2, Marks, ConcatProperties DEF FILE
    <3>3. Goal = x \o <<"end">>
      BY <1>2, <3>1 DEF Goal, Meant, Packed
    <3>4. Judged
      BY <1>2, <3>2, <3>3 DEF Judged
    <3> HIDE DEF x
    <3>5. Delivered'
      BY <1>2, <1>4, <1>5, <1>7, <3>1, <3>2, <3>3, <3>4, Marks, FlushFinishes
    <3>6. Content'
      BY <2>1, <3>5 DEF Content, Early
    <3> QED BY <1>1, <1>2, <1>3, <1>5, <1>7, <3>6, WorkMoves
  <2> QED BY <2>2, <2>3
<1> QED BY <1>6, <1>7

(* What is unpacked in the end: all of the input, or all before its garbage. *)
LEMMA Unzipped ==
  ASSUME conf.op # "z", NEW c \in Seq(Chunks), NEW s \in Seq(Chunks), Unpacked(c).mode = "between"
  PROVE  /\ Unpacked(c).any => Meant(c) = Unpacked(c).data
         /\ s # <<>> /\ Head(s) # "BZh" =>
              /\ Unpacked(c \o s).data = Unpacked(c).data
              /\ Unpacked(c).any /\ ~conf.force => Meant(c \o s) = Unpacked(c).data
              /\ conf.force => Meant(c \o s) = Unpacked(c).data \o (c \o s)
<1>1. c # <<>> \/ ~Unpacked(c).any
  <2>1. Unpacked(<<>>) = Packet
    BY Marks, UnpackOne
  <2> QED BY <2>1 DEF Packet
<1>2. \A d : Meant(d) = Restored(d, conf.force)
  BY DEF Meant
<1>3. Unpacked(c).any => Meant(c) = Unpacked(c).data
  BY <1>1, <1>2 DEF Restored
<1>4. ASSUME s # <<>>, Head(s) # "BZh"
      PROVE  /\ Unpacked(c \o s).data = Unpacked(c).data
             /\ Unpacked(c).any /\ ~conf.force => Meant(c \o s) = Unpacked(c).data
             /\ conf.force => Meant(c \o s) = Unpacked(c).data \o (c \o s)
  <2> DEFINE a == c \o s
  <2>1. Unpacked(a).mode = "garbage" /\ Unpacked(a).any = Unpacked(c).any /\ Unpacked(a).data = Unpacked(c).data
    BY <1>4, GarbageStays
  <2>2. a # <<>>
    BY <1>4
  <2>3. Unpacked(c).any \in BOOLEAN
    BY Marks, UnpackOne DEF Unpacker
  <2> HIDE DEF a
  <2>4. Meant(a) = IF ~Unpacked(a).any /\ ~conf.force THEN None
                   ELSE IF conf.force THEN Unpacked(a).data \o a ELSE Unpacked(a).data
    BY <1>2, <2>1, <2>2 DEF Restored
  <2>5. /\ Unpacked(c).any /\ ~conf.force => Meant(a) = Unpacked(c).data
        /\ conf.force => Meant(a) = Unpacked(c).data \o a
    BY <2>1, <2>3, <2>4
  <2> QED BY <2>1, <2>5 DEF a
<1> QED BY <1>3, <1>4

(* What nobody reads or writes stays what it was. *)
LEMMA SameData ==
  ASSUME NEW pc, Moved(pc)
  PROVE  /\ inp' = inp => Consumed' = Consumed /\ (Garbage' <=> Garbage)
         /\ disk' = disk /\ out' = out => Got' = Got /\ disk'[p'.outName].data = disk[p.outName].data
<1>1. p'.outName = p.outName
  BY DEF Moved, Fields, Aside
<1>2. inp' = inp => Consumed' = Consumed /\ (Garbage' <=> Garbage)
  BY DEF Consumed, Garbage
<1> QED BY <1>1, <1>2 DEF Got

-----------------------------------------------------------------------------
(* The files are closed *)

(* The output is closed. *)
LEMMA CloseOutputOK == ASSUME IInv, CloseOutput PROVE IInv'
<1>1. /\ p.pc = "flushed" /\ p.pc \in Writing /\ UNCHANGED <<conf, owed, first, inp, disk>>
      /\ out' \in {Closed, out} /\ (conf.src # "F2F" => out' = out)
      /\ "closed" \in Writing \cup {"fail", "next"} /\ "closed" \notin Reading
  BY DEF CloseOutput, At, Writing, Reading
<1>2. TypeOK /\ DOMAIN p = Fields /\ inp \in FILE /\ out \in FILE /\ Content
  BY <1>1, AtWork
<1>3. out' \in FILE /\ Writes
  BY <1>1, <1>2, FILEs DEF Writes
<1>4. GoTo("closed") \/ Failing("io") \/ FailingWithout
  BY DEF CloseOutput
<1>5. CASE GoTo("closed")
  <2>1. Moved("closed") /\ p'.pc = "closed"
    BY <1>1, <1>2, <1>5, GoesOn, MovedIs
  <2>2. Same /\ p'.unchecked = p.unchecked /\ p'.outName = p.outName
    BY <1>1, <2>1, MovedIs DEF Same
  <2>3. inp.err \/ p.unchecked \/ Delivered
    BY <1>1, <1>2 DEF Content
  <2>4. ~MakesFile /\ Counts => Got' = Got
    BY <1>1, <2>2 DEF Counts, ToStdout, Got
  <2>5. Delivered => Delivered'
    BY <1>1, <2>2, <2>4, DeliveredStays
  <2>6. Content'
    BY <1>1, <2>1, <2>2, <2>3, <2>5 DEF Content, Early
  <2> QED BY <1>1, <1>2, <1>3, <2>1, <2>6, WorkMoves
<1>6. CASE Failing("io") \/ FailingWithout
  BY <1>1, <1>2, <1>3, <1>6, GoesOn, FailsStep
<1> QED BY <1>4, <1>5, <1>6

(* The input is looked at and closed; an output of part of it is not finished. *)
LEMMA CloseInputOK == ASSUME IInv, CloseInput PROVE IInv'
<1>1. /\ p.pc = "closed" /\ p.pc \in Writing /\ UNCHANGED <<conf, owed, first, out, disk>>
      /\ inp' \in {Closed, inp} /\ "finish" \in Writing \cup {"fail", "next"} /\ "finish" \notin Reading
  BY DEF CloseInput, At, Writing, Reading, Untouched
<1>2. TypeOK /\ DOMAIN p = Fields /\ inp \in FILE /\ out \in FILE /\ Content
  BY <1>1, AtWork
<1>3. inp' \in FILE /\ out' \in FILE /\ Writes /\ (inp'.open => inp.open /\ inp'.all = inp.all)
  BY <1>1, <1>2, FILEs DEF Writes
<1>4. (~InputFailed /\ inp' = Closed /\ Step([pc |-> "finish", handle |-> FALSE])) \/ FailingWithout
  BY DEF CloseInput
<1>5. CASE ~InputFailed /\ inp' = Closed /\ Step([pc |-> "finish", handle |-> FALSE])
  <2> DEFINE c == [pc |-> "finish", handle |-> FALSE]
  <2>1. c.pc = "finish" /\ DOMAIN c = {"pc", "handle"} /\ Step(c)
    BY <1>5
  <2> HIDE DEF c
  <2>2. Moved("finish")
    BY <1>2, <2>1, GoesTo DEF Aside
  <2>3. Same /\ p'.pc = "finish" /\ p'.unchecked = p.unchecked /\ p'.outName = p.outName
    BY <1>1, <2>2, MovedIs DEF Same
  <2>4. p.unchecked \/ Delivered
    BY <1>1, <1>2, <1>5 DEF Content, InputFailed
  <2>5. Got' = Got
    BY <1>1, <2>3 DEF Got
  <2>6. Delivered => Delivered'
    BY <1>1, <2>3, <2>5, DeliveredStays
  <2>7. Content'
    BY <1>1, <2>3, <2>4, <2>6 DEF Content, Early
  <2>8. ~inp'.open
    BY <1>2, <1>5, FILEs
  <2> QED BY <1>1, <1>3, <2>2, <2>7, <2>8, WorkMoves
<1>6. CASE FailingWithout
  BY <1>1, <1>2, <1>3, <1>6, GoesOn, FailsStep
<1> QED BY <1>4, <1>5, <1>6

-----------------------------------------------------------------------------
(* The steps of uncompressStream and testStream *)

(* A test comes to the next file. *)
LEMMA TestFailsStep ==
  ASSUME IInv, p.pc \in Writing, conf.op = "test", TestFails, UNCHANGED <<disk, out, conf, owed, first>>
  PROVE  IInv'
<1>1. DOMAIN p = Fields /\ inp \in FILE /\ out \in FILE /\ "next" \notin Reading /\ "next" \in Writing \cup {"fail", "next"}
  BY AtWork DEF Reading
<1>2. Moved("next") /\ inp' = Closed /\ p'.pc = "next"
  BY <1>1, GoesOn DEF TestFails, Moved
<1>3. ~MakesFile
  BY DEF MakesFile, FileFor
<1>4. inp' \in FILE /\ ~inp'.open /\ out' \in FILE /\ Writes
  BY <1>1, <1>2, FILEs DEF Writes
<1>5. Content'
  <2>1. ~ToStdout'
    BY DEF ToStdout
  <2> QED BY <1>2, <2>1 DEF Content, Level, Early
<1> QED BY <1>1, <1>2, <1>3, <1>4, <1>5, WorkMoves

(* The library fails. *)
LEMMA LibraryFailsStep ==
  ASSUME IInv, p.pc \in Writing, LibraryFails, UNCHANGED <<conf, owed, first>>
  PROVE  IInv'
<1>1. DOMAIN p = Fields /\ inp \in FILE /\ out \in FILE
  BY AtWork
<1>2. ASSUME NEW error, Fails(error) PROVE IInv'
  BY <1>1, <1>2, GoesOn, FailsStep DEF Fails, Untouched, Writes
<1>3. CASE conf.op = "test" /\ TestFails /\ Mishap /\ UNCHANGED <<disk, out>>
  BY <1>3, TestFailsStep
<1> QED BY <1>2, <1>3 DEF LibraryFails

(* What is read is no stream, or a bad one. *)
LEMMA FoundBadStep ==
  ASSUME IInv, p.pc \in Writing, NEW error, FoundBad(error), UNCHANGED <<disk, out, conf, owed, first>>
  PROVE  IInv'
<1>1. DOMAIN p = Fields /\ inp \in FILE /\ out \in FILE
  BY AtWork
<1>2. CASE conf.op = "test"
  BY <1>2, TestFailsStep DEF FoundBad
<1>3. CASE conf.op # "test"
  BY <1>1, <1>3, GoesOn, FailsStep DEF FoundBad, Writes
<1> QED BY <1>2, <1>3

(* uncompressStream between streams: another stream, garbage, or the end. *)
LEMMA OpenStreamOK == ASSUME IInv, OpenStream PROVE IInv'
<1>1. p.pc = "stream" /\ p.pc \in Writing /\ p.pc \in Reading /\ UNCHANGED <<conf, owed, first>>
  BY DEF OpenStream, At, Writing, Reading
<1>2. /\ TypeOK /\ DOMAIN p = Fields /\ inp \in FILE /\ out \in FILE /\ p.streamNo \in Nat /\ inp.open /\ Content
  BY <1>1, AtWork DEF IInv, Located
<1>3. CASE LibraryFails
  BY <1>1, <1>3, LibraryFailsStep
<1>4. CASE inp.data = <<>> /\ FoundBad("eof") /\ Fine /\ UNCHANGED <<disk, out>>
  BY <1>1, <1>4, FoundBadStep
<1> DEFINE h == Head(inp.data)
           to == IF h = "BZh" THEN "data" ELSE IF conf.op = "unz" /\ conf.force THEN "rewind" ELSE "bad magic"
           c == [streamNo |-> p.streamNo + 1, pc |-> to]
<1>5. CASE /\ inp.data # <<>> /\ Fine /\ UNCHANGED <<disk, out>> /\ Step(c)
           /\ inp' = IF h = "BZh" THEN [inp EXCEPT !.data = Tail(@)] ELSE inp
  <2>1. c.pc = to /\ c.streamNo = p.streamNo + 1 /\ DOMAIN c = {"pc", "streamNo"} /\ Step(c)
    BY <1>5
  <2> HIDE DEF c
  <2>2. /\ DOMAIN p' = Fields /\ p'.pc = to /\ p'.streamNo = p.streamNo + 1
        /\ p'.names = p.names /\ p'.todo = p.todo /\ p'.inName = p.inName /\ p'.outName = p.outName
        /\ p'.delete = p.delete /\ p'.unchecked = p.unchecked
        /\ p'.exitValue = p.exitValue /\ p'.failsExist = p.failsExist
    BY <1>2, <2>1, StepIs DEF Fields
  <2>3. Same /\ p'.streamNo \in Nat /\ p'.delete = p.delete /\ to \in Reading /\ to \in Writing /\ to \notin {"next", "not bzip2", "finish"}
    <3>1. to \in Reading /\ to \in Writing /\ to \notin {"next", "not bzip2", "finish"}
      BY DEF Reading, Writing
    <3>2. Same
      BY <1>1, <2>2 DEF Same, Fair
    <3>3. p.streamNo + 1 \in Nat
      BY <1>2
    <3> HIDE DEF to
    <3> QED BY <2>2, <3>1, <3>2, <3>3
  <2>4. inp' \in FILE /\ inp'.open /\ inp'.all = inp.all
    BY <1>2, <1>5, NextChunk
  <2>5. /\ Unwound("between") /\ (p.streamNo = 0 <=> Consumed = <<>>) /\ (Consumed # <<>> => Unpacked(Consumed).any)
        /\ conf.op # "z"
    BY <1>1, <1>2 DEF Content
  <2>6. Counts' => Got' = Base' \o Unpacked(Consumed).data
    <3>1. Got' = Got
      BY <1>5, <2>2 DEF Got
    <3> QED BY <2>3, <2>5, <3>1, WroteSame DEF Unwound
  <2>7. ASSUME h = "BZh" PROVE Content'
    <3>1. /\ Consumed \in Seq(Chunks) /\ Consumed' = Append(Consumed, "BZh") /\ inp'.all = Consumed' \o inp'.data
      BY <1>2, <1>5, <2>5, <2>7, TakeOne DEF Unwound
    <3>2. Unpacked(Consumed').mode = "inside" /\ Unpacked(Consumed').any /\ Unpacked(Consumed').data = Unpacked(Consumed).data
      BY <2>5, <3>1, Marks, UnpackCases DEF Unwound
    <3>3. Unwound("inside")' /\ Unpacked(Consumed)'.any
      BY <2>6, <3>1, <3>2 DEF Unwound, Wrote
    <3>4. p'.pc = "data" /\ conf'.op # "z" /\ p'.streamNo > 0
      BY <1>1, <1>2, <2>2, <2>5, <2>7
    <3> QED BY <3>3, <3>4 DEF Content, Early
  <2>8. ASSUME h # "BZh" PROVE Content'
    <3>1. inp' = inp /\ Garbage
      BY <1>5, <2>8 DEF Garbage
    <3>2. Consumed' = Consumed /\ Garbage'
      BY <3>1 DEF Consumed, Garbage
    <3>3. Unwound("between")'
      BY <2>5, <2>6, <3>1, <3>2 DEF Unwound, Wrote
    <3>4. CASE conf.op = "unz" /\ conf.force
      <4>1. p'.pc = "rewind" /\ conf'.op = "unz" /\ conf'.force
        BY <1>1, <2>2, <2>8, <3>4
      <4> QED BY <3>2, <3>3, <4>1 DEF Content, Early
    <3>5. CASE ~(conf.op = "unz" /\ conf.force)
      <4>1. IF p'.streamNo = 1 THEN Consumed' = <<>> ELSE Unpacked(Consumed').any
        <5>1. p.streamNo + 1 = 1 => p.streamNo = 0
          BY <1>2
        <5>2. p.streamNo + 1 # 1 => p.streamNo # 0
          BY <1>2
        <5>3. IF p'.streamNo = 1 THEN Consumed = <<>> ELSE Unpacked(Consumed).any
          BY <2>2, <2>5, <5>1, <5>2
        <5> QED BY <3>2, <5>3
      <4>2. p'.pc = "bad magic" /\ conf'.op # "z" /\ ~(conf'.op = "unz" /\ conf'.force)
        BY <1>1, <2>2, <2>5, <2>8, <3>5
      <4> QED BY <3>2, <3>3, <4>1, <4>2 DEF Content, Early
    <3> QED BY <3>4, <3>5
  <2>9. to \in Writing \cup {"fail", "next"} /\ Writes /\ out' \in FILE
    BY <1>2, <1>5, <2>3 DEF Writes
  <2> HIDE DEF to
  <2> QED BY <1>1, <1>2, <2>2, <2>3, <2>4, <2>7, <2>8, <2>9, WorkStep
<1> QED BY <1>3, <1>4, <1>5 DEF OpenStream

(* uncompressStream inside a stream. *)
LEMMA ReadChunkOK == ASSUME IInv, ReadChunk PROVE IInv'
<1>1. /\ p.pc = "data" /\ p.pc \in Writing /\ p.pc \in Reading /\ UNCHANGED <<conf, owed, first>>
      /\ p.pc \in Writing \cup {"fail", "next"} /\ p.pc # "next"
      /\ "stream end" \in Writing \cup {"fail", "next"}
  BY DEF ReadChunk, At, Writing, Reading
<1>2. /\ TypeOK /\ InOrder /\ DOMAIN p = Fields /\ inp \in FILE /\ out \in FILE /\ inp.open /\ now > 0 /\ now \in Nat
      /\ Content /\ (Counts => p.outName \in DOMAIN disk /\ disk[p.outName].data \in Seq(Chunks))
  BY <1>1, AtWork DEF IInv, Located
<1> DEFINE h == Head(inp.data)
<1>3. CASE LibraryFails
  BY <1>1, <1>3, LibraryFailsStep
<1>4. CASE FoundBad(IF inp.data = <<>> THEN "eof" ELSE "data") /\ UNCHANGED <<disk, out>>
  BY <1>1, <1>4, FoundBadStep
<1>5. CASE /\ inp.data # <<>> /\ h # "!" /\ inp' = [inp EXCEPT !.data = Tail(@)]
           /\ IF h = "end" THEN GoTo("stream end") /\ Fine /\ UNCHANGED <<disk, out>>
              ELSE IF conf.op = "test" THEN Fine /\ UNCHANGED <<disk, out, p>>
              ELSE Written(<<h>>) /\ IF out'.err THEN Failing("io") ELSE UNCHANGED p
  <2> DEFINE u == Unpacked(Consumed)
             v == Unpacked(Append(Consumed, h))
  <2>1. inp' \in FILE /\ inp'.all = inp.all /\ inp'.open /\ <<h>> \in Seq(Chunks) /\ h \in Chunks
    BY <1>2, <1>5, NextChunk
  <2>2. Unwound("inside") /\ u.any /\ p.streamNo > 0 /\ conf.op # "z" /\ Wrote(u.data)
    BY <1>1, <1>2 DEF Content, Unwound
  <2>3. Consumed \in Seq(Chunks) /\ Consumed' = Append(Consumed, h) /\ inp'.all = Consumed' \o inp'.data
    BY <1>2, <1>5, <2>2, TakeOne DEF Unwound
  <2>4. CASE h = "end"
    <3>1. Moved("stream end") /\ UNCHANGED <<disk, out>> /\ Writes /\ out' \in FILE
      BY <1>2, <1>5, <2>4, GoesOn DEF Writes
    <3>2. p'.pc = "stream end" /\ p'.streamNo = p.streamNo /\ Got' = Got /\ Same
      BY <1>1, <3>1, MovedIs, SameData
    <3>3. Unpacked(Consumed').mode = "between" /\ Unpacked(Consumed').any /\ Unpacked(Consumed').data = u.data
      <4>1. Consumed' = Append(Consumed, "end") /\ u.mode = "inside"
        BY <2>2, <2>3, <2>4 DEF Unwound
      <4> QED BY <2>2, <2>3, <4>1, Marks, UnpackCases
    <3>4. Counts' => Got' = Base' \o u.data
      BY <2>2, <3>2, WroteSame
    <3>5. Unwound("between")' /\ Unpacked(Consumed)'.any
      BY <2>3, <3>3, <3>4 DEF Unwound, Wrote
    <3>6. Content'
      BY <1>1, <2>2, <3>2, <3>5 DEF Content, Early
    <3> QED BY <1>1, <1>2, <2>1, <3>1, <3>6, WorkMoves
  <2>5. ASSUME h # "end" PROVE v.mode = "inside" /\ v.any /\ v.data = Append(u.data, h) /\ u.data \in Seq(Chunks)
    <3>1. u.mode = "inside"
      BY <2>2 DEF Unwound
    <3>2. \A e \in Chunks :
            /\ u \in Unpacker
            /\ e \notin {"end", "!"} =>
                 /\ Unpacked(Append(Consumed, e)).mode = "inside"
                 /\ Unpacked(Append(Consumed, e)).any = u.any
                 /\ Unpacked(Append(Consumed, e)).data = Append(u.data, e)
      BY <2>3, <3>1, UnpackCases
    <3>3. u \in Unpacker /\ v.mode = "inside" /\ v.any = u.any /\ v.data = Append(u.data, h)
      BY <1>5, <2>1, <2>5, <3>2
    <3> QED BY <2>2, <3>3 DEF Unpacker
  <2>6. CASE h # "end" /\ conf.op = "test"
    <3>1. Moved(p.pc) /\ Writes /\ out' \in FILE /\ ~Counts
      BY <1>2, <1>5, <2>6, Stays DEF Writes, MakesFile, FileFor, Counts, ToStdout
    <3>2. p'.pc = p.pc /\ p'.streamNo = p.streamNo /\ ~Counts'
      BY <1>1, <3>1, MovedIs, CountsStay
    <3>3. Unwound("inside")' /\ Unpacked(Consumed)'.any
      BY <2>3, <2>5, <2>6, <3>2 DEF Unwound, Wrote
    <3>4. Content'
      BY <1>1, <2>2, <3>2, <3>3 DEF Content, Early
    <3> QED BY <1>1, <1>2, <2>1, <3>1, <3>4, WorkMoves
  <2>7. CASE h # "end" /\ conf.op # "test"
    <3>1. Written(<<h>>) /\ IF out'.err THEN Failing("io") ELSE UNCHANGED p
      BY <1>5, <2>7
    <3>2. (out'.err => Moved("fail")) /\ (~out'.err => Moved(p.pc))
      BY <1>2, <3>1, GoesOn, Stays
    <3>3. p'.outName = p.outName /\ Same
      BY <1>1, <3>2, MovedIs DEF Same
    <3>4. /\ out' \in FILE /\ Writes
          /\ p.outName \in DOMAIN disk /\ ~out'.err => Got' = Got \o <<h>>
      BY <1>2, <2>1, <3>1, <3>3, WrittenIs
    <3>5. CASE out'.err
      BY <1>1, <1>2, <2>1, <3>2, <3>4, <3>5, FailsStep
    <3>6. CASE ~out'.err
      <4>1. Moved(p.pc) /\ p'.pc = p.pc /\ p'.streamNo = p.streamNo
        BY <1>1, <3>2, <3>6, MovedIs
      <4>2. Counts => Got' = Got \o <<h>>
        BY <1>2, <3>4, <3>6
      <4>3. v.mode = "inside" /\ v.any /\ v.data = Append(u.data, h) /\ u.data \in Seq(Chunks)
        BY <2>5, <2>7
      <4>4. v.data = u.data \o <<h>>
        BY <2>1, <4>3, AppendIsConcat
      <4> HIDE DEF u, v, h
      <4>5. ASSUME NEW y, y = u.data \o <<h>> PROVE Counts' => Got' = Base' \o y
        BY <1>2, <2>1, <2>2, <3>3, <4>2, <4>3, <4>5, WroteMore
      <4>6. Counts' => Got' = Base' \o v.data
        BY <4>4, <4>5
      <4>7. Unwound("inside")' /\ Unpacked(Consumed)'.any
        BY <2>3, <4>3, <4>6 DEF Unwound, Wrote, v
      <4>8. Content'
        BY <1>1, <2>2, <4>1, <4>7 DEF Content, Early
      <4> QED BY <1>1, <1>2, <2>1, <3>4, <4>1, <4>8, WorkMoves
    <3> QED BY <3>5, <3>6
  <2> QED BY <2>4, <2>6, <2>7
<1> QED BY <1>3, <1>4, <1>5 DEF ReadChunk

(* uncompressStream at the end of a stream, where the input may end or more may follow. *)
LEMMA StreamEndOK == ASSUME IInv, StreamEnd PROVE IInv'
<1>1. /\ p.pc = "stream end" /\ p.pc \in Writing /\ p.pc \in Reading /\ UNCHANGED <<conf, owed, first>>
      /\ {"closeok", "stream"} \subseteq Writing \cup {"fail", "next"}
  BY DEF StreamEnd, At, Writing, Reading
<1>2. /\ TypeOK /\ DOMAIN p = Fields /\ inp \in FILE /\ out \in FILE /\ inp.open /\ p.streamNo \in Nat /\ Content
      /\ p.inName \in DOMAIN first /\ inp.all = first[p.inName].data
  BY <1>1, AtWork DEF IInv, Located
<1>3. Unwound("between") /\ Unpacked(Consumed).any /\ p.streamNo > 0 /\ conf.op # "z" /\ Wrote(Unpacked(Consumed).data)
  BY <1>1, <1>2 DEF Content, Unwound
<1>4. CASE GoTo(IF inp.data = <<>> THEN "closeok" ELSE "stream") /\ Untouched
  <2> DEFINE to == IF inp.data = <<>> THEN "closeok" ELSE "stream"
  <2>1. Moved(to) /\ Writes /\ inp' = inp /\ out' = out /\ disk' = disk
    BY <1>2, <1>4, GoesOn DEF Writes, Untouched
  <2>2. p'.pc = to /\ p'.streamNo = p.streamNo /\ Got' = Got /\ Consumed' = Consumed /\ Same
    BY <1>1, <2>1, MovedIs, SameData
  <2>3. ASSUME inp.data = <<>> PROVE Content'
    <3>1. Consumed \in Seq(Chunks) /\ inp.all = Consumed
      BY <1>2, <2>3, ConsumedIs
    <3>2. Meant(Consumed) = Unpacked(Consumed).data /\ Unpacked(Consumed) \in Unpacker
      BY <1>3, <3>1, Marks, UnpackOne, Unzipped DEF Unwound
    <3>3. Goal = Unpacked(Consumed).data /\ Judged
      BY <1>2, <3>1, <3>2 DEF Goal, Judged, Unpacker
    <3>4. Done
      BY <1>3, <3>3 DEF Done
    <3>5. Done' /\ p'.pc = "closeok"
      BY <2>2, <2>3, <3>4, DoneStays
    <3> QED BY <1>1, <1>3, <3>5 DEF Content, Early
  <2>4. ASSUME inp.data # <<>> PROVE Content'
    <3>1. Consumed # <<>>
      <4>1. Unpacked(<<>>) = Packet
        BY Marks, UnpackOne
      <4> QED BY <1>3, <4>1 DEF Packet
    <3>2. Counts' => Got' = Base' \o Unpacked(Consumed).data
      BY <1>3, <2>2, WroteSame
    <3>3. Unwound("between")' /\ p'.streamNo # 0 /\ p'.pc = "stream"
      BY <1>2, <1>3, <2>1, <2>2, <2>4, <3>2 DEF Unwound, Wrote
    <3> QED BY <1>1, <1>3, <2>2, <3>1, <3>3 DEF Content, Early
  <2>5. to \in Writing \cup {"fail", "next"} /\ to \notin {"next", "not bzip2", "finish"}
    BY <1>1
  <2> HIDE DEF to
  <2> QED BY <1>1, <1>2, <2>1, <2>3, <2>4, <2>5, WorkMoves
<1>5. CASE GoTo("closeok") /\ ReadError
  <2>1. /\ inp' \in FILE /\ inp'.err /\ inp'.open = inp.open /\ inp'.all = inp.all /\ out' \in FILE /\ Writes
    BY <1>2, <1>5, ReadErrorIs
  <2>2. Moved("closeok") /\ p'.pc = "closeok"
    BY <1>1, <1>2, <1>5, GoesOn, MovedIs
  <2>3. Content'
    BY <1>1, <1>3, <2>1, <2>2 DEF Content, Early
  <2> QED BY <1>1, <1>2, <2>1, <2>2, <2>3, WorkMoves
<1> QED BY <1>4, <1>5 DEF StreamEnd

(* trycat: back to the beginning of the input, and a pipe cannot. *)
LEMMA RewindOK == ASSUME IInv, Rewind PROVE IInv'
<1>1. /\ p.pc = "rewind" /\ p.pc \in Writing /\ p.pc \in Reading /\ UNCHANGED <<conf, owed, first, disk, out>>
      /\ "copy" \in Writing \cup {"fail", "next"}
  BY DEF Rewind, At, Writing, Reading
<1>2. /\ TypeOK /\ DOMAIN p = Fields /\ inp \in FILE /\ out \in FILE /\ inp.open /\ Content
      /\ p.inName \in DOMAIN first /\ inp.all = first[p.inName].data
  BY <1>1, AtWork DEF IInv, Located
<1>3. Moved("copy") /\ p'.pc = "copy" /\ p'.inName = p.inName /\ Got' = Got /\ Writes /\ Same
  <2>1. Moved("copy")
    BY <1>2, GoesOn DEF Rewind
  <2> QED BY <1>1, <2>1, MovedIs, SameData DEF Same, Writes
<1>4. Unwound("between") /\ Garbage /\ conf.force /\ conf.op = "unz" /\ Wrote(Unpacked(Consumed).data)
  BY <1>1, <1>2 DEF Content, Unwound
<1>5. /\ Meant(inp.all) = Unpacked(inp.all).data \o inp.all /\ Meant(inp.all) \in Seq(Chunks)
      /\ Unpacked(inp.all).data = Unpacked(Consumed).data /\ Unpacked(Consumed).data \in Seq(Chunks)
  <2>1. Consumed \in Seq(Chunks) /\ inp.data \in Seq(Chunks) /\ inp.all \in Seq(Chunks) /\ inp.all = Consumed \o inp.data
    BY <1>2, <1>4, ConsumedIs DEF Unwound, FILE
  <2>2. /\ Meant(Consumed \o inp.data) = Unpacked(Consumed).data \o (Consumed \o inp.data)
        /\ Unpacked(Consumed \o inp.data).data = Unpacked(Consumed).data
    BY <1>4, <2>1, Unzipped DEF Unwound, Garbage
  <2>3. Unpacked(Consumed).data \in Seq(Chunks)
    BY <2>1, Marks, UnpackOne DEF Unpacker
  <2>4. Unpacked(Consumed).data \o inp.all \in Seq(Chunks)
    BY <2>1, <2>3, ConcatProperties
  <2> QED BY <2>1, <2>2, <2>3, <2>4
<1>6. ASSUME inp'.all = inp.all PROVE Meant(inp.all)' = Meant(inp.all) /\ Unpacked(inp.all)' = Unpacked(inp.all)
  BY <1>1, <1>6 DEF Meant
<1>7. CASE Is(p.inName, "pipe")
  <2>1. PICK k \in 1..Len(inp.data) : inp' = [inp EXCEPT !.data = SubSeq(@, k + 1, Len(@))]
    BY <1>7 DEF Rewind
  <2>2. SubSeq(inp.data, k + 1, Len(inp.data)) \in Seq(Chunks)
    BY <1>2, FILEs
  <2>3. inp' \in FILE /\ inp'.open = inp.open /\ inp'.all = inp.all
    BY <1>2, <2>1, <2>2 DEF FILE
  <2>4. Piped
    <3>1. now > 0 /\ p.inName = p.names[now] /\ now \in DOMAIN p.names
      BY <1>1, Active, OutIsApart DEF IInv
    <3>2. now >= now
      BY <1>1, Active DEF IInv
    <3>3. first[p.inName].kind = "pipe" /\ p.inName \in DOMAIN first
      BY <1>7, <3>1, <3>2 DEF IInv, Inputs, Is, fileExists
    <3> QED BY <1>4, <3>3 DEF Piped, Passed
  <2>5. Piped'
    BY <1>3, <2>4, GoalSame
  <2>6. Content'
    BY <1>1, <1>3, <1>4, <1>5, <1>6, <2>3, <2>5 DEF Content, Early
  <2> QED BY <1>1, <1>2, <1>3, <2>3, <2>6, WorkMoves
<1>8. CASE ~Is(p.inName, "pipe")
  <2>1. inp' = [inp EXCEPT !.data = inp.all]
    BY <1>8 DEF Rewind
  <2>2. inp' \in FILE /\ inp'.open = inp.open /\ inp'.all = inp.all /\ inp'.data = inp.all /\ inp.all \in Seq(Chunks)
    BY <1>2, <2>1 DEF FILE
  <2>3. Consumed' = <<>> /\ inp'.all = <<>> \o inp'.data
    BY <2>2, NoneRead DEF Consumed
  <2> DEFINE d == Unpacked(Consumed).data
  <2>4. d \o <<>> = d
    BY <1>5, ConcatEmptySeq
  <2>5. Counts' => Got' = Base' \o d
    BY <1>3, <1>4, WroteSame
  <2>6. Counts' => Got' = Base' \o (Unpacked(inp.all)'.data \o Consumed')
    BY <1>5, <1>6, <2>2, <2>3, <2>4, <2>5
  <2>7. p'.pc = "copy" /\ conf'.op = "unz" /\ Meant(inp.all)' \in Seq(Chunks) /\ inp'.all = Consumed' \o inp'.data
        /\ Meant(inp.all)' = Unpacked(inp.all)'.data \o inp'.all
    BY <1>1, <1>3, <1>4, <1>5, <1>6, <2>2, <2>3
  <2>8. Content'
    BY <2>6, <2>7 DEF Content, Early, Wrote
  <2> QED BY <1>1, <1>2, <1>3, <2>2, <2>8, WorkMoves
<1> QED BY <1>7, <1>8

(* The loop of trycat. *)
LEMMA CopyChunkOK == ASSUME IInv, CopyChunk PROVE IInv'
<1>1. /\ p.pc = "copy" /\ p.pc \in Writing /\ p.pc \in Reading /\ UNCHANGED <<conf, owed, first>>
      /\ p.pc \in Writing \cup {"fail", "next"} /\ p.pc # "next" /\ "closeok" \in Writing \cup {"fail", "next"}
  BY DEF CopyChunk, At, Writing, Reading
<1>2. /\ TypeOK /\ InOrder /\ DOMAIN p = Fields /\ inp \in FILE /\ out \in FILE /\ inp.open /\ now > 0 /\ now \in Nat
      /\ Content /\ (Counts => p.outName \in DOMAIN disk /\ disk[p.outName].data \in Seq(Chunks))
      /\ p.inName \in DOMAIN first /\ inp.all = first[p.inName].data
  BY <1>1, AtWork DEF IInv, Located
<1> DEFINE d == Unpacked(inp.all).data
<1>3. /\ conf.op = "unz" /\ Meant(inp.all) \in Seq(Chunks) /\ Goal = Meant(inp.all) /\ Judged
      /\ Piped \/ (inp.all = Consumed \o inp.data /\ Wrote(d \o Consumed) /\ Goal = d \o inp.all)
      /\ d \in Seq(Chunks)
  <2>1. d \in Seq(Chunks)
    BY <1>2, Marks, UnpackOne DEF Unpacker, FILE
  <2> QED BY <1>1, <1>2, <2>1 DEF Content, Goal, Judged
<1>4. CASE inp.data = <<>> /\ GoTo("closeok") /\ Untouched
  <2>1. Moved("closeok") /\ Writes /\ inp' = inp /\ out' = out /\ disk' = disk
    BY <1>2, <1>4, GoesOn DEF Writes, Untouched
  <2>2. p'.pc = "closeok" /\ Same /\ Got' = Got
    BY <1>1, <2>1, MovedIs, SameData
  <2>3. Done
    BY <1>2, <1>3, <1>4, ConsumedIs DEF Done
  <2>4. Done'
    BY <2>2, <2>3, DoneStays
  <2>5. Content'
    BY <1>1, <1>3, <2>2, <2>4 DEF Content, Early
  <2> QED BY <1>1, <1>2, <2>1, <2>5, WorkMoves
<1>5. CASE ReadError /\ GoTo("closeok")
  <2>1. /\ inp' \in FILE /\ inp'.err /\ inp'.open = inp.open /\ inp'.all = inp.all /\ out' \in FILE /\ Writes
    BY <1>2, <1>5, ReadErrorIs
  <2>2. Moved("closeok") /\ p'.pc = "closeok"
    BY <1>1, <1>2, <1>5, GoesOn, MovedIs
  <2>3. Content'
    BY <1>1, <1>3, <2>1, <2>2 DEF Content, Early
  <2> QED BY <1>1, <1>2, <2>1, <2>2, <2>3, WorkMoves
<1>6. CASE ReadError /\ Failing("io")
  <2>1. inp' \in FILE /\ inp'.open = inp.open /\ inp'.all = inp.all /\ out' \in FILE /\ Writes
    BY <1>2, <1>6, ReadErrorIs
  <2> QED BY <1>1, <1>2, <1>6, <2>1, GoesOn, FailsStep
<1>7. CASE /\ inp.data # <<>> /\ Written(<<Head(inp.data)>>) /\ inp' = [inp EXCEPT !.data = Tail(@)]
           /\ IF out'.err THEN Failing("io") ELSE UNCHANGED p
  <2>1. /\ inp' \in FILE /\ inp'.all = inp.all /\ inp'.open = inp.open /\ inp'.err = inp.err
        /\ <<Head(inp.data)>> \in Seq(Chunks) /\ Head(inp.data) \in Chunks
    BY <1>1, <1>2, <1>7, NextChunk
  <2>2. (out'.err => Moved("fail")) /\ (~out'.err => Moved(p.pc))
    BY <1>2, <1>7, GoesOn, Stays
  <2>3. p'.outName = p.outName /\ Same
    BY <1>1, <2>2, MovedIs DEF Same
  <2>4. /\ out' \in FILE /\ Writes
        /\ p.outName \in DOMAIN disk /\ ~out'.err => Got' = Got \o <<Head(inp.data)>>
    BY <1>2, <1>7, <2>1, <2>3, WrittenIs
  <2>5. CASE out'.err
    BY <1>1, <1>2, <2>1, <2>2, <2>4, <2>5, FailsStep
  <2>6. CASE ~out'.err
    <3>1. Moved(p.pc) /\ p'.pc = "copy" /\ conf'.op = "unz"
      BY <1>1, <1>3, <2>2, <2>6, MovedIs
    <3>2. Meant(inp.all)' = Meant(inp.all) /\ Unpacked(inp.all)' = Unpacked(inp.all)
      BY <1>1, <2>1 DEF Meant
    <3>3. CASE Piped
      <4>1. Piped'
        BY <2>3, <3>3, GoalSame
      <4>2. Content'
        BY <1>3, <3>1, <3>2, <4>1 DEF Content, Early
      <4> QED BY <1>1, <1>2, <2>1, <2>4, <3>1, <4>2, WorkMoves
    <3>4. CASE ~Piped
      <4> DEFINE x == d \o Consumed
                 s == <<Head(inp.data)>>
      <4>1. /\ Consumed \in Seq(Chunks) /\ Consumed' = Append(Consumed, Head(inp.data))
            /\ inp'.all = Consumed' \o inp'.data
        BY <1>2, <1>3, <1>7, <3>4, TakeOne
      <4>2. x \in Seq(Chunks) /\ s \in Seq(Chunks) /\ Wrote(x) /\ (Counts => Got' = Got \o s)
        BY <1>2, <1>3, <2>1, <2>4, <2>6, <3>4, <4>1, ConcatProperties
      <4>3. d \o Consumed' = x \o s
        BY <1>3, <2>1, <4>1, AppendOn
      <4> HIDE DEF x, s
      <4>4. ASSUME NEW y, y = x \o s PROVE Counts' => Got' = Base' \o y
        BY <1>2, <2>3, <4>2, <4>4, WroteMore
      <4>5. Counts' => Got' = Base' \o (Unpacked(inp.all)'.data \o Consumed')
        BY <3>2, <4>3, <4>4
      <4>6. Meant(inp.all)' \in Seq(Chunks) /\ Meant(inp.all)' = Unpacked(inp.all)'.data \o inp'.all
        BY <1>3, <2>1, <3>2, <3>4
      <4>7. Content'
        BY <3>1, <4>1, <4>5, <4>6 DEF Content, Early, Wrote
      <4> QED BY <1>1, <1>2, <2>1, <2>4, <3>1, <4>7, WorkMoves
    <3> QED BY <3>3, <3>4
  <2> QED BY <2>5, <2>6
<1> QED BY <1>4, <1>5, <1>6, <1>7 DEF CopyChunk

-----------------------------------------------------------------------------
(* The end of the reading *)

(* closeok: the errors of the input are looked at, and the output is flushed. *)
LEMMA CloseOkOK == ASSUME IInv, CloseOk PROVE IInv'
<1>1. /\ p.pc = "closeok" /\ p.pc \in Writing /\ UNCHANGED <<conf, owed, first>>
      /\ {"flushed", "next"} \subseteq Writing \cup {"fail", "next"} /\ "flushed" \notin Reading /\ "next" \notin Reading
  BY DEF CloseOk, At, Writing, Reading
<1>2. /\ TypeOK /\ InOrder /\ DOMAIN p = Fields /\ inp \in FILE /\ out \in FILE /\ now > 0 /\ now \in Nat
      /\ Content /\ (Counts => p.outName \in DOMAIN disk /\ disk[p.outName].data \in Seq(Chunks))
  BY <1>1, AtWork
<1>3. inp.err \/ Done
  BY <1>1, <1>2 DEF Content
<1>4. CASE Failing("io") /\ Untouched
  BY <1>1, <1>2, <1>4, GoesOn, FailsStep DEF Untouched, Writes
<1>5. CASE ~InputFailed /\ inp' = Closed /\ conf.op = "test" /\ GoTo("next") /\ UNCHANGED <<disk, out>>
  <2>1. inp' \in FILE /\ ~inp'.open /\ Writes /\ out' \in FILE /\ ~MakesFile
    BY <1>2, <1>5, FILEs DEF Writes, MakesFile, FileFor
  <2>2. Moved("next") /\ p'.pc = "next" /\ ~ToStdout'
    BY <1>1, <1>2, <1>5, GoesOn, MovedIs DEF ToStdout
  <2>3. Content'
    BY <2>2 DEF Content, Level, Early
  <2> QED BY <1>1, <2>1, <2>2, <2>3, WorkMoves
<1>6. CASE ~InputFailed /\ inp' = Closed /\ Flushed(<<>>) /\ IF out'.err THEN Failing("io") ELSE GoTo("flushed")
  <2>1. inp' \in FILE /\ ~inp'.open
    BY <1>2, <1>6, FILEs
  <2>2. (out'.err => Moved("fail")) /\ (~out'.err => Moved("flushed"))
    BY <1>2, <1>6, GoesOn
  <2>3. p'.outName = p.outName /\ Same
    BY <1>1, <2>2, MovedIs DEF Same
  <2>4. /\ out' \in FILE /\ Writes
        /\ p.outName \in DOMAIN disk /\ ~out'.err => disk'[p.outName].data = Got \o <<>> /\ Got' = Got \o <<>>
    BY <1>2, <1>6, <2>3, EmptySeq, FlushedIs
  <2>5. CASE out'.err
    BY <1>1, <1>2, <2>1, <2>2, <2>4, <2>5, FailsStep
  <2>6. CASE ~out'.err
    <3>1. p'.pc = "flushed" /\ Moved("flushed")
      BY <1>1, <2>2, <2>6, MovedIs
    <3>2. Done
      BY <1>3, <1>6 DEF InputFailed
    <3>3. Delivered'
      <4>1. CASE Piped
        BY <2>3, <3>2, <4>1, GoalSame DEF Done, Delivered
      <4>2. CASE ~Piped
        <5>1. Judged /\ Wrote(Goal) /\ Goal \in Seq(Chunks)
          BY <3>2, <4>2 DEF Done, Judged
        <5>2. ASSUME NEW x \in Seq(Chunks), x = Goal, Wrote(x) PROVE Delivered'
          <6>1. Goal = x \o <<>> /\ <<>> \in Seq(Chunks)
            BY <5>2, EmptySeq, ConcatEmptySeq
          <6>2. Counts => disk'[p.outName].data = Got \o <<>> /\ Got' = Got \o <<>>
            BY <1>2, <2>4, <2>6
          <6> QED BY <1>2, <2>3, <5>1, <5>2, <6>1, <6>2, FlushFinishes
        <5> QED BY <5>1, <5>2
      <4> QED BY <4>1, <4>2
    <3>4. Content'
      BY <3>1, <3>3 DEF Content, Early
    <3> QED BY <1>1, <2>1, <2>4, <3>1, <3>4, WorkMoves
  <2> QED BY <2>5, <2>6
<1> QED BY <1>4, <1>5, <1>6 DEF CloseOk, Fails

(* Only what compresses or unpacks makes a file. *)
LEMMA OpIs == ASSUME InOrder, MakesFile, now > 0 PROVE conf.op \in {"z", "unz"}
<1>1. now \in DOMAIN p.names
  BY OutIsApart
<1>2. OutNameFor(conf, p.names[now]) # NoName
  BY <1>1 DEF InOrder, Apart, MakesFile
<1> QED BY <1>2 DEF OutNameFor

(* Garbage after a stream is ignored, or with the option -f passed through. *)
LEMMA MagicJudged ==
  ASSUME IInv, p.pc = "bad magic", p.streamNo # 1
  PROVE  Judged /\ (conf.op = "unz" => Goal = Unpacked(Consumed).data)
<1>1. p.pc \in Writing /\ p.pc \in Reading
  BY DEF Writing, Reading
<1>2. inp \in FILE /\ Content /\ p.inName \in DOMAIN first /\ inp.all = first[p.inName].data
  BY <1>1, AtWork DEF IInv, Located
<1>3. /\ inp.all = Consumed \o inp.data /\ Unpacked(Consumed).mode = "between" /\ Unpacked(Consumed).any
      /\ Garbage /\ ~(conf.op = "unz" /\ conf.force) /\ conf.op # "z"
  BY <1>2 DEF Content, Unwound
<1>4. Consumed \in Seq(Chunks) /\ inp.data \in Seq(Chunks) /\ Unpacked(Consumed).data \in Seq(Chunks)
  BY <1>2, ConsumedIs, Marks, UnpackOne DEF FILE, Unpacker
<1>5. CASE ~conf.force
  <2>1. Meant(Consumed \o inp.data) = Unpacked(Consumed).data
    BY <1>3, <1>4, <1>5, Unzipped DEF Garbage
  <2> QED BY <1>2, <1>3, <1>4, <2>1 DEF Goal, Judged
<1>6. CASE conf.force
  <2>1. Meant(Consumed \o inp.data) = Unpacked(Consumed).data \o (Consumed \o inp.data)
    BY <1>3, <1>4, <1>6, Unzipped DEF Garbage
  <2>2. Unpacked(Consumed).data \o (Consumed \o inp.data) \in Seq(Chunks)
    BY <1>4, ConcatProperties
  <2> QED BY <1>2, <1>3, <1>6, <2>1, <2>2 DEF Goal, Judged
<1> QED BY <1>5, <1>6

(* BZ_DATA_ERROR_MAGIC: no stream at all, or garbage after one. *)
LEMMA BadMagicOK == ASSUME IInv, BadMagic PROVE IInv'
<1>1. /\ p.pc = "bad magic" /\ p.pc \in Writing /\ p.pc \in Reading /\ UNCHANGED <<conf, owed, first>> /\ inp' = Closed
      /\ "next" \in Writing \cup {"fail", "next"} /\ "next" \notin Reading
  BY DEF BadMagic, At, Writing, Reading
<1>2. /\ TypeOK /\ InOrder /\ now > 0 /\ DOMAIN p = Fields /\ inp \in FILE /\ out \in FILE /\ inp.open /\ p.streamNo \in Nat /\ Content
      /\ (MakesFile => p.outName \in DOMAIN disk /\ disk[p.outName].data \in Seq(Chunks))
      /\ p.inName \in DOMAIN first /\ inp.all = first[p.inName].data
  BY <1>1, AtWork DEF IInv, Located
<1>3. inp' \in FILE /\ ~inp'.open
  BY <1>1, <1>2, FILEs
<1>4. CASE conf.op = "test"
  <2> DEFINE c == [pc |-> "next", failsExist |-> p.failsExist \/ p.streamNo = 1]
  <2>1. c.pc = "next" /\ c.failsExist = (p.failsExist \/ p.streamNo = 1) /\ DOMAIN c = {"pc", "failsExist"} /\ Step(c)
        /\ UNCHANGED <<disk, out>>
    BY <1>4 DEF BadMagic
  <2> HIDE DEF c
  <2>2. Moved("next")
    BY <1>2, <2>1, GoesTo DEF Aside
  <2>3. ~MakesFile /\ Writes /\ out' \in FILE /\ ~ToStdout' /\ p'.pc = "next"
    BY <1>1, <1>2, <1>4, <2>1, <2>2, MovedIs DEF MakesFile, FileFor, Writes, ToStdout
  <2>4. Content'
    BY <2>3 DEF Content, Level, Early
  <2> QED BY <1>1, <1>3, <2>2, <2>3, <2>4, WorkMoves
<1>5. CASE conf.op # "test"
  <2> DEFINE to == IF p.streamNo = 1 THEN "not bzip2" ELSE "closed"
             lost == p.unchecked \/ (out'.err /\ out.buf # <<>>)
             c == [pc |-> to, unchecked |-> lost]
  <2>1. /\ c.pc = to /\ c.unchecked = lost /\ DOMAIN c = {"pc", "unchecked"} /\ Step(c)
        /\ IF conf.src = "F2F" THEN Flushed(<<>>) ELSE UNCHANGED <<disk, out>>
    BY <1>5 DEF BadMagic
  <2> HIDE DEF c
  <2>2. /\ DOMAIN p' = Fields /\ p'.pc = to /\ p'.streamNo = p.streamNo /\ p'.unchecked = lost
        /\ p'.names = p.names /\ p'.todo = p.todo /\ p'.inName = p.inName /\ p'.outName = p.outName
        /\ p'.delete = p.delete /\ p'.exitValue = p.exitValue /\ p'.failsExist = p.failsExist
    BY <1>2, <2>1, StepIs DEF Fields
  <2>3. to \in Writing /\ to \notin Reading /\ to # "next" /\ to \in Writing \cup {"fail", "next"} /\ to # "finish"
    BY DEF Writing, Reading
  <2>4. Same
    BY <1>1, <2>2 DEF Same, Fair
  <2>5. out' \in FILE /\ Writes
    <3>1. CASE conf.src = "F2F"
      BY <1>2, <2>1, <2>2, <3>1, EmptySeq, FlushedIs
    <3>2. CASE conf.src # "F2F"
      BY <1>2, <2>1, <3>2 DEF Writes
    <3> QED BY <3>1, <3>2
  <2>6. /\ Unwound("between") /\ Garbage /\ ~(conf.op = "unz" /\ conf.force) /\ conf.op # "z"
        /\ IF p.streamNo = 1 THEN Consumed = <<>> ELSE Unpacked(Consumed).any
        /\ Wrote(Unpacked(Consumed).data)
    BY <1>1, <1>2 DEF Content, Unwound
  <2>7. ASSUME MakesFile PROVE /\ Got = Unpacked(Consumed).data /\ Got \in Seq(Chunks)
                               /\ disk'[p.outName].data = Got \/ (out'.err /\ out.buf # <<>>)
    <3>1. Consumed \in Seq(Chunks) /\ Unpacked(Consumed) \in Unpacker /\ Unpacked(Consumed).data \in Seq(Chunks)
      BY <1>2, ConsumedIs, Marks, UnpackOne DEF Unpacker
    <3>2. Got = <<>> \o Unpacked(Consumed).data
      BY <2>6, <2>7 DEF Wrote, Counts, Base
    <3>3. Got = Unpacked(Consumed).data
      BY <3>1, <3>2, ConcatEmptySeq
    <3>4. disk'[p.outName].data = Got \o <<>> \/ (out'.err /\ (out.buf = <<>> => disk'[p.outName].data = Got))
      BY <1>2, <2>1, <2>2, <2>7, EmptySeq, FlushedIs DEF MakesFile, FileFor
    <3> QED BY <3>1, <3>3, <3>4, ConcatEmptySeq
  <2>8. ASSUME p.streamNo = 1 PROVE Content'
    <3>1. ASSUME MakesFile PROVE disk'[p.outName].data = <<>>
      <4>1. Got = <<>>
        <5>1. Unpacked(<<>>) = Packet
          BY Marks, UnpackOne
        <5> QED BY <2>6, <2>7, <2>8, <3>1, <5>1 DEF Packet
      <4>2. out.buf = <<>>
        <5>1. out.buf \in Seq(Chunks) /\ disk[p.outName].data \in Seq(Chunks)
          BY <1>2, <3>1 DEF FILE
        <5> QED BY <4>1, <5>1, ConcatEmptySeq DEF Got
      <4> QED BY <2>7, <3>1, <4>1, <4>2
    <3>2. p'.pc = "not bzip2" /\ MakesFile' = MakesFile
      BY <2>2, <2>4, <2>8, GoalSame
    <3> QED BY <2>2, <3>1, <3>2 DEF Content, Early
  <2>9. ASSUME p.streamNo # 1 PROVE Content'
    <3>1. Judged /\ (conf.op = "unz" => Goal = Unpacked(Consumed).data)
      BY <1>1, <2>9, MagicJudged
    <3>2. p'.unchecked \/ Delivered'
      <4>1. CASE MakesFile
        <5>1. disk'[p.outName].data = Goal => Delivered'
          BY <2>4, <3>1, <4>1, GoalSame DEF Delivered
        <5>2. conf.op = "unz"
          BY <1>2, <2>6, <4>1, OpIs
        <5> QED BY <2>2, <2>7, <3>1, <4>1, <5>1, <5>2
      <4>2. CASE ~MakesFile
        <5>1. UNCHANGED <<disk, out>>
          BY <1>5, <2>1, <4>2 DEF MakesFile, FileFor
        <5>2. Got' = Got
          BY <2>2, <5>1 DEF Got
        <5>3. Counts => conf.op = "unz"
          BY <2>6, <4>2 DEF Counts, ToStdout
        <5>4. Wrote(Goal)
          BY <2>6, <3>1, <5>3 DEF Wrote
        <5>5. Delivered
          BY <3>1, <4>2, <5>4 DEF Delivered
        <5> QED BY <2>4, <4>2, <5>2, <5>5, DeliveredStays
      <4> QED BY <4>1, <4>2
    <3>3. p'.pc = "closed"
      BY <2>2, <2>9
    <3> QED BY <3>2, <3>3 DEF Content, Early
  <2> HIDE DEF to
  <2> QED BY <1>1, <1>2, <1>3, <2>2, <2>3, <2>4, <2>5, <2>8, <2>9, WorkStep
<1> QED BY <1>4, <1>5

-----------------------------------------------------------------------------
(* Steps before and after the work, that leave the files alone *)

(* Where p is. *)
Places == Before \cup {"create", "ready"} \cup Working \cup {"fail", "exited", "killed"}
Resting == {"next", "exited", "killed"}

(* What is made is still whole, or marked, or announced. *)
StaysMade ==
  p.outName \in DOMAIN disk /\ disk[p.outName].by = "bzip2" =>
    p'.unchecked \/ Whole(p.outName) \/ ((p'.delete \/ p'.pc = "killed") /\ (p'.pc = "exited" => p'.warned))

(* What is already finished stays finished. *)
StaysDone == MakesFile /\ p.pc \in Resting /\ ~p.delete => p'.pc \in Resting /\ ~p'.delete

(* A step that changes no file keeps what does not depend on where the command is. *)
LEMMA QuietStep ==
  ASSUME IInv, Same, DOMAIN p' = Fields, p'.streamNo \in Nat, p'.pc \in Places, UNCHANGED disk, owed' \subseteq owed,
         inp' \in FILE, out' \in FILE, now = 0 => p'.pc \in Resting /\ out'.buf = <<>>,
         inp'.open => p.inName \in DOMAIN first /\ inp'.all = first[p.inName].data,
         Located', Mine', Content', StaysMade, StaysDone
  PROVE  IInv'
<1>1. MakesFile' = MakesFile /\ p'.outName = p.outName /\ p'.inName = p.inName /\ now' = now /\ p'.names = p.names
  BY MeantSame DEF Same, now
<1>2. TypeOK'
  BY DEF IInv, TypeOK, Same, Places
<1>3. NoName \notin DOMAIN disk /\ Stdout \in DOMAIN disk /\ Spares(p.outName)
  BY DEF IInv, InOrder, Spares, TypeOK
<1>4. InOrder'
  BY <1>3, OrderStays DEF IInv, Resting
<1>5. Inputs'
  BY <1>1 DEF IInv, Inputs, Same
<1>6. Made'
  <2>1. Whole(p.outName) => Whole(p.outName)'
    BY <1>1, MeantSame DEF Whole, Same
  <2>2. p.outName \in DOMAIN disk /\ disk[p.outName].by = "bzip2" => MakesFile
    BY DEF IInv, Made
  <2> QED BY <1>3, <2>1, <2>2, MadeStays DEF StaysMade
<1>7. KeptAll'
  BY KeptStays DEF StaysDone, Resting
<1> QED BY <1>2, <1>4, <1>5, <1>6, <1>7 DEF IInv

(* The output is whole where it is not marked for deletion. *)
LEMMA WholeIs ==
  ASSUME IInv, p.pc # "killed", ~p.delete, p.outName \in DOMAIN disk, disk[p.outName].by = "bzip2"
  PROVE  p.unchecked \/ Whole(p.outName)
  BY DEF IInv, Made

(* A step that only moves on, before the work or after it. *)
LEMMA QuietMoves ==
  ASSUME IInv, NEW pc \in Before \cup {"create", "ready", "fail", "killed"}, Moved(pc),
         UNCHANGED <<conf, first, disk>>, owed' \subseteq owed,
         inp' \in FILE, out' \in FILE, p.pc \notin {"exited", "killed"}, now = 0 => pc \in Resting /\ out'.buf = <<>>,
         inp'.open => p.inName \in DOMAIN first /\ inp'.all = first[p.inName].data,
         pc \in Before => ~inp'.open,
         pc \in Early => p.pc \in Early /\ p.streamNo = 0 /\ (inp'.open => inp'.data = inp'.all),
         pc \in {"output", "links", "create"} => MakesFile,
         MakesFile /\ pc \notin {"fail", "killed"} => ~p.delete,
         MakesFile /\ pc = "ready" /\ out'.open => p.outName \in DOMAIN disk /\ disk[p.outName].by = "bzip2",
         MakesFile /\ pc = "ready" /\ out'.open /\ inp'.open => Got' = <<>>,
         ~MakesFile /\ pc \in Early => out' = out,
         pc = "next" => ~Fair',
         p.pc = "next" => pc \in Resting
  PROVE  IInv'
<1>1. /\ Same /\ DOMAIN p' = Fields /\ p'.pc = pc /\ p'.delete = p.delete /\ p'.streamNo = p.streamNo
      /\ p'.unchecked = p.unchecked /\ p'.outName = p.outName /\ p'.inName = p.inName
  BY MovedIs DEF Same
<1>2. MakesFile' = MakesFile /\ p.streamNo \in Nat
  BY <1>1, MeantSame DEF IInv, TypeOK
<1>3. pc \in Places /\ pc \notin Working /\ pc \notin Reading /\ pc \notin Writing /\ pc # "exited"
  BY DEF Places, Before, Working, Writing, Reading
<1>4. Located'
  BY <1>1, <1>2, <1>3 DEF Located, Before, After
<1>5. MakesFile /\ pc = "fail" /\ p.delete => p.outName \in DOMAIN disk /\ disk[p.outName].by = "bzip2"
  <2>1. MakesFile /\ p.delete => p.pc \in Working \/ p.pc = "fail"
    BY DEF IInv, Located, TypeOK
  <2> QED BY <2>1 DEF IInv, Mine
<1>6. Mine'
  BY <1>1, <1>2, <1>3, <1>5 DEF Mine
<1>7. Content'
  <2>1. pc = "next" => Level'
    BY DEF Level, Well
  <2>2. ASSUME pc \in Early, MakesFile => pc = "ready" /\ inp'.open /\ out'.open PROVE Wrote(<<>>)'
    <3>1. CASE MakesFile
      <4>1. Got' = <<>> /\ Base' = <<>>
        BY <1>2, <2>2, <3>1 DEF Base
      <4>2. <<>> \o <<>> = <<>>
        BY ConcatEmptySeq, EmptySeq
      <4> QED BY <4>1, <4>2 DEF Wrote
    <3>2. CASE ~MakesFile
      <4>1. Wrote(<<>>)
        BY <2>2, <3>2 DEF IInv, Content
      <4>2. Got' = Got
        BY <1>1, <2>2, <3>2 DEF Got
      <4>3. Counts' => Got' = Base' \o <<>>
        BY <1>1, <4>1, <4>2, WroteSame
      <4> QED BY <4>3 DEF Wrote
    <3> QED BY <3>1, <3>2
  <2>3. (p.pc = "next" => Level)' /\ (p.pc \in Early /\ (MakesFile => p.pc = "ready" /\ inp.open /\ out.open) => Wrote(<<>>))'
    BY <1>1, <1>2, <2>1, <2>2
  <2> QED BY <1>1, <1>3, <2>3 DEF Content, Writing, Working
<1>8. StaysMade
  BY <1>1, <1>3, WholeIs DEF StaysMade
<1>9. StaysDone
  BY <1>1 DEF StaysDone, Resting
<1> QED BY <1>1, <1>2, <1>3, <1>4, <1>6, <1>7, <1>8, <1>9, QuietStep

(* What is known before a file is worked on. *)
LEMMA Preparing ==
  ASSUME IInv, p.pc \in Before \cup {"create", "ready"}
  PROVE  /\ TypeOK /\ DOMAIN p = Fields /\ inp \in FILE /\ out \in FILE
         /\ (p.pc \in Before => ~inp.open) /\ (MakesFile => ~p.delete) /\ p.pc \notin {"exited", "killed"}
         /\ (p.pc # "next" => p.streamNo = 0 /\ p.pc \in Early)
         /\ (p.pc # "next" => now > 0 /\ now \in Nat /\ p.inName = p.names[now] /\ p.outName = OutName(p.inName))
         /\ (inp.open => p.inName \in DOMAIN first /\ inp.all = first[p.inName].data)
<1>1. p.pc \notin {"exited", "killed"}
  BY DEF Before
<1>2. p.pc # "next" => now > 0 /\ now \in Nat /\ p.inName = p.names[now] /\ p.outName = OutName(p.inName)
  BY <1>1, Active DEF IInv
<1>3. p.pc # "next" => p.streamNo = 0 /\ p.pc \in Early
  BY DEF IInv, Located, Before, Early
<1> QED BY <1>1, <1>2, <1>3 DEF IInv, TypeOK, Located, Inputs

(* The tests of the names. *)
LEMMA CheckOK == ASSUME IInv, Check PROVE IInv'
<1>1. /\ p.pc = "check" /\ p.pc \in Before \cup {"create", "ready"}
      /\ UNCHANGED <<disk, conf, inp, out, owed, first>>
  BY DEF Check, At, Before
<1>2. /\ TypeOK /\ DOMAIN p = Fields /\ inp \in FILE /\ out \in FILE /\ ~inp.open /\ (MakesFile => ~p.delete) /\ now > 0
      /\ p.streamNo = 0 /\ p.pc \in Early
  BY <1>1, Preparing DEF Before
<1>3. (Moved("next") /\ ~Fair') \/ Moved(IF MakesFile THEN "output" ELSE "open")
  BY <1>2, GoesOn DEF Check
<1>4. now # 0
  BY <1>2
<1>5. {"next", "output", "open"} \subseteq Before \cup {"create", "ready", "fail", "killed"} /\ {"next", "output", "open"} \subseteq Before
  BY DEF Before
<1>6. CASE Moved("next") /\ ~Fair'
  BY <1>1, <1>2, <1>4, <1>5, <1>6, QuietMoves
<1>7. CASE Moved("output") /\ MakesFile
  BY <1>1, <1>2, <1>4, <1>5, <1>7, QuietMoves
<1>8. CASE Moved("open")
  BY <1>1, <1>2, <1>4, <1>5, <1>8, QuietMoves
<1> QED BY <1>3, <1>6, <1>7, <1>8

(* The test for hard links, and what saveInputFileMetaInfo needs. *)
LEMMA CheckLinksOK == ASSUME IInv, CheckLinks PROVE IInv'
<1>1. /\ p.pc = "links" /\ p.pc \in Before \cup {"create", "ready"}
      /\ UNCHANGED <<disk, conf, inp, out, owed, first>>
  BY DEF CheckLinks, At, Before
<1>2. /\ TypeOK /\ DOMAIN p = Fields /\ inp \in FILE /\ out \in FILE /\ ~inp.open /\ (MakesFile => ~p.delete) /\ now > 0
      /\ p.streamNo = 0 /\ p.pc \in Early
  BY <1>1, Preparing DEF Before
<1>3. (Moved("next") /\ ~Fair') \/ Moved("open") \/ Moved("fail")
  BY <1>2, GoesOn DEF CheckLinks, saveInputFileMetaInfo
<1>4. now # 0
  BY <1>2
<1>5. /\ {"next", "open", "fail"} \subseteq Before \cup {"create", "ready", "fail", "killed"}
      /\ {"next", "open"} \subseteq Before /\ "fail" \notin Before
  BY DEF Before
<1>6. CASE Moved("next") /\ ~Fair'
  BY <1>1, <1>2, <1>4, <1>5, <1>6, QuietMoves
<1>7. CASE Moved("open")
  BY <1>1, <1>2, <1>4, <1>5, <1>7, QuietMoves
<1>8. CASE Moved("fail")
  BY <1>1, <1>2, <1>4, <1>5, <1>8, QuietMoves
<1> QED BY <1>3, <1>6, <1>7, <1>8

(* The input is opened, or is not. *)
LEMMA OpenInputOK == ASSUME IInv, OpenInput PROVE IInv'
<1>1. /\ p.pc = "open" /\ p.pc \in Before \cup {"create", "ready"} /\ p.pc \in Before
      /\ UNCHANGED <<disk, conf, out, owed, first>>
  BY DEF OpenInput, At, Before
<1>2. /\ TypeOK /\ DOMAIN p = Fields /\ inp \in FILE /\ out \in FILE /\ ~inp.open /\ (MakesFile => ~p.delete)
      /\ now > 0 /\ now \in Nat /\ p.inName = p.names[now] /\ p.streamNo = 0 /\ p.pc \in Early
  BY <1>1, Preparing
<1>3. now # 0 /\ now >= now
  BY <1>2
<1>4. /\ {"next", "create", "ready"} \subseteq Before \cup {"create", "ready", "fail", "killed"}
      /\ "create" \notin Before /\ "ready" \notin Before
  BY DEF Before
<1>5. CASE Skipped(1) /\ UNCHANGED inp
  <2>1. Moved("next") /\ ~Fair'
    BY <1>2, <1>5, GoesOn
  <2> QED BY <1>1, <1>2, <1>3, <1>4, <1>5, <2>1, QuietMoves
<1>6. CASE InputOpened /\ GoTo(IF MakesFile THEN "create" ELSE "ready")
  <2>1. inp' = Closed \/ (fileExists(p.inName) /\ inp' = Opened(disk[p.inName].data))
    BY <1>6 DEF InputOpened
  <2>2. fileExists(p.inName) => disk[p.inName].data \in Seq(Chunks)
    BY <1>2 DEF TypeOK, fileExists, FileType
  <2>3. inp' \in FILE /\ (inp'.open => inp'.data = inp'.all)
    BY <1>2, <2>1, <2>2, FILEs
  <2>4. ASSUME inp'.open PROVE p.inName \in DOMAIN first /\ inp'.all = first[p.inName].data
    <3>1. fileExists(p.inName) /\ inp'.all = disk[p.inName].data
      BY <1>2, <2>1, <2>2, <2>4, FILEs
    <3>2. now \in DOMAIN p.names
      BY <1>2, OutIsApart DEF IInv
    <3> QED BY <1>2, <1>3, <2>4, <3>1, <3>2 DEF IInv, Inputs, fileExists
  <2>5. CASE MakesFile
    <3>1. Moved("create")
      BY <1>2, <1>6, <2>5, GoesOn
    <3> QED BY <1>1, <1>2, <1>3, <1>4, <2>3, <2>4, <2>5, <3>1, QuietMoves
  <2>6. CASE ~MakesFile
    <3>1. Moved("ready")
      BY <1>2, <1>6, <2>6, GoesOn
    <3> QED BY <1>1, <1>2, <1>3, <1>4, <2>3, <2>4, <2>6, <3>1, QuietMoves
  <2> QED BY <2>5, <2>6
<1> QED BY <1>5, <1>6 DEF OpenInput

(* A file could not be opened: the next one. *)
LEMMA NotReadyOK == ASSUME IInv, NotReady PROVE IInv'
<1>1. /\ p.pc = "ready" /\ p.pc \in Before \cup {"create", "ready"}
      /\ UNCHANGED <<disk, conf, owed, first>> /\ inp' = Closed /\ out' \in {Closed, out}
  BY DEF NotReady, At
<1>2. /\ TypeOK /\ DOMAIN p = Fields /\ inp \in FILE /\ out \in FILE /\ (MakesFile => ~p.delete)
      /\ now > 0 /\ now \in Nat
  BY <1>1, Preparing
<1>3. now # 0 /\ inp' \in FILE /\ ~inp'.open /\ out' \in FILE
  BY <1>1, <1>2, FILEs
<1>4. Moved("next") /\ ~Fair' /\ "next" \in Before /\ "next" \notin Early
  BY <1>2, GoesOn DEF NotReady, Before, Early
<1> QED BY <1>1, <1>2, <1>3, <1>4, QuietMoves

(* The work on a file begins, with its output marked for deletion. *)
LEMMA ReadyOK == ASSUME IInv, Ready PROVE IInv'
<1>1. /\ p.pc = "ready" /\ p.pc \in Before \cup {"create", "ready"} /\ inp.open /\ out.open
      /\ UNCHANGED <<disk, conf, owed, first, inp, out>> /\ Step(ReadyFor(conf.op))
  BY DEF Ready, At
<1>2. /\ TypeOK /\ DOMAIN p = Fields /\ inp \in FILE /\ out \in FILE /\ (MakesFile => ~p.delete)
      /\ now > 0 /\ now \in Nat /\ p.streamNo \in Nat /\ p.streamNo = 0 /\ p.pc \in Early
      /\ (inp.open => p.inName \in DOMAIN first /\ inp.all = first[p.inName].data)
  BY <1>1, Preparing DEF TypeOK
<1> DEFINE to == IF conf.op = "z" THEN "compress" ELSE "stream"
           c == ReadyFor(conf.op)
<1>3. c.pc = to /\ c.delete = (conf.op # "test") /\ DOMAIN c = {"pc", "handle", "delete"} /\ Step(c)
  BY <1>1 DEF ReadyFor
<1> HIDE DEF c
<1>4. /\ DOMAIN p' = Fields /\ p'.pc = to /\ p'.streamNo = p.streamNo /\ p'.unchecked = p.unchecked
      /\ p'.names = p.names /\ p'.todo = p.todo /\ p'.inName = p.inName /\ p'.outName = p.outName
      /\ p'.delete = (conf.op # "test") /\ p'.exitValue = p.exitValue /\ p'.failsExist = p.failsExist
  BY <1>2, <1>3, StepIs DEF Fields
<1>5. /\ to \in Places /\ to \in Reading /\ to \in Writing /\ to \notin Before /\ to \notin After
      /\ to \notin {"output", "links", "create", "ready", "discard", "unlink"} /\ to \notin Early
  BY DEF Places, Reading, Writing, Before, After, Working, Early
<1>6. Same /\ now # 0 /\ p'.streamNo \in Nat
  <2>1. Same
    BY <1>1, <1>4 DEF Same, Fair
  <2> QED BY <1>2, <1>4, <2>1
<1>7. MakesFile' = MakesFile /\ (MakesFile => conf.op \in {"z", "unz"})
  BY <1>1, <1>2, OpIs, MeantSame DEF IInv
<1>8. Located'
  <2> HIDE DEF to
  <2> QED BY <1>1, <1>4, <1>5, <1>7 DEF Located
<1>9. MakesFile => p.outName \in DOMAIN disk /\ disk[p.outName].by = "bzip2"
  BY <1>1 DEF IInv, Mine
<1>10. Mine'
  BY <1>1, <1>4, <1>7, <1>9 DEF Mine
<1>11. Content'
  <2>1. Wrote(<<>>) /\ inp.data = inp.all
    BY <1>1, <1>2 DEF IInv, Content, Located
  <2>2. Got' = Got
    BY <1>1, <1>4 DEF Got
  <2>3. Counts' => Got' = Base' \o <<>>
    BY <1>6, <2>1, <2>2, WroteSame
  <2>4. CASE conf.op = "z"
    <3>1. p'.pc = "compress" /\ conf'.op = "z" /\ inp'.data = inp'.all
      BY <1>1, <1>4, <2>1, <2>4
    <3> QED BY <2>3, <3>1 DEF Content, Wrote, Early
  <2>5. CASE conf.op # "z"
    <3>1. inp.all \in Seq(Chunks)
      BY <1>2 DEF FILE
    <3>2. Consumed' = <<>>
      BY <1>1, <2>1, <3>1, NoneRead DEF Consumed
    <3>3. Unpacked(<<>>) = Packet
      BY Marks, UnpackOne
    <3>4. inp.all = <<>> \o inp.all
      BY <3>1, ConcatEmptySeq
    <3>5. Unwound("between")'
      <4>1. Unpacked(Consumed)' = Packet /\ Packet.mode = "between" /\ Packet.data = <<>>
        BY <3>2, <3>3 DEF Packet
      <4>2. (inp.all = Consumed \o inp.data)'
        BY <1>1, <2>1, <3>2, <3>4
      <4>3. Counts' => Got' = Base' \o Packet.data
        BY <2>3, <4>1
      <4> QED BY <4>1, <4>2, <4>3 DEF Unwound, Wrote
    <3>6. p'.pc = "stream" /\ p'.streamNo = 0 /\ conf'.op # "z"
      BY <1>1, <1>2, <1>4, <2>5
    <3> QED BY <3>2, <3>5, <3>6 DEF Content, Early
  <2> QED BY <2>4, <2>5
<1>12. StaysMade
  <2>1. p.outName \in DOMAIN disk /\ disk[p.outName].by = "bzip2" => MakesFile
    BY DEF IInv, Made
  <2>2. MakesFile => p'.delete /\ p'.pc # "exited"
    BY <1>4, <1>7
  <2> QED BY <2>1, <2>2 DEF StaysMade
<1>13. StaysDone
  BY <1>1 DEF StaysDone, Resting
<1> HIDE DEF to
<1> QED BY <1>1, <1>2, <1>4, <1>5, <1>6, <1>8, <1>10, <1>11, <1>12, <1>13, QuietStep

(* What is no bzip2 file has no output. *)
LEMMA GiveUpOK == ASSUME IInv, GiveUp PROVE IInv'
<1>1. /\ p.pc = "not bzip2" /\ p.pc \in Writing /\ UNCHANGED <<disk, conf, inp, out, owed, first>>
      /\ Step([pc |-> "discard", handle |-> FALSE, delete |-> FALSE, failsExist |-> TRUE])
  BY DEF GiveUp, At, Writing
<1>2. /\ TypeOK /\ DOMAIN p = Fields /\ inp \in FILE /\ out \in FILE /\ p.streamNo \in Nat /\ now > 0
      /\ (MakesFile => p.outName \in DOMAIN disk) /\ Content
      /\ (inp.open => p.inName \in DOMAIN first /\ inp.all = first[p.inName].data)
  BY <1>1, AtWork
<1> DEFINE c == [pc |-> "discard", handle |-> FALSE, delete |-> FALSE, failsExist |-> TRUE]
<1>3. c.pc = "discard" /\ c.delete = FALSE /\ c.failsExist = TRUE
      /\ DOMAIN c = {"pc", "handle", "delete", "failsExist"} /\ Step(c)
  BY <1>1
<1> HIDE DEF c
<1>4. /\ DOMAIN p' = Fields /\ p'.pc = "discard" /\ p'.streamNo = p.streamNo /\ p'.unchecked = p.unchecked
      /\ p'.names = p.names /\ p'.todo = p.todo /\ p'.inName = p.inName /\ p'.outName = p.outName
      /\ p'.delete = FALSE /\ p'.failsExist = TRUE
  BY <1>2, <1>3, StepIs DEF Fields
<1>5. Same
  BY <1>1, <1>4 DEF Same, Fair
<1>6. "discard" \notin Early /\ "discard" \in Places /\ "discard" \in Working /\ "discard" \notin Reading /\ "discard" \notin Writing /\ "discard" \in After
      /\ p.pc \in Working /\ p.pc \in After /\ p.pc \notin Resting
  BY <1>1 DEF Places, Working, Reading, Writing, After, Resting, Early
<1>7. MakesFile' = MakesFile
  BY <1>1, MeantSame
<1>8. Located'
  BY <1>1, <1>4, <1>6, <1>7 DEF IInv, Located
<1>9. MakesFile => p.outName \in DOMAIN disk /\ disk[p.outName].by = "bzip2" /\ disk[p.outName].data = <<>>
  BY <1>1, <1>2, <1>6 DEF IInv, Mine, Content
<1>10. Mine' /\ Content'
  BY <1>1, <1>4, <1>6, <1>7, <1>9 DEF Mine, Content
<1>11. StaysMade
  <2>1. p.outName \in DOMAIN disk /\ disk[p.outName].by = "bzip2" => MakesFile
    BY DEF IInv, Made
  <2> QED BY <1>9, <2>1 DEF StaysMade, Whole
<1>12. StaysDone
  BY <1>6 DEF StaysDone
<1>13. now # 0
  BY ONLY <1>2
<1> QED BY <1>1, <1>2, <1>4, <1>5, <1>6, <1>8, <1>10, <1>11, <1>12, <1>13, QuietStep

(* What is finished is whole. *)
LEMMA DoneIsWhole ==
  ASSUME p.outName = OutName(p.inName), MakesFile, Delivered
  PROVE  Whole(p.outName)
  BY DEF Delivered, Judged, Piped, Goal, Whole

(* When the last file is on stdout, so are all. *)
LEMMA LevelComes ==
  ASSUME TypeOK, InOrder, now > 0, now \in Nat, p.outName = OutName(p.inName), Delivered,
         ToStdout, Well, AllMeant(now)
  PROVE  disk[Stdout].data \o out.buf = Due(now)
<1>1. p.inName = p.names[now] /\ Stdout \in DOMAIN first
  BY DEF InOrder
<1>2. now \in DOMAIN p.names
  BY OutIsApart
<1>3. ~Piped /\ ~MakesFile
  BY <1>1, <1>2 DEF Well, Piped, ToStdout, MakesFile, FileFor
<1>4. now - 1 \in Nat /\ (now - 1) + 1 = now
  OBVIOUS
<1>5. AllMeant(now - 1)
  <2>1. \A i \in 1..now - 1 : i \in 1..now
    OBVIOUS
  <2> QED BY <2>1 DEF AllMeant
<1>6. Counts
  BY <1>5 DEF Counts
<1>7. Got = Due(now - 1) \o Goal
  BY <1>3, <1>6 DEF Delivered, Wrote, Base
<1>8. p.outName = Stdout
  BY DEF OutName, OutNameFor, Suffixed, Unsuffixed, ToStdout
<1>9. Due(now) = Due(now - 1) \o Goal
  <2>1. ASSUME NEW k \in Nat, k + 1 = now, AllMeant(k) PROVE Due(now) = Due(k) \o Goal
    BY <1>1, <2>1, DueIs DEF Goal
  <2> QED BY <1>4, <1>5, <2>1
<1> QED BY <1>7, <1>8, <1>9 DEF Got

(* The output is finished, and no longer marked. *)
LEMMA FinishOK == ASSUME IInv, Finish PROVE IInv'
<1>1. /\ p.pc = "finish" /\ p.pc \in Writing /\ UNCHANGED <<disk, conf, inp, out, owed, first>>
      /\ Step([pc |-> IF RemovesInput THEN "unlink" ELSE "next", delete |-> FALSE]) \/ Failing("io")
  BY DEF Finish, At, Writing
<1>2. /\ TypeOK /\ InOrder /\ DOMAIN p = Fields /\ inp \in FILE /\ out \in FILE /\ p.streamNo \in Nat
      /\ now > 0 /\ now \in Nat
      /\ p.outName = OutName(p.inName)
      /\ (MakesFile => p.outName \in DOMAIN disk) /\ Content
      /\ (inp.open => p.inName \in DOMAIN first /\ inp.all = first[p.inName].data)
  BY <1>1, AtWork
<1>3. CASE Failing("io")
  BY <1>1, <1>2, <1>3, GoesOn, FailsStep DEF Writes
<1> DEFINE to == IF RemovesInput THEN "unlink" ELSE "next"
           c == [pc |-> to, delete |-> FALSE]
<1>4. CASE Step(c)
  <2>1. c.pc = to /\ c.delete = FALSE /\ DOMAIN c = {"pc", "delete"} /\ Step(c)
    BY <1>4
  <2> HIDE DEF c
  <2>2. /\ DOMAIN p' = Fields /\ p'.pc = to /\ p'.streamNo = p.streamNo /\ p'.unchecked = p.unchecked
        /\ p'.names = p.names /\ p'.todo = p.todo /\ p'.inName = p.inName /\ p'.outName = p.outName
        /\ p'.delete = FALSE /\ p'.exitValue = p.exitValue /\ p'.failsExist = p.failsExist
    BY <1>2, <2>1, StepIs DEF Fields
  <2>3. Same
    BY <1>1, <2>2 DEF Same, Fair
  <2>4. /\ to \in {"unlink", "next"} /\ to \notin Early /\ to \in Places /\ to \notin Reading /\ to \notin Writing /\ to \in Before \cup After
        /\ p.pc \in Working /\ p.pc \in After /\ p.pc \notin Resting
    BY <1>1 DEF Places, Working, Reading, Writing, Before, After, Resting, Early
  <2> HIDE DEF to
  <2>5. MakesFile' = MakesFile
    BY <1>1, MeantSame
  <2>6. Located'
    BY <1>1, <2>2, <2>4, <2>5 DEF IInv, Located
  <2>7. /\ MakesFile => p.outName \in DOMAIN disk /\ disk[p.outName].by = "bzip2"
        /\ p.unchecked \/ Delivered
    BY <1>1, <1>2, <2>4 DEF IInv, Mine, Content
  <2>8. Mine'
    BY <1>1, <2>2, <2>5, <2>7 DEF Mine
  <2>9. Content'
    <3>1. Got' = Got
      BY <1>1, <2>2 DEF Got
    <3>2. Delivered => Delivered'
      BY <1>1, <2>3, <3>1, DeliveredStays
    <3>3. Level'
      <4>1. SUFFICES ASSUME ToStdout', Well', AllMeant(now)' PROVE (disk[Stdout].data \o out.buf = Due(now))'
        BY DEF Level
      <4>2. ToStdout /\ Well /\ AllMeant(now) /\ (Due(now))' = Due(now)
        BY <2>2, <2>3, <4>1, CountsStay DEF Due, AllMeant, Meant, Same
      <4>3. Delivered
        BY <2>7, <4>2 DEF Well, Fair
      <4>4. disk[Stdout].data \o out.buf = Due(now)
        BY <1>2, <4>2, <4>3, LevelComes
      <4> QED BY <1>1, <4>2, <4>4
    <3> QED BY <2>2, <2>4, <2>7, <3>2, <3>3 DEF Content
  <2>10. StaysMade
    <3>1. p.outName \in DOMAIN disk /\ disk[p.outName].by = "bzip2" => MakesFile
      BY DEF IInv, Made
    <3>2. MakesFile => p.unchecked \/ Whole(p.outName)
      BY <1>2, <2>7, DoneIsWhole
    <3> QED BY <2>2, <3>1, <3>2 DEF StaysMade
  <2>11. StaysDone
    BY <2>4 DEF StaysDone
  <2>12. now # 0
    BY ONLY <1>2
  <2> QED BY <1>1, <1>2, <2>2, <2>3, <2>4, <2>6, <2>8, <2>9, <2>10, <2>11, <2>12, QuietStep
<1> QED BY <1>1, <1>3, <1>4

-----------------------------------------------------------------------------
(* The program ends *)

(* The end of the process leaves the files as they are. *)
LEMMA KilledOK ==
  ASSUME IInv, Running, Dies, UNCHANGED <<disk, conf, inp, out, owed, first>>
  PROVE  IInv'
<1>1. /\ TypeOK /\ DOMAIN p = Fields /\ inp \in FILE /\ out \in FILE /\ p.pc \notin {"exited", "killed"}
      /\ (inp.open => p.inName \in DOMAIN first /\ inp.all = first[p.inName].data)
      /\ (now = 0 => out.buf = <<>>)
  BY DEF IInv, TypeOK, Inputs, Running, InOrder
<1>2. Moved("killed") /\ "killed" \in Before \cup {"create", "ready", "fail", "killed"} 
      /\ "killed" \in Resting /\ "killed" \notin Before /\ "killed" \notin Early
  BY <1>1, GoesOn DEF Resting, Before, Early
<1> QED BY <1>1, <1>2, QuietMoves

(* An exit says so when it leaves an output that is marked for deletion. *)
LEMMA ExitsIs ==
  ASSUME DOMAIN p = Fields, NEW ec, ec # 0, NEW w, Exits(ec, w)
  PROVE  /\ DOMAIN p' = Fields /\ p'.pc = "exited" /\ p'.streamNo = p.streamNo /\ p'.unchecked = p.unchecked
         /\ p'.names = p.names /\ p'.todo = p.todo /\ p'.inName = p.inName /\ p'.outName = p.outName
         /\ p'.delete = p.delete /\ p'.warned = w /\ p'.exitValue = setExit(ec) /\ (Fair' => Fair)
<1> DEFINE c == [pc |-> "exited", exitValue |-> setExit(ec), warned |-> w]
<1>1. c.pc = "exited" /\ c.warned = w /\ c.exitValue = setExit(ec) /\ DOMAIN c = {"pc", "exitValue", "warned"} /\ Step(c)
  BY DEF Exits
<1> HIDE DEF c
<1>2. /\ DOMAIN p' = Fields /\ p'.pc = "exited" /\ p'.streamNo = p.streamNo /\ p'.unchecked = p.unchecked
      /\ p'.names = p.names /\ p'.todo = p.todo /\ p'.inName = p.inName /\ p'.outName = p.outName
      /\ p'.delete = p.delete /\ p'.warned = w /\ p'.exitValue = setExit(ec) /\ p'.failsExist = p.failsExist
  BY <1>1, StepIs DEF Fields
<1>3. p'.exitValue = 0 => p.exitValue = 0
  BY <1>2, ExitValueStays
<1> QED BY <1>2, <1>3 DEF Fair

(* The output is dropped. *)
LEMMA DropStep ==
  ASSUME IInv, Same, MakesFile, now > 0, DOMAIN p' = Fields, p'.streamNo \in Nat,
         p.pc \notin Resting, disk' = Without(p.outName), UNCHANGED <<inp, out>>,
         p'.pc \in {"next", "exited", "links"}, p'.delete = p.delete,
         p'.pc # "exited" => ~p.delete /\ ~inp.open, p'.pc = "links" => p'.streamNo = 0,
         owed' \subseteq owed,
         p.unchecked \/ \A data \in owed' : p.outName \in DOMAIN disk => disk[p.outName].by = "bzip2" \/ disk[p.outName].data # data
  PROVE  IInv'
<1>0. TypeOK /\ InOrder /\ inp \in FILE /\ out \in FILE
  BY DEF IInv, TypeOK
<1>1. /\ DOMAIN disk' = DOMAIN disk \ {p.outName} /\ disk' \in [DOMAIN disk' -> FileType]
      /\ \A n \in DOMAIN disk' : disk'[n] = disk[n]
  BY <1>0, WithoutIs
<1>2. /\ MakesFile' = MakesFile /\ p'.outName = p.outName /\ p'.inName = p.inName /\ now' = now /\ p'.names = p.names
      /\ (p.unchecked => p'.unchecked)
  BY MeantSame DEF Same, now
<1>3. Spares(p.outName) /\ NoName \notin DOMAIN disk' /\ Stdout \in DOMAIN disk'
  <2>1. p.outName # Stdout
    BY <1>0, OutIsApart
  <2> QED BY <1>0, <1>1, <2>1 DEF Spares, InOrder
<1>4. p'.pc \in Places /\ p'.pc \notin Working /\ p'.pc \notin Reading /\ p'.pc \notin Writing /\ p'.pc \notin {"create", "ready", "fail"}
      /\ (p'.pc \in Before \cup After => p'.pc # "exited") /\ p'.pc \notin {"output", "discard", "unlink"}
      /\ (p'.pc \in Before \cup {"create", "ready", "discard", "unlink"} => p'.pc # "exited")
  BY DEF Places, Before, Working, Reading, Writing, After
<1>5. TypeOK'
  BY <1>0, <1>1, <1>4 DEF TypeOK, Same, Places
<1>6. InOrder'
  <2>1. now # 0
    <3>1. now > 0
      OBVIOUS
    <3> QED BY ONLY <3>1
  <2> QED BY <1>0, <1>3, <2>1, OrderStays
<1>7. Located'
  <2>1. p'.pc \in Early => p'.pc = "links"
    BY DEF Early
  <2> QED BY <1>2, <1>4, <2>1 DEF Located
<1>8. Mine' /\ Content'
  <2>1. ~ToStdout'
    BY <1>2 DEF MakesFile, FileFor, ToStdout
  <2> QED BY <1>2, <1>4, <2>1 DEF Mine, Content, Working, Writing, Level
<1>9. Inputs'
  BY <1>3, InputsStay
<1>10. Made'
  BY <1>1, <1>3, MadeStays
<1>11. KeptAll'
  <2>1. p.pc \notin {"next", "exited", "killed"}
    BY DEF Resting
  <2>2. ASSUME NEW data \in owed', Kept(data), ~p.unchecked PROVE Kept(data)'
    <3>1. CASE \E n \in DOMAIN disk \ {Stdout} : disk[n].by = "user" /\ disk[n].kind = "regular" /\ disk[n].data = data
      <4>1. PICK n \in DOMAIN disk \ {Stdout} : disk[n].by = "user" /\ disk[n].kind = "regular" /\ disk[n].data = data
        BY <3>1
      <4>2. n # p.outName
        BY <2>2, <4>1
      <4> QED BY <1>1, <4>1, <4>2 DEF Kept
    <3>2. CASE \E j \in 1..now :
               /\ j = now => p.pc \in {"next", "exited", "killed"} /\ ~p.delete
               /\ MakesFile /\ OutName(p.names[j]) \in DOMAIN disk /\ disk[OutName(p.names[j])].data = Meant(data)
      <4>1. PICK j \in 1..now :
               /\ j = now => p.pc \in {"next", "exited", "killed"} /\ ~p.delete
               /\ MakesFile /\ OutName(p.names[j]) \in DOMAIN disk /\ disk[OutName(p.names[j])].data = Meant(data)
        BY <3>2
      <4>2. j # now
        BY <2>1, <4>1
      <4>3. OutName(p.names[j]) # p.outName
        BY <1>0, <4>2, OutIsApart
      <4>4. OutName(p.names[j]) \in DOMAIN disk' /\ disk'[OutName(p.names[j])].data = Meant(data)
        BY <1>1, <4>1, <4>3
      <4>5. /\ OutName(p.names[j])' = OutName(p.names[j]) /\ Meant(data)' = Meant(data) /\ MakesFile'
        BY <1>2, MeantSame DEF Same, OutName, Meant
      <4>6. \E i \in 1..now' :
               /\ i = now' => p'.pc \in {"next", "exited", "killed"} /\ ~p'.delete
               /\ MakesFile' /\ OutName(p.names[i])' \in DOMAIN disk' /\ disk'[OutName(p.names[i])'].data = Meant(data)'
        BY <1>2, <4>2, <4>4, <4>5
      <4> QED BY <4>6 DEF Kept
    <3> QED BY <2>2, <3>1, <3>2 DEF Kept
  <2> QED BY <1>2, <2>2 DEF IInv, KeptAll
<1> QED BY <1>5, <1>6, <1>7, <1>8, <1>9, <1>10, <1>11 DEF IInv

(* What is known of a file that is dealt with. *)
LEMMA Known ==
  ASSUME IInv, p.pc \notin Resting
  PROVE  /\ TypeOK /\ InOrder /\ DOMAIN p = Fields /\ inp \in FILE /\ out \in FILE /\ p.streamNo \in Nat
         /\ now > 0 /\ now # 0 /\ now \in Nat /\ now \in DOMAIN p.names
         /\ p.inName = p.names[now] /\ p.outName = OutName(p.inName) /\ NoName \notin DOMAIN disk
         /\ (inp.open => p.inName \in DOMAIN first /\ inp.all = first[p.inName].data)
<1>1. TypeOK /\ InOrder /\ Inputs
  BY DEF IInv
<1>2. now > 0 /\ now \in Nat /\ p.inName = p.names[now] /\ p.outName = OutName(p.inName)
  BY <1>1, Active DEF Resting
<1>3. now \in DOMAIN p.names
  BY <1>1, <1>2, OutIsApart
<1>4. now # 0
  BY ONLY <1>2
<1> QED BY <1>1, <1>2, <1>3, <1>4 DEF TypeOK, InOrder, Inputs

(* With -f the file in the way goes, and what it held is no longer owed. *)
LEMMA CheckOutputOK == ASSUME IInv, CheckOutput PROVE IInv'
<1>1. /\ p.pc = "output" /\ p.pc \in Before \cup {"create", "ready"} /\ p.pc \in Before /\ p.pc \notin Resting
      /\ p.pc \in Early /\ MakesFile /\ UNCHANGED <<conf, inp, out, first>>
  BY DEF CheckOutput, At, Before, Resting, Early, IInv, Located
<1>2. /\ DOMAIN p = Fields /\ inp \in FILE /\ out \in FILE /\ ~inp.open /\ ~p.delete /\ now > 0
      /\ p.streamNo = 0
  BY <1>1, Preparing
<1>3. now # 0
  BY <1>1, Known
<1>4. /\ {"next", "links"} \subseteq Before \cup {"create", "ready", "fail", "killed"} /\ {"next", "links"} \subseteq Before
      /\ "next" \notin Early
  BY DEF Before, Early
<1>5. (Moved("next") /\ ~Fair') \/ Moved("links")
  BY <1>2, GoesOn DEF CheckOutput
<1>6. owed' \subseteq owed
  BY DEF CheckOutput
<1>7. CASE UNCHANGED disk
  <2>1. CASE Moved("next") /\ ~Fair'
    BY <1>1, <1>2, <1>3, <1>4, <1>6, <1>7, <2>1, QuietMoves
  <2>2. CASE Moved("links")
    BY <1>1, <1>2, <1>3, <1>4, <1>6, <1>7, <2>2, QuietMoves
  <2> QED BY <1>5, <2>1, <2>2
<1>8. CASE ~UNCHANGED disk
  <2>1. disk' = Without(p.outName) /\ owed' = owed \ {disk[p.outName].data} /\ GoTo("links")
    BY <1>8 DEF CheckOutput
  <2>2. Moved("links")
    BY <1>2, <2>1, GoesOn
  <2>3. Same /\ DOMAIN p' = Fields /\ p'.pc = "links" /\ p'.delete = p.delete /\ p'.streamNo = p.streamNo
    BY <1>1, <2>2, MovedIs
  <2>4. \A data \in owed' : disk[p.outName].data # data
    BY <2>1
  <2>5. p'.streamNo \in Nat
    BY <1>2, <2>3
  <2> QED BY <1>1, <1>2, <1>6, <2>1, <2>3, <2>4, <2>5, DropStep
<1> QED BY <1>7, <1>8

(* An output that is no data is dropped. *)
LEMMA DiscardOK == ASSUME IInv, Discard PROVE IInv'
<1>1. /\ p.pc = "discard" /\ p.pc \notin Resting /\ p.pc \in After /\ p.pc \in Working
      /\ UNCHANGED <<conf, inp, out, owed, first>>
  BY DEF Discard, At, Resting, After, Working
<1>2. /\ TypeOK /\ DOMAIN p = Fields /\ inp \in FILE /\ out \in FILE /\ now > 0 /\ now # 0 /\ p.streamNo \in Nat
      /\ NoName \notin DOMAIN disk /\ InOrder
      /\ (inp.open => p.inName \in DOMAIN first /\ inp.all = first[p.inName].data)
  BY <1>1, Known
<1>3. ~inp.open /\ (MakesFile => ~p.delete)
  BY <1>1 DEF IInv, Located
<1>4. /\ {"next", "fail"} \subseteq Before \cup {"create", "ready", "fail", "killed"}
      /\ "next" \notin Early /\ "fail" \notin Early /\ "fail" \notin Before
  BY DEF Before, Early
<1>5. (Moved("next") /\ ~Fair') \/ (Moved("fail") /\ UNCHANGED disk)
  BY <1>2, GoesOn DEF Discard
<1>6. CASE UNCHANGED disk
  <2>1. CASE Moved("next") /\ ~Fair'
    BY <1>1, <1>2, <1>3, <1>4, <1>6, <2>1, QuietMoves
  <2>2. CASE Moved("fail")
    BY <1>1, <1>2, <1>3, <1>4, <1>6, <2>2, QuietMoves
  <2> QED BY <1>5, <2>1, <2>2
<1>7. CASE ~UNCHANGED disk
  <2>1. disk' = Without(p.outName) /\ conf.src = "F2F" /\ Moved("next")
    BY <1>5, <1>7 DEF Discard
  <2>2. MakesFile
    <3>1. SUFFICES ASSUME ~MakesFile PROVE FALSE
      OBVIOUS
    <3>2. conf.op = "test"
      BY <2>1, <3>1 DEF MakesFile, FileFor
    <3>3. p.outName = NoName
      BY <1>1, <3>2, Known DEF OutName, OutNameFor
    <3>4. DOMAIN disk \ {p.outName} = DOMAIN disk /\ disk \in [DOMAIN disk -> FileType]
      BY <1>2, <3>3 DEF TypeOK
    <3>5. Without(p.outName) = disk
      BY <3>4 DEF Without
    <3> QED BY <1>7, <2>1, <3>5
  <2>3. Same /\ DOMAIN p' = Fields /\ p'.pc = "next" /\ p'.delete = p.delete /\ p'.streamNo = p.streamNo
    BY <1>1, <2>1, MovedIs
  <2>4. p.outName \in DOMAIN disk => disk[p.outName].by = "bzip2"
    BY <1>1, <2>2 DEF IInv, Mine
  <2>5. p'.streamNo \in Nat
    BY <1>2, <2>3
  <2> QED BY <1>1, <1>2, <1>3, <2>1, <2>2, <2>3, <2>4, <2>5, DropStep
<1> QED BY <1>6, <1>7

-----------------------------------------------------------------------------
(* Files come and go *)

(* A file is made where the output is to be: an empty one by the command, or one of another's. *)
LEMMA ComeStep ==
  ASSUME IInv, Same, MakesFile, p.pc \notin Resting \/ (now > 0 /\ p' = p), DOMAIN p' = Fields, p'.streamNo \in Nat,
         p'.pc \in Places, NEW file \in FileType, disk' = With(p.outName, file), p.outName \notin DOMAIN disk,
         file.by = "user" \/ file.data = <<>>,
         inp' = inp, out' \in FILE, Located', Mine', Content',
         owed' \subseteq owed \/ (file.by = "user" /\ file.kind = "regular" /\ owed' \subseteq owed \cup {file.data})
  PROVE  IInv'
<1>1. TypeOK /\ InOrder /\ inp \in FILE /\ now > 0
  BY Known DEF IInv, TypeOK
<1>2. /\ DOMAIN disk' = DOMAIN disk \cup {p.outName} /\ disk' \in [DOMAIN disk' -> FileType]
      /\ disk'[p.outName] = file /\ \A n \in DOMAIN disk : n # p.outName => disk'[n] = disk[n]
  BY <1>1, WithIs
<1>3. /\ MakesFile' = MakesFile /\ p'.outName = p.outName /\ p'.inName = p.inName /\ now' = now /\ p'.names = p.names
      /\ (p.unchecked => p'.unchecked)
  BY MeantSame DEF Same, now
<1>4. p.outName # NoName /\ p.outName # Stdout
  BY <1>1, OutIsApart
<1>5. Spares(p.outName)
  BY <1>1, <1>2, <1>4 DEF Spares, InOrder
<1>6. TypeOK'
  BY <1>1, <1>2 DEF TypeOK, Same, Places
<1>7. InOrder'
  <2>1. now # 0
    BY ONLY <1>1
  <2>2. NoName \notin DOMAIN disk' /\ Stdout \in DOMAIN disk'
    BY <1>5 DEF Spares
  <2> QED BY <1>1, <2>1, <2>2, OrderStays
<1>8. Inputs'
  BY <1>1, <1>5, InputsStay
<1>9. Made'
  <2>1. file.by = "bzip2" => Whole(p.outName)'
    BY <1>2, <1>3 DEF Whole
  <2> QED BY <1>2, <1>5, <2>1, MadeStays
<1>10. KeptAll'
  <2>1. ASSUME NEW data, Kept(data) PROVE Kept(data)'
    <3>1. \A n \in DOMAIN disk : n \in DOMAIN disk' /\ disk'[n] = disk[n]
      BY <1>2
    <3>2. p.pc \in {"next", "exited", "killed"} => p' = p
      BY DEF Resting
    <3> QED BY <2>1, <3>1, <3>2, KeptOne
  <2>2. owed' \subseteq owed \/ Kept(file.data)'
    <3>1. ASSUME file.by = "user", file.kind = "regular" PROVE Kept(file.data)'
      <4>1. \E n \in DOMAIN disk' \ {Stdout} : disk'[n].by = "user" /\ disk'[n].kind = "regular" /\ disk'[n].data = file.data
        BY <1>2, <1>4, <3>1
      <4> QED BY <4>1 DEF Kept
    <3> QED BY <3>1
  <2>3. owed' \subseteq owed \/ owed' \subseteq owed \cup {file.data}
    OBVIOUS
  <2> QED BY <1>3, <2>1, <2>2, <2>3 DEF IInv, KeptAll
<1> QED BY <1>6, <1>7, <1>8, <1>9, <1>10 DEF IInv

(* fopen_output_safely: only where there is no file. *)
LEMMA CreateOutputOK == ASSUME IInv, CreateOutput PROVE IInv'
<1>1. /\ p.pc = "create" /\ p.pc \in Before \cup {"create", "ready"} /\ p.pc \notin Resting
      /\ MakesFile /\ UNCHANGED <<conf, inp, owed, first>>
      /\ fopen_output_safely(p.outName) /\ GoTo("ready")
  BY DEF CreateOutput, At, Resting, IInv, Located
<1>2. /\ TypeOK /\ DOMAIN p = Fields /\ inp \in FILE /\ out \in FILE /\ ~p.delete /\ now > 0
      /\ p.streamNo = 0 /\ p.streamNo \in Nat /\ p.pc \in Early
      /\ (inp.open => p.inName \in DOMAIN first /\ inp.all = first[p.inName].data)
  BY <1>1, Preparing
<1>3. now # 0 /\ (inp.open => inp.data = inp.all)
  BY <1>1, Known DEF IInv, Located, Early
<1>4. Moved("ready") /\ "ready" \notin Before /\ "ready" \in Places /\ "ready" \notin Working /\ "ready" \notin Writing
      /\ "ready" \notin Reading /\ "ready" \notin After
  BY <1>1, <1>2, GoesOn DEF Before, Places, Working, Writing, Reading, After
<1>5. Closed \in FILE /\ ~Closed.open /\ Opened(<<>>) \in FILE /\ Opened(<<>>).buf = <<>> /\ <<>> \in Seq(Chunks)
  BY <1>2, EmptySeq, FILEs
<1>6. CASE UNCHANGED disk /\ out' = Closed
  BY <1>1, <1>2, <1>3, <1>4, <1>5, <1>6, QuietMoves
<1> DEFINE file == [kind |-> "regular", linked |-> FALSE, by |-> "bzip2", data |-> <<>>]
<1>7. CASE p.outName \notin DOMAIN disk /\ disk' = With(p.outName, file) /\ out' \in {Opened(<<>>), Closed}
  <2>1. file \in FileType /\ file.data = <<>> /\ file.by = "bzip2"
    BY <1>5 DEF FileType, Kinds
  <2> HIDE DEF file
  <2>2. /\ Same /\ DOMAIN p' = Fields /\ p'.pc = "ready" /\ p'.delete = p.delete /\ p'.streamNo = p.streamNo
        /\ p'.outName = p.outName
    BY <1>1, <1>4, MovedIs DEF Same
  <2>3. p.outName \in DOMAIN disk' /\ disk'[p.outName] = file
    <3>1. disk' = With(p.outName, file)
      BY <1>7
    <3> QED BY <3>1 DEF With
  <2>4. MakesFile' = MakesFile
    BY <1>1, MeantSame
  <2>5. Located'
    BY <1>1, <1>2, <1>3, <1>4, <2>2, <2>4 DEF Located
  <2>6. Mine'
    BY <2>1, <2>2, <2>3 DEF Mine
  <2>7. Content'
    <3>1. out'.open => Got' = <<>> \o <<>>
      BY <1>5, <1>7, <2>1, <2>2, <2>3 DEF Got
    <3>2. <<>> \o <<>> = <<>>
      BY <1>5, ConcatEmptySeq
    <3>3. out'.open => Wrote(<<>>)'
      BY <1>1, <2>4, <3>1, <3>2 DEF Wrote, Base
    <3> QED BY <1>1, <1>4, <2>2, <2>4, <3>3 DEF Content, Working, Writing
  <2>8. p'.pc \in Places /\ p'.streamNo \in Nat /\ inp' = inp /\ out' \in FILE /\ owed' \subseteq owed
    BY <1>1, <1>2, <1>4, <1>5, <1>7, <2>2
  <2> QED BY <1>1, <1>7, <2>1, <2>2, <2>5, <2>6, <2>7, <2>8, ComeStep
<1> QED BY <1>1, <1>6, <1>7 DEF fopen_output_safely, fileExists

(* The file of another where the output is to be. *)
LEMMA IntrudesOK == ASSUME IInv, Intrudes PROVE IInv'
<1> DEFINE file == [kind |-> "regular", linked |-> FALSE, by |-> "user", data |-> <<"new">>]
<1>1. /\ p.pc \notin {"exited", "killed"} /\ MakesFile /\ p.outName \notin DOMAIN disk /\ p.outName # NoName
      /\ disk' = With(p.outName, file) /\ owed' = owed \cup {<<"new">>}
      /\ UNCHANGED <<conf, p, inp, out, first>>
  BY DEF Intrudes, Running, fileExists
<1>2. file \in FileType /\ file.data = <<"new">> /\ file.by = "user" /\ file.kind = "regular"
  BY Marks DEF FileType, Kinds
<1> HIDE DEF file
<1>3. /\ DOMAIN p = Fields /\ p.streamNo \in Nat /\ p.pc \in Places /\ InOrder /\ out \in FILE
  BY DEF IInv, TypeOK, Places
<1>4. now > 0
  <2>1. CASE p.pc \in Resting
    <3> DEFINE S == {p.names[i] : i \in DOMAIN p.names}
    <3>1. p.names \in Seq(S) /\ p.todo \in Seq(S) /\ Len(p.todo) <= Len(p.names) /\ now # 0
      BY <1>1, <1>3 DEF InOrder
    <3> HIDE DEF S
    <3>2. Len(p.names) \in Nat /\ Len(p.todo) \in Nat
      BY <3>1
    <3>3. now \in Nat
      BY <3>1, <3>2 DEF now
    <3> QED BY <3>1, <3>3
  <2>2. CASE p.pc \notin Resting
    BY <2>2, Known
  <2> QED BY <2>1, <2>2
<1>5. Same
  BY <1>1 DEF Same, Fair
<1>6. p.pc \notin Working /\ (p.pc = "ready" => ~out.open) /\ ~(p.pc = "fail" /\ p.delete)
  BY <1>1 DEF IInv, Mine
<1>7. Located'
  BY <1>1 DEF IInv, Located, MakesFile
<1>8. Mine'
  BY <1>1, <1>6 DEF Mine
<1>9. Content'
  <2>1. ~ToStdout' /\ MakesFile'
    BY <1>1 DEF MakesFile, FileFor, ToStdout
  <2> QED BY <1>1, <1>6, <2>1 DEF Content, Working, Writing, Level
<1> QED BY <1>1, <1>2, <1>3, <1>4, <1>5, <1>7, <1>8, <1>9, ComeStep

(* The content is the same when the output is. *)
LEMMA SameContent ==
  ASSUME UNCHANGED <<conf, p, inp, out, first>>, MakesFile => disk'[p.outName] = disk[p.outName],
         disk'[Stdout] = disk[Stdout], ToStdout /\ p.pc # "next" => p.outName = Stdout, Content
  PROVE  Content'
<1>1. p' = p /\ inp' = inp /\ out' = out /\ conf' = conf /\ MakesFile' = MakesFile /\ (ToStdout' <=> ToStdout) /\ Same
      /\ (p'.outName = p.outName)
  BY MeantSame DEF Same, ToStdout, Fair
<1>2. Consumed' = Consumed /\ (Garbage' <=> Garbage) /\ Unpacked(Consumed)' = Unpacked(Consumed)
      /\ Meant(inp.all)' = Meant(inp.all) /\ (Piped' <=> Piped)
  BY <1>1, GoalSame DEF Consumed, Garbage, Meant
<1>3. p.pc # "next" => (Counts => Got' = Got)
  BY <1>1 DEF Got, Counts
<1>4. ASSUME p.pc # "next", NEW x, Wrote(x) PROVE Counts' => Got' = Base' \o x
  BY <1>1, <1>3, <1>4, WroteSame
<1>5. p.pc # "next" =>
        /\ Wrote(<<>>) => Wrote(<<>>)'
        /\ Wrote(<<"BZh">> \o Consumed) => Wrote(<<"BZh">> \o Consumed)'
        /\ Wrote(Unpacked(inp.all).data \o Consumed) => Wrote(Unpacked(inp.all).data \o Consumed)'
        /\ Unwound("between") => Unwound("between")'
        /\ Unwound("inside") => Unwound("inside")'
  <2>1. ASSUME p.pc # "next" PROVE Wrote(<<>>) => Wrote(<<>>)'
    BY <1>4, <2>1 DEF Wrote
  <2>2. ASSUME p.pc # "next", Wrote(<<"BZh">> \o Consumed) PROVE Wrote(<<"BZh">> \o Consumed)'
    <3>1. Counts' => Got' = Base' \o (<<"BZh">> \o Consumed)
      BY <1>4, <2>2
    <3> QED BY <1>2, <3>1 DEF Wrote
  <2>3. ASSUME p.pc # "next", Wrote(Unpacked(inp.all).data \o Consumed) PROVE Wrote(Unpacked(inp.all).data \o Consumed)'
    <3>1. Counts' => Got' = Base' \o (Unpacked(inp.all).data \o Consumed)
      BY <1>4, <2>3
    <3> QED BY <1>1, <1>2, <3>1 DEF Wrote
  <2>4. ASSUME p.pc # "next", NEW mode, Unwound(mode) PROVE Unwound(mode)'
    <3>1. Wrote(Unpacked(Consumed).data)
      BY <2>4 DEF Unwound
    <3>2. Counts' => Got' = Base' \o Unpacked(Consumed).data
      BY <1>4, <2>4, <3>1
    <3> QED BY <1>1, <1>2, <2>4, <3>2 DEF Unwound, Wrote
  <2> QED BY <2>1, <2>2, <2>3, <2>4
<1>6. p.pc # "next" => (Done => Done') /\ (Delivered => Delivered')
  <2>1. ASSUME p.pc # "next" PROVE Done => Done'
    BY <1>1, <1>3, <2>1, DoneStays
  <2>2. ASSUME p.pc # "next" PROVE Delivered => Delivered'
    <3>1. (MakesFile => disk'[p.outName].data = disk[p.outName].data) /\ (~MakesFile /\ Counts => Got' = Got)
      BY <1>3, <2>2
    <3> QED BY <1>1, <3>1, DeliveredStays
  <2> QED BY <2>1, <2>2
<1>7. CASE p.pc = "next"
  <2>1. Level
    BY <1>7 DEF Content
  <2>2. ASSUME ToStdout', Well', AllMeant(now)' PROVE (disk[Stdout].data \o out.buf = Due(now))'
    <3>1. ToStdout /\ Well /\ AllMeant(now) /\ Due(now)' = Due(now)
      BY <1>1, <2>2, CountsStay DEF Due, AllMeant, Meant, now
    <3> QED BY <1>1, <2>1, <3>1 DEF Level
  <2>3. Level'
    BY <2>2 DEF Level
  <2> QED BY <1>1, <1>7, <2>3 DEF Content, Early
<1>8. CASE p.pc \in Early
  <2>1. p.pc # "next"
    BY <1>8 DEF Early
  <2> QED BY <1>1, <1>5, <1>8, <2>1 DEF Content, Early
<1>9. CASE p.pc \in {"compress", "write", "closeok", "flushed", "closed", "finish", "unlink", "not bzip2", "discard"}
  BY <1>1, <1>2, <1>5, <1>6, <1>9 DEF Content, Early
<1>10. CASE p.pc \in {"stream", "data", "stream end"}
  BY <1>1, <1>2, <1>5, <1>10 DEF Content, Early
<1>11. CASE p.pc \in {"rewind", "bad magic"}
  BY <1>1, <1>2, <1>5, <1>11 DEF Content, Early
<1>12. CASE p.pc = "copy"
  <2>1. \/ Piped'
        \/ /\ (inp.all = Consumed \o inp.data)' /\ Wrote(Unpacked(inp.all).data \o Consumed)'
           /\ (Meant(inp.all) = Unpacked(inp.all).data \o inp.all)'
    BY <1>1, <1>2, <1>5, <1>12 DEF Content
  <2>2. conf'.op = "unz" /\ Meant(inp.all)' \in Seq(Chunks)
    BY <1>1, <1>2, <1>12 DEF Content
  <2> QED BY <1>1, <1>12, <2>1, <2>2 DEF Content, Early
<1>13. CASE p.pc \notin Working /\ p.pc \notin Early /\ p.pc # "next"
  BY <1>1, <1>13 DEF Content, Working, Writing
<1> QED BY <1>7, <1>8, <1>9, <1>10, <1>11, <1>12, <1>13 DEF Working, Writing

(* The input goes: what it held is no longer owed, or the output was made of it. *)
LEMMA GoneStep ==
  ASSUME IInv, Same, now > 0, DOMAIN p' = Fields, p'.streamNo \in Nat, p'.pc \in Places,
         disk' = Without(p.inName), inp' = inp, out' = out, Located', Mine', Content',
         p'.delete = p.delete, p'.pc = p.pc \/ (p.pc = "unlink" /\ p'.pc = "next"), p.pc # "killed",
         p.pc = "exited" => p'.warned = p.warned,
         owed' \subseteq owed,
         p.unchecked \/ \A data \in owed' :
           p.inName \in DOMAIN disk /\ disk[p.inName].kind = "regular" /\ disk[p.inName].data = data => Kept(data)'
  PROVE  IInv'
<1>1. TypeOK /\ InOrder /\ inp \in FILE /\ out \in FILE
  BY DEF IInv, TypeOK
<1>2. /\ DOMAIN disk' = DOMAIN disk \ {p.inName} /\ disk' \in [DOMAIN disk' -> FileType]
      /\ \A n \in DOMAIN disk' : disk'[n] = disk[n]
  BY <1>1, WithoutIs
<1>3. /\ MakesFile' = MakesFile /\ p'.outName = p.outName /\ p'.inName = p.inName /\ now' = now /\ p'.names = p.names
      /\ (p.unchecked => p'.unchecked)
  BY MeantSame DEF Same, now
<1>4. Spares(p.outName) /\ NoName \notin DOMAIN disk' /\ Stdout \in DOMAIN disk'
  <2>1. p.inName # Stdout
    BY <1>1, OutIsApart
  <2> QED BY <1>1, <1>2, <2>1 DEF Spares, InOrder
<1>5. TypeOK'
  BY <1>1, <1>2 DEF TypeOK, Same, Places
<1>6. InOrder'
  <2>1. now # 0
    <3>1. now > 0
      OBVIOUS
    <3> QED BY ONLY <3>1
  <2> QED BY <1>1, <1>4, <2>1, OrderStays
<1>7. Inputs'
  BY <1>4, InputsStay
<1>8. Made'
  <2>1. ASSUME p.outName \in DOMAIN disk', disk'[p.outName].by = "bzip2"
        PROVE  /\ MakesFile
               /\ p'.unchecked \/ Whole(p.outName)'
                  \/ ((p'.delete \/ p'.pc = "killed") /\ (p'.pc = "exited" => p'.warned))
    <3>1. p.outName \in DOMAIN disk /\ disk'[p.outName] = disk[p.outName]
      BY <1>2, <2>1
    <3>2. /\ MakesFile /\ (p.unchecked \/ Whole(p.outName) \/ (p.delete /\ (p.pc = "exited" => p.warned)))
      BY <2>1, <3>1 DEF IInv, Made
    <3>3. Whole(p.outName) => Whole(p.outName)'
      BY <1>3, <3>1, MeantSame DEF Whole, Same
    <3>4. p'.pc = "exited" => p.pc = "exited" /\ p'.warned = p.warned
      OBVIOUS
    <3> QED BY <1>3, <3>2, <3>3, <3>4
  <2> QED BY <1>4, <2>1, MadeStays
<1>9. KeptAll'
  <2>1. ASSUME NEW data \in owed', ~p.unchecked PROVE Kept(data)'
    <3>1. Kept(data)
      BY <2>1 DEF IInv, KeptAll
    <3>2. CASE \E n \in DOMAIN disk \ {Stdout} : disk[n].by = "user" /\ disk[n].kind = "regular" /\ disk[n].data = data
      <4>1. PICK n \in DOMAIN disk \ {Stdout} : disk[n].by = "user" /\ disk[n].kind = "regular" /\ disk[n].data = data
        BY <3>2
      <4>2. CASE n = p.inName
        BY <2>1, <4>1, <4>2
      <4>3. CASE n # p.inName
        <5>1. n \in DOMAIN disk' \ {Stdout} /\ disk'[n] = disk[n]
          BY <1>2, <4>1, <4>3
        <5> QED BY <4>1, <5>1 DEF Kept
      <4> QED BY <4>2, <4>3
    <3>3. CASE \E j \in 1..now :
                 /\ j = now => p.pc \in {"next", "exited", "killed"} /\ ~p.delete
                 /\ MakesFile /\ OutName(p.names[j]) \in DOMAIN disk /\ disk[OutName(p.names[j])].data = Meant(data)
      <4>1. PICK j \in 1..now :
                 /\ j = now => p.pc \in {"next", "exited", "killed"} /\ ~p.delete
                 /\ MakesFile /\ OutName(p.names[j]) \in DOMAIN disk /\ disk[OutName(p.names[j])].data = Meant(data)
        BY <3>3
      <4>2. OutName(p.names[j]) # p.inName
        BY <1>1, <4>1, OutIsApart
      <4>3. OutName(p.names[j]) \in DOMAIN disk' /\ disk'[OutName(p.names[j])].data = Meant(data)
        BY <1>2, <4>1, <4>2
      <4>4. /\ OutName(p.names[j])' = OutName(p.names[j]) /\ Meant(data)' = Meant(data) /\ MakesFile'
        BY <1>3, <4>1, MeantSame DEF Same, OutName, Meant
      <4>5. j = now => p'.pc \in {"next", "exited", "killed"} /\ ~p'.delete
        BY <4>1
      <4>6. \E i \in 1..now' :
               /\ i = now' => p'.pc \in {"next", "exited", "killed"} /\ ~p'.delete
               /\ MakesFile' /\ OutName(p.names[i])' \in DOMAIN disk' /\ disk'[OutName(p.names[i])'].data = Meant(data)'
        BY <1>3, <4>1, <4>3, <4>4, <4>5
      <4> QED BY <4>6 DEF Kept
    <3> QED BY <3>1, <3>2, <3>3 DEF Kept
  <2> QED BY <1>3, <2>1 DEF KeptAll
<1> QED BY <1>5, <1>6, <1>7, <1>8, <1>9 DEF IInv

(* Another removes the input. *)
LEMMA VanishesOK == ASSUME IInv, Vanishes PROVE IInv'
<1>1. /\ p.pc \notin {"exited", "killed"} /\ p.inName \in DOMAIN disk
      /\ disk' = Without(p.inName) /\ owed' = owed \ {disk[p.inName].data}
      /\ p' = p /\ inp' = inp /\ out' = out /\ UNCHANGED <<conf, first>>
  BY DEF Vanishes, Running, fileExists
<1>2. TypeOK /\ InOrder /\ DOMAIN p = Fields /\ p.streamNo \in Nat /\ p.pc \in Places
  BY DEF IInv, TypeOK, Places
<1>3. now > 0
  <2>1. CASE p.pc \in Resting
    <3> DEFINE S == {p.names[i] : i \in DOMAIN p.names}
    <3>1. p.names \in Seq(S) /\ p.todo \in Seq(S) /\ Len(p.todo) <= Len(p.names) /\ now # 0
      BY <1>1, <1>2 DEF InOrder
    <3> HIDE DEF S
    <3>2. Len(p.names) \in Nat /\ Len(p.todo) \in Nat
      BY <3>1
    <3>3. now \in Nat
      BY <3>1, <3>2 DEF now
    <3> QED BY <3>1, <3>3
  <2>2. CASE p.pc \notin Resting
    BY <2>2, Known
  <2> QED BY <2>1, <2>2
<1>4. Same
  BY <1>1 DEF Same, Fair
<1>5. /\ DOMAIN disk' = DOMAIN disk \ {p.inName} /\ \A n \in DOMAIN disk' : disk'[n] = disk[n]
  BY <1>1, <1>2, WithoutIs
<1>6. (MakesFile => p.outName # p.inName) /\ p.inName # Stdout /\ Stdout \in DOMAIN disk
  BY <1>2, <1>3, OutIsApart DEF InOrder
<1>7. Located'
  BY <1>1 DEF IInv, Located, MakesFile
<1>8. Mine'
  BY <1>1, <1>5, <1>6, MeantSame DEF IInv, Mine
<1>9. Content'
  <2>1. disk'[Stdout] = disk[Stdout]
    BY <1>5, <1>6
  <2>2. ToStdout /\ p.pc # "next" => p.outName = Stdout
    <3>1. p.pc # "next" => p.outName = OutName(p.inName)
      BY <1>1, <1>2, Active
    <3> QED BY <3>1 DEF OutName, OutNameFor, Suffixed, Unsuffixed, ToStdout
  <2>3. CASE MakesFile => p.outName \in DOMAIN disk
    <3>1. MakesFile => disk'[p.outName] = disk[p.outName]
      BY <1>5, <1>6, <2>3
    <3> QED BY <1>1, <2>1, <2>2, <3>1, SameContent DEF IInv
  <2>4. CASE MakesFile /\ p.outName \notin DOMAIN disk
    <3>1. p.pc \notin Working /\ (p.pc = "ready" => ~out.open)
      BY <2>4 DEF IInv, Mine
    <3>2. ~ToStdout' /\ MakesFile'
      BY <1>1, <2>4 DEF MakesFile, FileFor, ToStdout
    <3> QED BY <1>1, <3>1, <3>2 DEF Content, Working, Writing, Level
  <2> QED BY <2>3, <2>4
<1>10. \A data \in owed' : disk[p.inName].data # data
  BY <1>1
<1>11. owed' \subseteq owed
  BY <1>1
<1> QED BY <1>1, <1>2, <1>3, <1>4, <1>7, <1>8, <1>9, <1>10, <1>11, GoneStep

(* The input goes when the output is finished. *)
LEMMA RemoveInputOK == ASSUME IInv, Untested, RemoveInput PROVE IInv'
<1>1. /\ p.pc = "unlink" /\ p.pc \notin Resting /\ p.pc \in After /\ p.pc \in Working /\ MakesFile
      /\ UNCHANGED <<conf, inp, out, owed, first>>
  BY DEF RemoveInput, At, Resting, After, Working, Untested
<1>2. /\ TypeOK /\ InOrder /\ DOMAIN p = Fields /\ inp \in FILE /\ out \in FILE /\ p.streamNo \in Nat
      /\ now > 0 /\ now # 0 /\ now \in Nat /\ now \in DOMAIN p.names
      /\ p.inName = p.names[now] /\ p.outName = OutName(p.inName)
      /\ (inp.open => p.inName \in DOMAIN first /\ inp.all = first[p.inName].data)
  BY <1>1, Known
<1>3. ~inp.open /\ ~p.delete
  BY <1>1 DEF IInv, Located
<1>4. CASE UNCHANGED disk /\ Failing("io")
  <2>1. Moved("fail") /\ "fail" \in Before \cup {"create", "ready", "fail", "killed"} /\ "fail" \notin Before /\ "fail" \notin Early
    BY <1>2, <1>4, GoesOn DEF Before, Early
  <2> QED BY <1>1, <1>2, <1>3, <1>4, <2>1, QuietMoves
<1>5. CASE fileExists(p.inName) /\ disk' = Without(p.inName) /\ GoTo("next")
  <2>1. Moved("next") /\ "next" \in Places /\ "next" \notin Working /\ "next" \notin Writing /\ "next" \notin Reading
        /\ "next" \notin Early
    BY <1>2, <1>5, GoesOn DEF Places, Before, Working, Writing, Reading, Early
  <2>2. Same /\ DOMAIN p' = Fields /\ p'.pc = "next" /\ p'.delete = p.delete /\ p'.streamNo = p.streamNo
        /\ p'.outName = p.outName /\ p'.names = p.names
    BY <1>1, <2>1, MovedIs DEF Same
  <2>3. MakesFile' = MakesFile
    BY <1>1, MeantSame
  <2>4. Located' /\ Mine' /\ Content'
    <3>1. ~ToStdout'
      BY <1>1, <2>3 DEF MakesFile, FileFor, ToStdout
    <3> QED BY <1>1, <1>3, <2>1, <2>2, <2>3, <3>1 DEF Located, Mine, Content, Working, Writing, Level
  <2>5. /\ DOMAIN disk' = DOMAIN disk \ {p.inName} /\ \A n \in DOMAIN disk' : disk'[n] = disk[n]
    BY <1>2, <1>5, WithoutIs
  <2>6. /\ p.outName \in DOMAIN disk /\ p.outName # p.inName
        /\ (p.unchecked \/ Delivered)
    BY <1>1, <1>2, OutIsApart DEF IInv, Mine, Content
  <2>7. ASSUME ~p.unchecked, NEW data \in owed',
               p.inName \in DOMAIN disk, disk[p.inName].kind = "regular", disk[p.inName].data = data
        PROVE  Kept(data)'
    <3>1. now >= now
      BY <1>2
    <3>2. first[p.inName].kind = "regular" /\ first[p.inName].data = data
      BY <1>1, <1>2, <2>7, <3>1 DEF IInv, Inputs
    <3>3. disk[p.outName].data = Meant(data)
      <4>1. Delivered
        BY <2>6, <2>7
      <4> QED BY <1>1, <3>2, <4>1 DEF Delivered, Piped, Passed, Goal
    <3>4. disk'[p.outName].data = Meant(data) /\ p.outName \in DOMAIN disk'
      BY <2>5, <2>6, <3>3
    <3>5. now' = now /\ now \in 1..now
      BY <1>2, <2>2 DEF Same, now
    <3>6. OutName(p.names[now])' = p.outName /\ Meant(data)' = Meant(data)
      BY <1>1, <1>2, <2>2, <3>5, MeantSame DEF OutName, Meant
    <3>7. \E i \in 1..now' :
             /\ i = now' => p'.pc \in {"next", "exited", "killed"} /\ ~p'.delete
             /\ MakesFile' /\ OutName(p.names[i])' \in DOMAIN disk' /\ disk'[OutName(p.names[i])'].data = Meant(data)'
      BY <1>1, <1>3, <2>2, <2>3, <3>4, <3>5, <3>6
    <3> QED BY <3>7 DEF Kept
  <2>8. p'.streamNo \in Nat /\ owed' \subseteq owed
    BY <1>1, <1>2, <2>2
  <2> QED BY <1>1, <1>2, <1>5, <2>1, <2>2, <2>4, <2>7, <2>8, GoneStep
<1> QED BY <1>4, <1>5 DEF RemoveInput

-----------------------------------------------------------------------------
(* The end of the program *)

(* An exit that leaves the output marked for deletion says so. *)
LEMMA ExitsStep ==
  ASSUME IInv, Running, UNCHANGED <<disk, conf, inp, out, owed, first>>, NEW ec, ec # 0, NEW w, Exits(ec, w),
         MakesFile /\ p.delete => w
  PROVE  IInv'
<1>1. /\ DOMAIN p = Fields /\ inp \in FILE /\ out \in FILE /\ p.streamNo \in Nat /\ p.pc \notin {"exited", "killed"}
      /\ (now = 0 => out.buf = <<>>)
  BY DEF IInv, TypeOK, Running, InOrder
<1>2. /\ DOMAIN p' = Fields /\ p'.pc = "exited" /\ p'.streamNo = p.streamNo /\ p'.unchecked = p.unchecked
      /\ p'.names = p.names /\ p'.todo = p.todo /\ p'.inName = p.inName /\ p'.outName = p.outName
      /\ p'.delete = p.delete /\ p'.warned = w /\ (Fair' => Fair)
  BY <1>1, ExitsIs
<1>3. Same
  BY <1>2 DEF Same
<1>4. /\ "exited" \in Places /\ "exited" \in Resting /\ "exited" \notin Before /\ "exited" \notin After /\ "exited" \notin Early
      /\ "exited" \notin Working /\ "exited" \notin Writing /\ "exited" \notin Reading
  BY DEF Places, Resting, Before, After, Early, Working, Writing, Reading
<1>5. Located' /\ Mine' /\ Content'
  BY <1>2, <1>4 DEF Located, Mine, Content, Working, Writing
<1>6. StaysMade
  <2>1. p.outName \in DOMAIN disk /\ disk[p.outName].by = "bzip2" => MakesFile
    BY DEF IInv, Made
  <2>2. CASE p.delete
    BY <1>2, <2>1, <2>2 DEF StaysMade
  <2>3. CASE ~p.delete
    BY <1>1, <1>2, <2>3, WholeIs DEF StaysMade
  <2> QED BY <2>2, <2>3
<1>7. StaysDone
  BY <1>2, <1>4 DEF StaysDone
<1>8. inp'.open => p.inName \in DOMAIN first /\ inp'.all = first[p.inName].data
  BY DEF IInv, Inputs
<1> QED BY <1>1, <1>2, <1>3, <1>4, <1>5, <1>6, <1>7, <1>8, QuietStep

(* cleanUpAndFail, called by an error or by a signal. *)
LEMMA CleanUpStep == ASSUME IInv, Running, NEW ec, ec # 0, cleanUpAndFail(ec) PROVE IInv'
<1>1. UNCHANGED <<conf, inp, out, owed, first>>
  BY DEF cleanUpAndFail
<1>2. CASE MakesFile /\ p.delete /\ disk' = Without(p.outName) /\ Exits(ec, FALSE)
  <2>1. p.pc \notin Resting /\ (p.pc \in Working \/ p.pc = "fail")
    BY <1>2 DEF IInv, Located, TypeOK, Running, Resting, Before
  <2>2. DOMAIN p = Fields /\ p.streamNo \in Nat /\ now > 0
    BY <2>1, Known
  <2>3. p.outName \in DOMAIN disk => disk[p.outName].by = "bzip2"
    BY <1>2, <2>1 DEF IInv, Mine
  <2>4. /\ DOMAIN p' = Fields /\ p'.pc = "exited" /\ p'.streamNo = p.streamNo /\ p'.unchecked = p.unchecked
        /\ p'.names = p.names /\ p'.todo = p.todo /\ p'.inName = p.inName /\ p'.outName = p.outName
        /\ p'.delete = p.delete /\ (Fair' => Fair)
    BY <1>2, <2>2, ExitsIs
  <2>5. Same /\ p'.streamNo \in Nat
    BY <1>1, <2>2, <2>4 DEF Same
  <2> QED BY <1>1, <1>2, <2>1, <2>2, <2>3, <2>4, <2>5, DropStep
<1>3. CASE UNCHANGED disk /\ (Exits(ec, TRUE) \/ Exits(ec, MakesFile /\ p.delete))
  BY <1>1, <1>3, ExitsStep
<1>4. CASE UNCHANGED disk /\ Dies
  BY <1>1, <1>4, KilledOK
<1> QED BY <1>2, <1>3, <1>4 DEF cleanUpAndFail

(* What stdout holds goes out at the end. *)
LEMMA ExitOK == ASSUME IInv, Exit PROVE IInv'
<1>1. /\ p.pc = "next" /\ p.pc \in Before /\ p.todo = <<>> /\ UNCHANGED <<conf, inp, owed, first>>
      /\ IF conf.src = "F2F" \/ out.buf = <<>> THEN Fine /\ UNCHANGED <<disk, out>> ELSE Flushed(<<>>)
  BY DEF Exit, At, Before
<1>2. /\ TypeOK /\ InOrder /\ DOMAIN p = Fields /\ inp \in FILE /\ out \in FILE /\ p.streamNo \in Nat /\ Inputs
      /\ NoName \notin DOMAIN disk /\ Stdout \in DOMAIN disk /\ (now = 0 => out.buf = <<>>)
  BY DEF IInv, TypeOK, InOrder
<1> DEFINE lost == p.unchecked \/ out'.err
           c == [pc |-> "exited", exitValue |-> IF p.failsExist THEN setExit(2) ELSE p.exitValue, unchecked |-> lost]
<1>3. c.pc = "exited" /\ c.unchecked = lost /\ c.exitValue = (IF p.failsExist THEN setExit(2) ELSE p.exitValue)
      /\ DOMAIN c = {"pc", "exitValue", "unchecked"} /\ Step(c)
  BY DEF Exit
<1> HIDE DEF c
<1>4. /\ DOMAIN p' = Fields /\ p'.pc = "exited" /\ p'.streamNo = p.streamNo /\ p'.unchecked = lost
      /\ p'.names = p.names /\ p'.todo = p.todo /\ p'.inName = p.inName /\ p'.outName = p.outName
      /\ p'.delete = p.delete /\ p'.failsExist = p.failsExist
      /\ p'.exitValue = IF p.failsExist THEN setExit(2) ELSE p.exitValue
  BY <1>2, <1>3, StepIs DEF Fields
<1>5. Same /\ MakesFile' = MakesFile
  <2>1. Fair' => Fair
    BY <1>4, ExitValueIs DEF Fair
  <2> QED BY <1>1, <1>4, <2>1, MeantSame DEF Same
<1>6. out' \in FILE /\ Writes /\ (MakesFile => UNCHANGED disk)
  <2>1. CASE UNCHANGED <<disk, out>>
    BY <1>2, <2>1 DEF Writes
  <2>2. CASE Flushed(<<>>) /\ conf.src # "F2F"
    BY <1>2, <1>4, <2>2, EmptySeq, FlushedIs DEF MakesFile, FileFor
  <2> QED BY <1>1, <2>1, <2>2
<1>7. /\ Spares(p.outName) /\ DOMAIN disk' = DOMAIN disk
      /\ \A n \in DOMAIN disk : n # p.outName => disk'[n] = disk[n]
      /\ p.outName \in DOMAIN disk => disk'[p.outName].by = disk[p.outName].by
  BY <1>2, <1>6, WritesIs
<1>8. MakesFile => ~p.delete
  BY <1>1 DEF IInv, Located
<1>9. ~MakesFile => p.outName \in {Stdout, NoName}
  <2> DEFINE S == {p.names[i] : i \in DOMAIN p.names}
  <2>1. p.names \in Seq(S) /\ p.todo \in Seq(S) /\ Len(p.todo) <= Len(p.names)
    BY <1>2 DEF InOrder
  <2> HIDE DEF S
  <2>2. Len(p.names) \in Nat /\ Len(p.todo) \in Nat
    BY <2>1
  <2>3. now \in Nat
    BY <2>1, <2>2 DEF now
  <2>4. CASE now = 0
    BY <1>2, <2>4 DEF InOrder
  <2>5. CASE now > 0
    BY <1>2, <2>5, OutIsApart
  <2> QED BY <2>3, <2>4, <2>5
<1>10. "exited" \in Resting /\ "exited" \notin Before /\ "exited" \notin After /\ "exited" \notin Early
       /\ "exited" \notin Working /\ "exited" \notin Writing /\ "exited" \notin Reading
  BY DEF Resting, Before, After, Early, Working, Writing, Reading
<1>11. TypeOK'
  BY <1>1, <1>2, <1>4, <1>6, <1>7 DEF TypeOK, Spares
<1>12. InOrder'
  <2>1. NoName \notin DOMAIN disk' /\ Stdout \in DOMAIN disk'
    BY <1>2, <1>7
  <2>2. now = 0 => out'.buf = <<>>
    BY <1>1, <1>2
  <2> QED BY <1>2, <1>4, <1>5, <2>1, <2>2, OrderStays
<1>13. Located' /\ Mine' /\ Content'
  BY <1>4, <1>10 DEF Located, Mine, Content, Working, Writing
<1>14. Inputs'
  <2>1. now' = now
    BY <1>4 DEF now
  <2>2. ASSUME NEW j \in DOMAIN p.names, p.names[j] \in DOMAIN disk' PROVE disk'[p.names[j]] = disk[p.names[j]]
    <3>1. p.names[j] # Stdout /\ p.names[j] # NoName /\ p.names[j] \in DOMAIN disk
      BY <1>2, <1>7, <2>2 DEF InOrder, Apart
    <3> QED BY <1>6, <1>7, <1>9, <3>1
  <2> QED BY <1>1, <1>2, <1>4, <1>5, <1>7, <2>1, <2>2 DEF Inputs
<1>15. Made'
  <2>1. ASSUME p.outName \in DOMAIN disk', disk'[p.outName].by = "bzip2"
        PROVE  MakesFile /\ (p'.unchecked \/ Whole(p.outName)')
    <3>1. MakesFile
      BY <1>7, <2>1 DEF IInv, Made
    <3>2. p.unchecked \/ Whole(p.outName)
      BY <1>1, <1>7, <1>8, <2>1, <3>1, WholeIs
    <3>3. Whole(p.outName) => Whole(p.outName)'
      BY <1>1, <1>4, <1>6, <3>1, MeantSame DEF Whole
    <3> QED BY <1>4, <3>1, <3>2, <3>3
  <2> QED BY <1>5, <1>7, <2>1, MadeStays
<1>16. KeptAll'
  <2>1. ASSUME NEW n \in DOMAIN disk \ {Stdout}, disk[n].by = "user" PROVE n \in DOMAIN disk' /\ disk'[n] = disk[n]
    BY <1>2, <1>6, <1>7, <1>9, <2>1
  <2>2. MakesFile => disk' = disk
    BY <1>6
  <2>3. owed' \subseteq owed
    BY <1>1
  <2> QED BY <1>4, <1>5, <1>7, <2>1, <2>2, <2>3, KeptStays
<1> QED BY <1>11, <1>12, <1>13, <1>14, <1>15, <1>16 DEF IInv

(* The next file: the one before it is one of the others. *)
LEMMA NextFileOK == ASSUME IInv, NextFile PROVE IInv'
<1>1. /\ p.pc = "next" /\ p.pc \in Before /\ p.todo # <<>> /\ UNCHANGED <<disk, conf, inp, out, owed, first>>
  BY DEF NextFile, At, Before
<1>2. /\ TypeOK /\ InOrder /\ DOMAIN p = Fields /\ inp \in FILE /\ out \in FILE /\ p.streamNo \in Nat /\ Inputs
      /\ (now = 0 => out.buf = <<>>) /\ Content
      /\ (inp.open => p.inName \in DOMAIN first /\ inp.all = first[p.inName].data)
  BY DEF IInv, TypeOK, Inputs, InOrder
<1>3. ~inp.open /\ (MakesFile => ~p.delete)
  BY <1>1 DEF IInv, Located
<1>4. CASE Step([pc |-> "exited", exitValue |-> setExit(1)])
  <2> DEFINE c == [pc |-> "exited", exitValue |-> setExit(1)]
  <2>1. c.pc = "exited" /\ c.exitValue # 0 /\ DOMAIN c = {"pc", "exitValue"} /\ Step(c)
    BY <1>4, ExitValueIs
  <2> HIDE DEF c
  <2>2. Moved("exited")
    BY <1>2, <2>1, GoesTo DEF Aside
  <2>3. /\ Same /\ DOMAIN p' = Fields /\ p'.pc = "exited" /\ p'.delete = p.delete /\ p'.streamNo = p.streamNo
        /\ p'.unchecked = p.unchecked
    BY <1>1, <2>2, MovedIs
  <2>4. /\ "exited" \in Places /\ "exited" \in Resting /\ "exited" \notin Before /\ "exited" \notin After /\ "exited" \notin Early
        /\ "exited" \notin Working /\ "exited" \notin Writing /\ "exited" \notin Reading
    BY DEF Places, Resting, Before, After, Early, Working, Writing, Reading
  <2>5. Located' /\ Mine' /\ Content'
    BY <2>3, <2>4 DEF Located, Mine, Content, Working, Writing
  <2>6. StaysMade
    <3>1. p.outName \in DOMAIN disk /\ disk[p.outName].by = "bzip2" => MakesFile
      BY DEF IInv, Made
    <3> QED BY <1>1, <1>3, <2>3, <3>1, WholeIs DEF StaysMade
  <2>7. StaysDone
    BY <2>3, <2>4 DEF StaysDone
  <2> QED BY <1>1, <1>2, <2>3, <2>4, <2>5, <2>6, <2>7, QuietStep
<1> DEFINE h == Head(p.todo)
           c == [pc |-> "check", todo |-> Tail(p.todo), inName |-> h, outName |-> OutName(h), delete |-> FALSE, streamNo |-> 0]
<1>5. CASE Step(c)
  <2>1. /\ c.pc = "check" /\ c.todo = Tail(p.todo) /\ c.inName = h /\ c.outName = OutName(h) /\ c.delete = FALSE
        /\ c.streamNo = 0 /\ DOMAIN c = {"pc", "todo", "inName", "outName", "delete", "streamNo"} /\ Step(c)
    BY <1>5
  <2> HIDE DEF c
  <2>2. /\ DOMAIN p' = Fields /\ p'.pc = "check" /\ p'.todo = Tail(p.todo) /\ p'.inName = h /\ p'.outName = OutName(h)
        /\ p'.delete = FALSE /\ p'.streamNo = 0 /\ p'.names = p.names /\ p'.unchecked = p.unchecked
        /\ p'.exitValue = p.exitValue /\ p'.failsExist = p.failsExist
    BY <1>2, <2>1, StepIs DEF Fields
  <2> DEFINE S == {p.names[i] : i \in DOMAIN p.names}
  <2>3. /\ p.names \in Seq(S) /\ p.todo \in Seq(S) /\ Len(p.todo) <= Len(p.names) /\ Apart(conf, p.names)
        /\ NoName \notin DOMAIN disk /\ Stdout \in DOMAIN disk /\ Stdout \in DOMAIN first
        /\ \A i \in 1..Len(p.todo) : p.todo[i] = p.names[now + i]
    BY <1>2 DEF InOrder
  <2> HIDE DEF S
  <2>4. /\ Tail(p.todo) \in Seq(S) /\ Len(Tail(p.todo)) = Len(p.todo) - 1 /\ Len(p.todo) \in Nat /\ Len(p.todo) > 0
        /\ \A i \in 1..Len(Tail(p.todo)) : Tail(p.todo)[i] = p.todo[i + 1]
        /\ h = p.todo[1] /\ Len(p.names) \in Nat
    BY <1>1, <2>3, HeadTailProperties, EmptySeq
  <2>5. now' = now + 1 /\ now \in Nat
    <3>1. now' = Len(p.names) - Len(Tail(p.todo)) /\ now = Len(p.names) - Len(p.todo)
      BY <2>2 DEF now
    <3> DEFINE a == Len(p.names)
               b == Len(p.todo)
    <3>2. a \in Nat /\ b \in Nat /\ b <= a /\ now' = a - (b - 1) /\ now = a - b
      BY <2>3, <2>4, <3>1
    <3> HIDE DEF a, b
    <3> QED BY ONLY <3>2
  <2>6. /\ \A i \in 1..Len(Tail(p.todo)) : Tail(p.todo)[i] = p.names[(now + 1) + i]
        /\ h = p.names[now + 1]
    <3>1. ASSUME NEW i \in 1..Len(Tail(p.todo)) PROVE Tail(p.todo)[i] = p.names[(now + 1) + i]
      <4>1. i + 1 \in 1..Len(p.todo) /\ now + (i + 1) = (now + 1) + i
        BY <2>4, <2>5
      <4> QED BY <2>3, <2>4, <4>1
    <3>2. 1 \in 1..Len(p.todo)
      BY <2>4
    <3> QED BY <2>3, <2>4, <3>1, <3>2
  <2>7. now' # 0 /\ Len(Tail(p.todo)) <= Len(p.names)
    BY <2>3, <2>4, <2>5
  <2>8. \A n : OutName(n)' = OutName(n)
    BY <1>1, MeantSame
  <2>9. InOrder'
    <3>1. {p.names[i] : i \in DOMAIN p.names}' = S
      BY <2>2 DEF S
    <3>2. (p.outName = OutName(p.inName))' /\ p'.inName = p'.names[now']
      BY <1>1, <2>2, <2>5, <2>6 DEF OutName
    <3>3. p'.names \in Seq(S) /\ p'.todo \in Seq(S) /\ Len(p'.todo) <= Len(p'.names) /\ Apart(conf', p'.names) /\ NoName \notin DOMAIN disk'
         /\ Stdout \in DOMAIN disk' /\ Stdout \in DOMAIN first'
      BY <1>1, <2>2, <2>3, <2>4, <2>7
    <3>4. \A i \in 1..Len(p'.todo) : p'.todo[i] = p'.names[now' + i]
      BY <2>2, <2>5, <2>6
    <3> QED BY <2>7, <3>1, <3>2, <3>3, <3>4 DEF InOrder, OutName
  <2>10. /\ "check" \in Before /\ "check" \notin Working /\ "check" \notin Writing /\ "check" \notin Reading
    BY DEF Before, Working, Writing, Reading
  <2>11. TypeOK'
    BY <1>1, <1>2, <2>2, <2>10 DEF TypeOK
  <2>12. Located' /\ Mine'
    BY <1>1, <1>3, <2>2, <2>10 DEF Located, Mine, Working, Writing
  <2>13. MakesFile' = MakesFile
    BY <1>1, MeantSame
  <2>17. Content'
    <3>1. ASSUME ~MakesFile, Counts' PROVE Got' = Base' \o <<>>
      <4>1. ToStdout' /\ Well' /\ AllMeant(now - 1)' /\ now' - 1 = now
        BY <2>5, <2>13, <3>1 DEF Counts
      <4>2. ToStdout
        BY <1>1, <4>1 DEF ToStdout
      <4>3. Well
        BY <1>1, <2>2, <4>1 DEF Well, Fair, Passed
      <4>4. AllMeant(now)
        BY <1>1, <2>2, <4>1 DEF AllMeant, Meant
      <4>5. Base' = Due(now)
        BY <1>1, <2>2, <2>13, <3>1, <4>1 DEF Base, Due, Meant
      <4>6. disk[Stdout].data \o out.buf = Due(now)
        BY <1>1, <1>2, <4>2, <4>3, <4>4 DEF Content, Level
      <4>7. p'.outName = Stdout
        BY <2>2, <4>2 DEF OutName, OutNameFor, Suffixed, Unsuffixed, ToStdout
      <4>8. Due(now) \in Seq(Chunks)
        BY <1>2, <2>3, <2>5, <4>4, DueIs
      <4>9. Due(now) \o <<>> = Due(now)
        BY <4>8, ConcatEmptySeq
      <4> QED BY <1>1, <4>5, <4>6, <4>7, <4>9 DEF Got
    <3>2. ~MakesFile => Wrote(<<>>)'
      BY <3>1 DEF Wrote
    <3> QED BY <2>2, <2>10, <2>13, <3>2 DEF Content, Working, Writing
  <2>14. Inputs'
    <3>1. \A j \in DOMAIN p.names : j >= now + 1 => j >= now
      BY <2>3, <2>5
    <3> QED BY <1>1, <1>2, <1>3, <2>2, <2>5, <2>13, <3>1 DEF Inputs
  <2>15. Made'
    <3>1. ASSUME NEW n \in DOMAIN disk', disk'[n].by = "bzip2" PROVE MakesFile' /\ (p'.unchecked \/ Whole(n)')
      <4>1. MakesFile /\ (p.unchecked \/ Whole(n))
        BY <1>1, <1>3, <3>1 DEF IInv, Made
      <4>2. Whole(n) => Whole(n)'
        BY <1>1, MeantSame DEF Whole
      <4> QED BY <2>2, <2>13, <4>1, <4>2
    <3> QED BY <3>1 DEF Made
  <2>16. KeptAll'
    <3>1. ASSUME NEW data, Kept(data) PROVE Kept(data)'
      <4>1. CASE \E n \in DOMAIN disk \ {Stdout} : disk[n].by = "user" /\ disk[n].kind = "regular" /\ disk[n].data = data
        BY <1>1, <4>1 DEF Kept
      <4>2. CASE \E j \in 1..now : MakesFile /\ OutName(p.names[j]) \in DOMAIN disk /\ disk[OutName(p.names[j])].data = Meant(data)
        <5>1. PICK j \in 1..now : MakesFile /\ OutName(p.names[j]) \in DOMAIN disk /\ disk[OutName(p.names[j])].data = Meant(data)
          BY <4>2
        <5>2. j \in 1..now' /\ j # now'
          BY <2>5
        <5>3. OutName(p.names[j])' = OutName(p.names[j]) /\ Meant(data)' = Meant(data)
          BY <1>1, <2>2, <2>8, MeantSame DEF OutName, Meant
        <5>4. \E i \in 1..now' :
                 /\ i = now' => p'.pc \in {"next", "exited", "killed"} /\ ~p'.delete
                 /\ MakesFile' /\ OutName(p.names[i])' \in DOMAIN disk' /\ disk'[OutName(p.names[i])'].data = Meant(data)'
          BY <1>1, <2>13, <5>1, <5>2, <5>3
        <5> QED BY <5>4 DEF Kept
      <4> QED BY <3>1, <4>1, <4>2 DEF Kept
    <3> QED BY <1>1, <2>2, <3>1 DEF IInv, KeptAll
  <2> QED BY <2>9, <2>11, <2>12, <2>14, <2>15, <2>16, <2>17 DEF IInv
<1> QED BY <1>4, <1>5 DEF NextFile, copyFileName

-----------------------------------------------------------------------------
(* The beginning *)

(* The names that the command is called with. *)
LEMMA NamesAreSeq ==
  ASSUME NEW args \in Seq(Seq(STRING))
  PROVE  FileNames(args) \in Seq({FileNames(args)[i] : i \in DOMAIN FileNames(args)})
<1> DEFINE N == {i \in DOMAIN args : args[i] # DashDash /\ (Ended(args, i) \/ ~(IsShort(args[i]) \/ IsLong(args[i])))}
           n == Cardinality(N)
           f == FileNames(args)
<1>1. n \in Nat
  <2>1. DOMAIN args = 1..Len(args) /\ Len(args) \in Nat
    OBVIOUS
  <2>2. IsFiniteSet(1..Len(args))
    BY <2>1, FS_Interval
  <2>3. N \subseteq 1..Len(args)
    BY <2>1
  <2> HIDE DEF N
  <2>4. IsFiniteSet(N)
    BY <2>2, <2>3, FS_Subset
  <2> QED BY <2>4, FS_CardinalityType
<1>2. f = [k \in 1..n |-> args[CHOOSE i \in N : Cardinality({j \in N : j <= i}) = k]]
  BY DEF FileNames
<1> HIDE DEF N, n, f
<1>3. DOMAIN f = 1..n /\ f = [k \in 1..n |-> f[k]]
  BY <1>2
<1> DEFINE T == {f[i] : i \in DOMAIN f}
<1>4. f \in [1..n -> T]
  BY <1>3
<1> HIDE DEF T
<1>5. Seq(T) = UNION {[1..m -> T] : m \in Nat}
  BY SeqDef
<1>6. f \in Seq(T)
  BY <1>1, <1>4, <1>5
<1> QED BY <1>6 DEF f, T

(* However the command is called. *)
LEMMA Starts == Init => IInv /\ Untested
<1> SUFFICES ASSUME Init PROVE IInv /\ Untested
  OBVIOUS
<1>1. PICK s \in Scenarios :
    /\ disk = s.disk /\ first = s.disk
    /\ conf = Options(s.prog, argList(s))
    /\ p = [pc |-> IF Stops(conf) THEN "exited" ELSE "next",
            todo |-> IF conf.src = "I2O" THEN <<Stdin>> ELSE FileNames(argList(s)),
            names |-> IF conf.src = "I2O" THEN <<Stdin>> ELSE FileNames(argList(s)),
            inName |-> NoName, outName |-> NoName, delete |-> FALSE, handle |-> FALSE, streamNo |-> 0,
            failsExist |-> FALSE, exitValue |-> IF conf.stop > 0 THEN 1 ELSE 0, ec |-> 0,
            unchecked |-> FALSE, warned |-> FALSE]
    /\ inp = Closed /\ out = Opened(<<>>)
    /\ owed = {s.disk[n].data : n \in {n \in DOMAIN s.disk \ {Stdout} : s.disk[n].kind = "regular" /\ ~s.disk[n].linked}}
  BY DEF Init
<1>2. /\ s.env \in Seq(Seq(STRING)) /\ s.argv \in Seq(Seq(STRING))
      /\ disk \in [DOMAIN disk -> FileType] /\ NoName \notin DOMAIN disk /\ Stdout \in DOMAIN disk
      /\ \A n \in DOMAIN disk : disk[n].by = "user"
      /\ Apart(conf, FileNames(argList(s)))
  BY <1>1, CallAssumption
<1>3. /\ DOMAIN p = Fields /\ p.pc \in {"exited", "next"} /\ p.delete = FALSE /\ p.streamNo = 0
      /\ p.inName = NoName /\ p.outName = NoName /\ p.todo = p.names
      /\ p.names = IF conf.src = "I2O" THEN <<Stdin>> ELSE FileNames(argList(s))
  BY <1>1 DEF Fields
<1>4. p.pc \notin Working /\ p.pc \notin Reading /\ p.pc \notin Writing /\ p.pc \notin After /\ p.pc \notin Early
      /\ p.pc \notin {"output", "links", "create", "ready", "fail", "killed", "compress", "write", "flushed", "closed", "finish", "unlink"}
      /\ p.pc \in Places
  BY <1>3 DEF Working, Reading, Writing, After, Early, Places, Before
<1>5. inp \in FILE /\ out \in FILE /\ ~inp.open
  <2>1. <<>> \in Seq(Chunks)
    BY EmptySeq
  <2> QED BY <1>1, <2>1 DEF Closed, Opened, FILE
<1>6. TypeOK
  BY <1>1, <1>2, <1>3, <1>4, <1>5 DEF TypeOK, Places
<1>7. InOrder
  <2> DEFINE S == {p.names[i] : i \in DOMAIN p.names}
  <2>1. p.names \in Seq(S)
    <3>1. CASE conf.src = "I2O"
      <4>1. p.names = <<Stdin>>
        BY <1>3, <3>1
      <4>2. DOMAIN p.names = {1} /\ p.names[1] = Stdin
        BY <4>1
      <4>3. Stdin \in S
        BY <4>2
      <4> HIDE DEF S
      <4> QED BY <4>1, <4>3
    <3>2. CASE conf.src # "I2O"
      <4>1. argList(s) \in Seq(Seq(STRING))
        BY <1>2, ConcatProperties DEF argList
      <4> QED BY <1>3, <3>2, <4>1, NamesAreSeq
    <3> QED BY <3>1, <3>2
  <2>2. Apart(conf, p.names)
    <3>1. CASE conf.src = "I2O"
      <4>1. p.names = <<Stdin>> /\ Stdin # Stdout
        BY <1>3, <3>1 DEF Stdin, Stdout
      <4> QED BY <3>1, <4>1 DEF Apart, FileFor
    <3> QED BY <1>2, <1>3, <3>1
  <2>3. p.todo = p.names /\ Len(p.names) \in Nat
    BY <1>3, <2>1
  <2>4. now = 0 /\ Len(p.todo) <= Len(p.names) /\ \A i \in 1..Len(p.todo) : p.todo[i] = p.names[now + i]
    <3>1. now = 0
      BY <2>3 DEF now
    <3> QED BY <2>3, <3>1
  <2>5. out.buf = <<>> /\ Stdout \in DOMAIN first
    BY <1>1, <1>2 DEF Opened
  <2> QED BY <1>2, <1>3, <2>1, <2>2, <2>3, <2>4, <2>5 DEF InOrder
<1>11. now = 0
  BY <1>3, <1>7 DEF now, InOrder
<1>8. Located /\ Mine /\ Content /\ Untested
  <2>1. disk[Stdout].data \o out.buf = Due(now)
    <3>1. Due(0) = first[Stdout].data
      <4>1. AllMeant(0) /\ 0 \in Nat
        BY DEF AllMeant
      <4> QED BY <1>6, <1>7, <4>1, DueIs DEF InOrder
    <3>2. out.buf = <<>> /\ disk[Stdout].data \in Seq(Chunks) /\ first[Stdout] = disk[Stdout]
      BY <1>1, <1>2 DEF Opened, FileType
    <3>3. disk[Stdout].data \o <<>> = disk[Stdout].data
      BY <3>2, ConcatEmptySeq
    <3> QED BY <1>11, <3>1, <3>2, <3>3
  <2>2. Content
    BY <1>4, <2>1 DEF Content, Level, Working, Writing
  <2> QED BY <1>3, <1>4, <1>5, <2>2 DEF Located, Mine, Untested, Working, Writing
<1>9. Inputs /\ Made
  BY <1>1, <1>2, <1>5 DEF Inputs, Made
<1>10. KeptAll
  <2>1. ASSUME NEW data \in owed PROVE \E n \in DOMAIN disk \ {Stdout} : disk[n].by = "user" /\ disk[n].kind = "regular" /\ disk[n].data = data
    <3>1. PICK n \in DOMAIN disk \ {Stdout} : disk[n].kind = "regular" /\ disk[n].data = data
      BY <1>1, <2>1
    <3> QED BY <1>2, <3>1
  <2> QED BY <2>1 DEF KeptAll, Kept
<1> QED BY <1>6, <1>7, <1>8, <1>9, <1>10 DEF IInv

-----------------------------------------------------------------------------
(* The invariant is kept *)

(* What a test does not come to. *)
NotForTests == {"compress", "write", "flushed", "closed", "finish", "unlink"}

(* Where a step goes. *)
LEMMA PcIs ==
  ASSUME DOMAIN p = Fields
  PROVE  /\ \A pc : GoTo(pc) => p'.pc = pc
         /\ \A v \in {1, 2} : Skipped(v) => p'.pc = "next"
         /\ \A error : Failing(error) => p'.pc = "fail"
         /\ FailingWithout => p'.pc = "fail"
         /\ Dies => p'.pc = "killed"
         /\ TestFails => p'.pc = "next"
         /\ p' = p => p'.pc = p.pc
  BY GoesOn DEF Moved

(* A test goes its own way. *)
LEMMA UntestedStays == ASSUME IInv, Untested, Next PROVE Untested'
<1>1. DOMAIN p = Fields /\ "pc" \in DOMAIN p
  BY DEF IInv, TypeOK, Fields
<1>2. UNCHANGED <<conf, first>>
  BY DEF Next, NextFile, Check, CheckOutput, CheckLinks, OpenInput, CreateOutput, NotReady, Ready, CompressOpen,
         CompressChunk, CompressEnd, CloseOutput, CloseInput, OpenStream, ReadChunk, StreamEnd, Rewind, CopyChunk,
         CloseOk, BadMagic, GiveUp, Discard, Finish, RemoveInput, Exit, Fail, mySignalCatcher, cleanUpAndFail,
         Killed, Intrudes, Vanishes, Over, vars
<1>3. MakesFile' = MakesFile /\ conf' = conf
  BY <1>2, MeantSame
<1>4. ASSUME p'.pc \notin NotForTests PROVE Untested'
  BY <1>4 DEF Untested, NotForTests
<1>5. CASE NextFile
  BY <1>1, <1>4, <1>5 DEF NextFile, copyFileName, Step, NotForTests
<1>6. CASE Check \/ CheckOutput \/ CheckLinks
  BY <1>1, <1>4, <1>6, PcIs DEF Check, CheckOutput, CheckLinks, saveInputFileMetaInfo, NotForTests
<1>7. CASE OpenInput \/ CreateOutput \/ NotReady
  BY <1>1, <1>4, <1>7, PcIs DEF OpenInput, CreateOutput, NotReady, NotForTests
<1>8. CASE Ready
  <2>1. p'.pc = IF conf.op = "z" THEN "compress" ELSE "stream"
    BY <1>1, <1>8 DEF Ready, ReadyFor, Step
  <2> QED BY <1>3, <2>1 DEF Untested
<1>9. CASE CompressOpen \/ CompressChunk \/ CompressEnd
  <2>1. p'.pc \in {"fail", "write", "flushed"} /\ p.pc \in {"compress", "write"}
    BY <1>1, <1>9, PcIs DEF CompressOpen, CompressChunk, CompressEnd, Fails, At
  <2> QED BY <1>3, <2>1 DEF Untested
<1>10. CASE CloseOutput
  <2>1. p'.pc \in {"fail", "closed"} /\ p.pc = "flushed"
    BY <1>1, <1>10, PcIs DEF CloseOutput, At
  <2> QED BY <1>3, <2>1 DEF Untested
<1>11. CASE CloseInput
  <2>1. Step([pc |-> "finish", handle |-> FALSE]) => p'.pc = "finish"
    BY <1>1 DEF Step
  <2>2. p'.pc \in {"fail", "finish"} /\ p.pc = "closed"
    BY <1>1, <1>11, <2>1, PcIs DEF CloseInput, At
  <2> QED BY <1>3, <2>2 DEF Untested
<1>12. CASE OpenStream
  <2>1. \A to : Step([streamNo |-> p.streamNo + 1, pc |-> to]) => p'.pc = to
    BY <1>1 DEF Step
  <2>2. p'.pc \in {"fail", "next", "data", "rewind", "bad magic"}
    BY <1>1, <1>12, <2>1, PcIs DEF OpenStream, LibraryFails, Fails, FoundBad
  <2> QED BY <1>4, <2>2 DEF NotForTests
<1>13. CASE ReadChunk
  <2>1. p'.pc \in {"fail", "next", "stream end", "data"}
    BY <1>1, <1>13, PcIs DEF ReadChunk, LibraryFails, Fails, FoundBad, At
  <2> QED BY <1>4, <2>1 DEF NotForTests
<1>14. CASE StreamEnd \/ Rewind \/ CopyChunk
  <2>1. p'.pc \in {"closeok", "stream", "copy", "fail"}
    BY <1>1, <1>14, PcIs DEF StreamEnd, Rewind, CopyChunk, At
  <2> QED BY <1>4, <2>1 DEF NotForTests
<1>15. CASE CloseOk
  <2>1. p'.pc \in {"fail", "next"} \/ (p'.pc = "flushed" /\ conf.op # "test")
    BY <1>1, <1>15, PcIs DEF CloseOk, Fails
  <2> QED BY <1>3, <2>1 DEF Untested
<1>16. CASE BadMagic
  <2>1. conf.op = "test" => p'.pc = "next"
    BY <1>1, <1>16 DEF BadMagic, Step
  <2>2. conf.op # "test" => p'.pc \in {"not bzip2", "closed"}
    BY <1>1, <1>16 DEF BadMagic, Step
  <2> QED BY <1>3, <2>1, <2>2 DEF Untested
<1>17. CASE GiveUp \/ Discard
  BY <1>1, <1>4, <1>17, PcIs DEF GiveUp, Discard, Step, NotForTests
<1>18. CASE Finish
  <2>1. p.pc = "finish" /\ conf.op # "test"
    BY <1>18 DEF Finish, At, Untested
  <2>2. \A to : Step([pc |-> to, delete |-> FALSE]) => p'.pc = to
    BY <1>1 DEF Step
  <2>3. p'.pc \in {"fail", "next"} \/ (p'.pc = "unlink" /\ conf.src = "F2F")
    BY <1>1, <1>18, <2>2, PcIs DEF Finish, RemovesInput
  <2>4. conf.src = "F2F" => MakesFile
    BY <2>1 DEF MakesFile, FileFor
  <2> QED BY <1>3, <2>3, <2>4 DEF Untested
<1>19. CASE RemoveInput
  BY <1>1, <1>4, <1>19, PcIs DEF RemoveInput, NotForTests
<1>20. CASE Exit \/ Fail \/ mySignalCatcher \/ Killed
  <2>1. p'.pc \in {"exited", "killed"}
    BY <1>1, <1>20, PcIs DEF Exit, Fail, mySignalCatcher, cleanUpAndFail, Exits, Killed, Step
  <2> QED BY <1>4, <2>1 DEF NotForTests
<1>21. CASE Intrudes \/ Vanishes \/ Over
  BY <1>3, <1>21 DEF Intrudes, Vanishes, Over, vars, Untested
<1> QED BY <1>5, <1>6, <1>7, <1>8, <1>9, <1>10, <1>11, <1>12, <1>13, <1>14, <1>15, <1>16, <1>17, <1>18, <1>19,
           <1>20, <1>21 DEF Next

(* A step in which nothing happens. *)
LEMMA StutterOK == ASSUME IInv, UNCHANGED vars PROVE IInv'
<1>1. /\ p' = p /\ inp' = inp /\ out' = out /\ disk' = disk /\ owed' = owed
      /\ UNCHANGED <<conf, p, inp, out, first>>
  BY DEF vars
<1>2. MakesFile' = MakesFile /\ now' = now /\ \A d : (Meant(d)' = Meant(d) /\ (Passed(d)' <=> Passed(d)) /\ OutName(d)' = OutName(d))
  BY <1>1, MeantSame DEF now
<1>3. TypeOK' /\ Located' /\ Mine' /\ Inputs'
  BY <1>1, <1>2 DEF IInv, TypeOK, Located, Mine, Inputs
<1>4. InOrder'
  BY <1>1, <1>2 DEF IInv, InOrder, OutName
<1>5. Content'
  <2>1. CASE p.pc \in {"exited", "killed"}
    BY <1>1, <2>1 DEF Content, Early
  <2>2. CASE p.pc \notin {"exited", "killed"}
    <3>1. p.pc # "next" => p.outName = OutName(p.inName)
      BY <2>2, Active DEF IInv
    <3>2. ToStdout /\ p.pc # "next" => p.outName = Stdout
      BY <3>1 DEF OutName, OutNameFor, Suffixed, Unsuffixed, ToStdout
    <3> QED BY <1>1, <3>2, SameContent DEF IInv
  <2> QED BY <2>1, <2>2
<1>6. Made'
  BY <1>1, <1>2 DEF IInv, Made, Whole
<1>7. KeptAll'
  <2>1. Same
    BY <1>1 DEF Same, Fair
  <2> QED BY <1>1, <2>1, KeptStays
<1> QED BY <1>2, <1>3, <1>4, <1>5, <1>6, <1>7 DEF IInv

(* Every step keeps the invariant. *)
LEMMA StepOK == ASSUME IInv, Untested, Codes, Next PROVE IInv'
<1>1. CASE NextFile \/ Check \/ CheckOutput \/ CheckLinks \/ OpenInput \/ CreateOutput \/ NotReady \/ Ready
  BY <1>1, NextFileOK, CheckOK, CheckOutputOK, CheckLinksOK, OpenInputOK, CreateOutputOK, NotReadyOK, ReadyOK
<1>2. CASE CompressOpen \/ CompressChunk \/ CompressEnd \/ CloseOutput \/ CloseInput
  BY <1>2, CompressOpenOK, CompressChunkOK, CompressEndOK, CloseOutputOK, CloseInputOK
<1>3. CASE OpenStream \/ ReadChunk \/ StreamEnd \/ Rewind \/ CopyChunk \/ CloseOk \/ BadMagic \/ GiveUp \/ Discard
  BY <1>3, OpenStreamOK, ReadChunkOK, StreamEndOK, RewindOK, CopyChunkOK, CloseOkOK, BadMagicOK, GiveUpOK, DiscardOK
<1>4. CASE Finish \/ RemoveInput \/ Exit
  BY <1>4, FinishOK, RemoveInputOK, ExitOK
<1>5. CASE Fail \/ mySignalCatcher
  <2>1. Running /\ (Fail => p.ec # 0)
    BY <1>5 DEF Fail, At, mySignalCatcher, Running, Codes
  <2> QED BY <1>5, <2>1, CleanUpStep DEF Fail, mySignalCatcher
<1>6. CASE Killed
  BY <1>6, KilledOK DEF Killed
<1>7. CASE Intrudes \/ Vanishes
  BY <1>7, IntrudesOK, VanishesOK
<1>8. CASE Over
  BY <1>8, StutterOK DEF Over
<1> QED BY <1>1, <1>2, <1>3, <1>4, <1>5, <1>6, <1>7, <1>8 DEF Next

-----------------------------------------------------------------------------
(* What the exit value tells *)

(* A step, other than that to the next file, is about the same file, and takes back nothing that the *)
(* exit value will tell.                                                                              *)
Steady == Same /\ Codes'

(* A step that changes some of the fields. *)
LEMMA Turns ==
  ASSUME Codes, DOMAIN p = Fields, UNCHANGED <<conf, first>>, NEW change, Step(change),
         DOMAIN change \subseteq Fields \ {"names", "todo", "inName", "outName"},
         "exitValue" \in DOMAIN change => change.exitValue \in Nat /\ (change.exitValue = 0 => p.exitValue = 0),
         "failsExist" \in DOMAIN change => (p.failsExist => change.failsExist),
         "unchecked" \in DOMAIN change => (p.unchecked => change.unchecked),
         "ec" \in DOMAIN change => change.ec \in Nat /\ change.ec > 0,
         "pc" \in DOMAIN change => change.pc # "fail" \/ "ec" \in DOMAIN change
  PROVE  Steady
<1>1. \A f \in Fields : p'[f] = IF f \in DOMAIN change THEN change[f] ELSE p[f]
  BY StepIs
<1>2. p'.names = p.names /\ p'.todo = p.todo /\ p'.inName = p.inName /\ p'.outName = p.outName
  BY <1>1 DEF Fields
<1>3. p'.exitValue \in Nat /\ (p'.exitValue = 0 => p.exitValue = 0)
  BY <1>1 DEF Fields, Codes
<1>4. (p.failsExist => p'.failsExist) /\ (p.unchecked => p'.unchecked)
  BY <1>1 DEF Fields
<1>5. p'.ec \in Nat /\ (p'.pc = "fail" => p'.ec > 0)
  BY <1>1 DEF Fields, Codes
<1> QED BY <1>2, <1>3, <1>4, <1>5 DEF Steady, Same, Fair, Codes

(* The exit value is a number. *)
LEMMA ExitValueNat == ASSUME Codes, NEW v \in Nat, v # 0 PROVE setExit(v) \in Nat /\ setExit(v) # 0
<1>1. p.exitValue \in Nat
  BY DEF Codes
<1> QED BY <1>1 DEF setExit

(* The steps that only go on, skip a file, fail or end. *)
LEMMA GoesSteadily ==
  ASSUME Codes, DOMAIN p = Fields, UNCHANGED <<conf, first>>
  PROVE  /\ \A pc : pc # "fail" /\ GoTo(pc) => Steady
         /\ \A v \in {1, 2} : Skipped(v) => Steady
         /\ \A error \in {"memory", "io", "eof", "data"} : Failing(error) => Steady
         /\ FailingWithout => Steady
         /\ TestFails => Steady
         /\ p' = p => Steady
<1>1. ASSUME NEW pc, pc # "fail", GoTo(pc) PROVE Steady
  <2> DEFINE c == [pc |-> pc]
  <2>1. c.pc # "fail" /\ DOMAIN c = {"pc"} /\ Step(c)
    BY <1>1 DEF GoTo
  <2> HIDE DEF c
  <2> QED BY <2>1, Turns DEF Fields
<1>2. ASSUME NEW v \in {1, 2}, Skipped(v) PROVE Steady
  <2> DEFINE c == [pc |-> "next", exitValue |-> setExit(v)]
  <2>1. c.pc = "next" /\ c.exitValue = setExit(v) /\ DOMAIN c = {"pc", "exitValue"} /\ Step(c)
    BY <1>2 DEF Skipped
  <2> HIDE DEF c
  <2>2. c.exitValue \in Nat /\ c.exitValue # 0
    BY <2>1, ExitValueNat
  <2> QED BY <2>1, <2>2, Turns DEF Fields
<1>3. ASSUME NEW error \in {"memory", "io", "eof", "data"}, Failing(error) PROVE Steady
  <2> DEFINE c == [pc |-> "fail", ec |-> Code[error]]
  <2>1. DOMAIN c = {"pc", "ec"} /\ Step(c) /\ c.ec \in {1, 2}
    BY <1>3 DEF Failing, Code
  <2> HIDE DEF c
  <2> QED BY <2>1, Turns DEF Fields
<1>4. ASSUME FailingWithout PROVE Steady
  <2> DEFINE c == [pc |-> "fail", ec |-> Code.io, handle |-> FALSE]
  <2>1. DOMAIN c = {"pc", "ec", "handle"} /\ Step(c) /\ c.ec = 1
    BY <1>4 DEF FailingWithout, Code
  <2> HIDE DEF c
  <2> QED BY <2>1, Turns DEF Fields
<1>5. ASSUME TestFails PROVE Steady
  <2> DEFINE c == [pc |-> "next", failsExist |-> TRUE]
  <2>1. c.pc = "next" /\ c.failsExist = TRUE /\ DOMAIN c = {"pc", "failsExist"} /\ Step(c)
    BY <1>5 DEF TestFails
  <2> HIDE DEF c
  <2> QED BY <2>1, Turns DEF Fields
<1>6. ASSUME p' = p PROVE Steady
  BY <1>6 DEF Steady, Same, Fair, Codes
<1> QED BY <1>1, <1>2, <1>3, <1>4, <1>5, <1>6

(* The end: the exit value is that of the error. *)
LEMMA ExitsSteadily ==
  ASSUME Codes, DOMAIN p = Fields, NEW ec \in Nat, ec # 0, cleanUpAndFail(ec)
  PROVE  Steady /\ (p'.pc = "exited" => p'.exitValue # 0) /\ p'.pc \in {"exited", "killed"}
<1>1. UNCHANGED <<conf, first>>
  BY DEF cleanUpAndFail
<1>2. ASSUME NEW w, Exits(ec, w) PROVE Steady /\ p'.exitValue # 0 /\ p'.pc = "exited"
  <2> DEFINE c == [pc |-> "exited", exitValue |-> setExit(ec), warned |-> w]
  <2>1. c.pc = "exited" /\ c.exitValue = setExit(ec) /\ DOMAIN c = {"pc", "exitValue", "warned"} /\ Step(c)
    BY <1>2 DEF Exits
  <2> HIDE DEF c
  <2>2. c.exitValue \in Nat /\ c.exitValue # 0
    BY <2>1, ExitValueNat
  <2> QED BY <1>1, <2>1, <2>2, Turns, StepIs DEF Fields
<1>3. Dies => Steady /\ p'.pc = "killed"
  BY <1>1, GoesSteadily, GoesOn DEF Dies, Moved
<1> QED BY <1>2, <1>3 DEF cleanUpAndFail

(* Every step but that to the next file is steady. *)
LEMMA Steadily == ASSUME IInv, Codes, Next, ~NextFile PROVE Steady
<1>1. DOMAIN p = Fields
  BY DEF IInv, TypeOK
<1>2. UNCHANGED <<conf, first>>
  BY DEF Next, NextFile, Check, CheckOutput, CheckLinks, OpenInput, CreateOutput, NotReady, Ready, CompressOpen,
         CompressChunk, CompressEnd, CloseOutput, CloseInput, OpenStream, ReadChunk, StreamEnd, Rewind, CopyChunk,
         CloseOk, BadMagic, GiveUp, Discard, Finish, RemoveInput, Exit, Fail, mySignalCatcher, cleanUpAndFail,
         Killed, Intrudes, Vanishes, Over, vars
<1>3. /\ \A pc : pc # "fail" /\ GoTo(pc) => Steady
      /\ \A v \in {1, 2} : Skipped(v) => Steady
      /\ \A error \in {"memory", "io", "eof", "data"} : Failing(error) => Steady
      /\ FailingWithout => Steady
      /\ TestFails => Steady
      /\ p' = p => Steady
  BY <1>1, <1>2, GoesSteadily
<1>6. CASE Check \/ CheckOutput \/ CheckLinks
  BY <1>3, <1>6 DEF Check, CheckOutput, CheckLinks, saveInputFileMetaInfo
<1>7. CASE OpenInput \/ CreateOutput \/ NotReady
  BY <1>3, <1>7 DEF OpenInput, CreateOutput, NotReady
<1>8. CASE Ready
  <2> DEFINE c == ReadyFor(conf.op)
  <2>1. DOMAIN c = {"pc", "handle", "delete"} /\ c.pc # "fail" /\ Step(c)
    BY <1>8 DEF Ready, ReadyFor
  <2> HIDE DEF c
  <2> QED BY <1>1, <1>2, <2>1, Turns DEF Fields
<1>9. CASE CompressOpen \/ CompressChunk \/ CompressEnd
  BY <1>3, <1>9 DEF CompressOpen, CompressChunk, CompressEnd, Fails
<1>10. CASE CloseOutput
  BY <1>3, <1>10 DEF CloseOutput
<1>11. CASE CloseInput
  <2> DEFINE c == [pc |-> "finish", handle |-> FALSE]
  <2>1. DOMAIN c = {"pc", "handle"} /\ c.pc # "fail"
    OBVIOUS
  <2>2. FailingWithout \/ Step(c)
    BY <1>11 DEF CloseInput
  <2> HIDE DEF c
  <2>3. Step(c) => Steady
    BY <1>1, <1>2, <2>1, Turns DEF Fields
  <2> QED BY <1>3, <2>2, <2>3
<1>12. CASE OpenStream
  <2>1. ASSUME NEW to, to # "fail", Step([streamNo |-> p.streamNo + 1, pc |-> to]) PROVE Steady
    <3> DEFINE c == [streamNo |-> p.streamNo + 1, pc |-> to]
    <3>1. DOMAIN c = {"streamNo", "pc"} /\ c.pc # "fail" /\ Step(c)
      BY <2>1
    <3> HIDE DEF c
    <3> QED BY <1>1, <1>2, <3>1, Turns DEF Fields
  <2> QED BY <1>3, <1>12, <2>1 DEF OpenStream, LibraryFails, Fails, FoundBad
<1>13. CASE ReadChunk
  BY <1>3, <1>13 DEF ReadChunk, LibraryFails, Fails, FoundBad
<1>14. CASE StreamEnd \/ Rewind \/ CopyChunk
  BY <1>3, <1>14 DEF StreamEnd, Rewind, CopyChunk
<1>15. CASE CloseOk
  BY <1>3, <1>15 DEF CloseOk, Fails
<1>16. CASE BadMagic
  <2>1. ASSUME conf.op = "test" PROVE Steady
    <3> DEFINE c == [pc |-> "next", failsExist |-> p.failsExist \/ p.streamNo = 1]
    <3>1. DOMAIN c = {"pc", "failsExist"} /\ c.pc # "fail" /\ (p.failsExist => c.failsExist) /\ Step(c)
      BY <1>16, <2>1 DEF BadMagic
    <3> HIDE DEF c
    <3> QED BY <1>1, <1>2, <3>1, Turns DEF Fields
  <2>2. ASSUME conf.op # "test" PROVE Steady
    <3> DEFINE c == [pc |-> IF p.streamNo = 1 THEN "not bzip2" ELSE "closed",
                     unchecked |-> p.unchecked \/ (out'.err /\ out.buf # <<>>)]
    <3>1. DOMAIN c = {"pc", "unchecked"} /\ c.pc # "fail" /\ (p.unchecked => c.unchecked) /\ Step(c)
      BY <1>16, <2>2 DEF BadMagic
    <3> HIDE DEF c
    <3> QED BY <1>1, <1>2, <3>1, Turns DEF Fields
  <2> QED BY <2>1, <2>2
<1>17. CASE GiveUp
  <2> DEFINE c == [pc |-> "discard", handle |-> FALSE, delete |-> FALSE, failsExist |-> TRUE]
  <2>1. DOMAIN c = {"pc", "handle", "delete", "failsExist"} /\ c.pc # "fail" /\ c.failsExist /\ Step(c)
    BY <1>17 DEF GiveUp
  <2> HIDE DEF c
  <2> QED BY <1>1, <1>2, <2>1, Turns DEF Fields
<1>18. CASE Finish
  <2> DEFINE c == [pc |-> IF RemovesInput THEN "unlink" ELSE "next", delete |-> FALSE]
  <2>1. DOMAIN c = {"pc", "delete"} /\ c.pc # "fail"
    OBVIOUS
  <2>2. Failing("io") \/ Step(c)
    BY <1>18 DEF Finish
  <2> HIDE DEF c
  <2>3. Step(c) => Steady
    BY <1>1, <1>2, <2>1, Turns DEF Fields
  <2> QED BY <1>3, <2>2, <2>3
<1>19. CASE Discard \/ RemoveInput
  BY <1>3, <1>19 DEF Discard, RemoveInput
<1>20. CASE Exit
  <2> DEFINE c == [pc |-> "exited", exitValue |-> IF p.failsExist THEN setExit(2) ELSE p.exitValue,
                   unchecked |-> p.unchecked \/ out'.err]
  <2>1. DOMAIN c = {"pc", "exitValue", "unchecked"} /\ c.pc # "fail" /\ (p.unchecked => c.unchecked) /\ Step(c)
        /\ c.exitValue \in {setExit(2), p.exitValue}
    BY <1>20 DEF Exit
  <2> HIDE DEF c
  <2>2. c.exitValue \in Nat /\ (c.exitValue = 0 => p.exitValue = 0)
    BY <2>1, ExitValueNat DEF Codes
  <2> QED BY <1>1, <1>2, <2>1, <2>2, Turns DEF Fields
<1>21. CASE Fail \/ mySignalCatcher
  <2>1. Fail => p.ec \in Nat /\ p.ec # 0
    BY DEF Fail, At, Codes
  <2> QED BY <1>1, <1>21, <2>1, ExitsSteadily DEF Fail, mySignalCatcher
<1>22. CASE Killed
  BY <1>3, <1>22 DEF Killed, Dies
<1>23. CASE Intrudes \/ Vanishes \/ Over
  BY <1>3, <1>23 DEF Intrudes, Vanishes, Over, vars
<1> QED BY <1>6, <1>7, <1>8, <1>9, <1>10, <1>11, <1>12, <1>13, <1>14, <1>15, <1>16, <1>17, <1>18, <1>19,
           <1>20, <1>21, <1>22, <1>23 DEF Next

(* A step changes no file but the output and the input of its turn. *)
LEMMA DiskSpared ==
  ASSUME IInv, Next
  PROVE  \A n \in DOMAIN disk : n \notin {p.inName, p.outName} => n \in DOMAIN disk' /\ disk'[n] = disk[n]
<1> DEFINE Remains(n) == n \in DOMAIN disk' /\ disk'[n] = disk[n]
<1> SUFFICES ASSUME NEW n \in DOMAIN disk, n \notin {p.inName, p.outName} PROVE Remains(n)
  OBVIOUS
<1>1. disk \in [DOMAIN disk -> FileType]
  BY DEF IInv, TypeOK
<1>2. disk' = disk => Remains(n)
  OBVIOUS
<1>3. \A d : disk' = Grown(d) => Remains(n)
  BY <1>1 DEF Grown
<1>4. \A name \in {p.inName, p.outName} : disk' = Without(name) => Remains(n)
  BY DEF Without
<1>5. \A file : disk' = With(p.outName, file) => Remains(n)
  BY DEF With
<1> HIDE DEF Remains
<1>6. CASE NextFile \/ Check \/ CheckOutput \/ CheckLinks \/ OpenInput \/ NotReady \/ Ready
  BY <1>2, <1>4, <1>6 DEF NextFile, Check, CheckOutput, CheckLinks, OpenInput, NotReady, Ready
<1>7. CASE CreateOutput
  BY <1>2, <1>5, <1>7 DEF CreateOutput, fopen_output_safely
<1>8. CASE CompressOpen \/ CompressChunk \/ CompressEnd \/ CloseOutput \/ CloseInput
  BY <1>2, <1>3, <1>8 DEF CompressOpen, CompressChunk, CompressEnd, CloseOutput, CloseInput, Fails, Untouched, Written,
                          Flushed, ReadError
<1>9. CASE OpenStream \/ ReadChunk \/ StreamEnd \/ Rewind \/ CopyChunk
  BY <1>2, <1>3, <1>9 DEF OpenStream, ReadChunk, StreamEnd, Rewind, CopyChunk, LibraryFails, Fails, Untouched, Written,
                          ReadError
<1>10. CASE CloseOk \/ BadMagic \/ GiveUp \/ Discard
  BY <1>2, <1>3, <1>4, <1>10 DEF CloseOk, BadMagic, GiveUp, Discard, Fails, Untouched, Flushed
<1>11. CASE Finish \/ RemoveInput \/ Exit
  BY <1>2, <1>3, <1>4, <1>11 DEF Finish, RemoveInput, Exit, Flushed
<1>12. CASE Fail \/ mySignalCatcher \/ Killed
  BY <1>2, <1>4, <1>12 DEF Fail, mySignalCatcher, Killed, cleanUpAndFail
<1>13. CASE Intrudes \/ Vanishes \/ Over
  BY <1>2, <1>4, <1>5, <1>13 DEF Intrudes, Vanishes, Over, vars
<1> QED BY <1>6, <1>7, <1>8, <1>9, <1>10, <1>11, <1>12, <1>13 DEF Next

(* A file that is dealt with stays so while its output does. *)
LEMMA HandledStays ==
  ASSUME UNCHANGED <<conf, first>>, NEW name, Handled(name),
         MakesFile /\ OutName(name) \in DOMAIN disk =>
           OutName(name) \in DOMAIN disk' /\ disk'[OutName(name)].data = disk[OutName(name)].data
  PROVE  Handled(name)'
<1>1. MakesFile' = MakesFile /\ \A m : Meant(m)' = Meant(m) /\ Passed(m)' = Passed(m) /\ OutName(m)' = OutName(m)
  BY MeantSame
<1>2. name \in DOMAIN first' /\ Meant(first[name].data)' \in Seq(Chunks)
  BY <1>1 DEF Handled
<1>3. MakesFile => Passed(name)' \/ (OutName(name)' \in DOMAIN disk' /\ disk'[OutName(name)'].data = Meant(first[name].data)')
  BY <1>1 DEF Handled
<1> QED BY <1>1, <1>2, <1>3 DEF Handled

(* The steps that end the turn of a file, or the program, with an exit value of 0 so far. *)
LEMMA Ends ==
  ASSUME IInv, Codes, Next, p'.pc \in {"next", "exited"}, p'.exitValue = 0, p'.pc = "next" => Fair'
  PROVE  \/ Exit
         \/ p'.pc = "next" /\ (CloseOk \/ BadMagic \/ Finish \/ RemoveInput)
         \/ p' = p /\ (Intrudes \/ Vanishes \/ Over)
<1>1. DOMAIN p = Fields /\ "pc" \in DOMAIN p
  BY DEF IInv, TypeOK, Fields
<1>2. /\ \A pc : GoTo(pc) => p'.pc = pc
      /\ \A v \in {1, 2} : ~Skipped(v)
      /\ \A error : ~Failing(error)
      /\ ~FailingWithout /\ ~Dies /\ ~TestFails
      /\ p' = p => p.pc \in {"next", "exited"}
  <2>1. \A v \in {1, 2} : Skipped(v) => p'.pc = "next" /\ ~Fair'
    BY <1>1, GoesOn DEF Moved
  <2>2. TestFails => p'.pc = "next" /\ ~Fair'
    BY <1>1, GoesOn DEF Moved
  <2> QED BY <1>1, <2>1, <2>2, PcIs
<1>3. ~NextFile
  <2>1. ASSUME NextFile PROVE p'.pc = "check" \/ (p'.pc = "exited" /\ p'.exitValue = setExit(1))
    BY <1>1, <2>1 DEF NextFile, copyFileName, Step, Fields
  <2> QED BY <2>1, ExitValueIs
<1>4. ~(Check \/ CheckOutput \/ CheckLinks)
  BY <1>2 DEF Check, CheckOutput, CheckLinks, saveInputFileMetaInfo
<1>5. ~(OpenInput \/ CreateOutput \/ NotReady)
  BY <1>2 DEF OpenInput, CreateOutput, NotReady
<1>6. ~Ready
  <2>1. Ready => p'.pc = IF conf.op = "z" THEN "compress" ELSE "stream"
    BY <1>1 DEF Ready, ReadyFor, Step
  <2> QED BY <2>1
<1>7. ~(CompressOpen \/ CompressChunk \/ CompressEnd \/ CloseOutput)
  BY <1>2 DEF CompressOpen, CompressChunk, CompressEnd, CloseOutput, Fails, At
<1>8. ~CloseInput
  <2>1. Step([pc |-> "finish", handle |-> FALSE]) => p'.pc = "finish"
    BY <1>1 DEF Step
  <2> QED BY <1>2, <2>1 DEF CloseInput
<1>9. ~OpenStream
  <2>1. \A to : Step([streamNo |-> p.streamNo + 1, pc |-> to]) => p'.pc = to
    BY <1>1 DEF Step
  <2> QED BY <1>2, <2>1 DEF OpenStream, LibraryFails, Fails, FoundBad
<1>10. ~(ReadChunk \/ StreamEnd \/ Rewind \/ CopyChunk)
  BY <1>2 DEF ReadChunk, StreamEnd, Rewind, CopyChunk, LibraryFails, Fails, FoundBad, At
<1>11. CloseOk => p'.pc = "next"
  BY <1>2 DEF CloseOk, Fails
<1>12. BadMagic => p'.pc = "next"
  <2>1. BadMagic => p'.pc \in {"next", "not bzip2", "closed"}
    BY <1>1 DEF BadMagic, Step
  <2> QED BY <2>1
<1>13. ~(GiveUp \/ Discard)
  <2>1. GiveUp => p'.pc = "discard"
    BY <1>1 DEF GiveUp, Step
  <2> QED BY <1>2, <2>1 DEF Discard
<1>14. Finish \/ RemoveInput => p'.pc = "next"
  <2>1. \A to : Step([pc |-> to, delete |-> FALSE]) => p'.pc = to
    BY <1>1 DEF Step
  <2> QED BY <1>2, <2>1 DEF Finish, RemoveInput
<1>15. ~(Fail \/ mySignalCatcher)
  <2>1. \A ec \in Nat : ec # 0 => ~cleanUpAndFail(ec)
    BY <1>1, ExitsSteadily
  <2>2. Fail => p.ec \in Nat /\ p.ec # 0
    BY DEF Fail, At, Codes
  <2> QED BY <2>1, <2>2 DEF Fail, mySignalCatcher
<1>16. ~Killed
  BY <1>2 DEF Killed
<1>17. Intrudes \/ Vanishes \/ Over => p' = p
  BY DEF Intrudes, Vanishes, Over, vars
<1> QED BY <1>3, <1>4, <1>5, <1>6, <1>7, <1>8, <1>9, <1>10, <1>11, <1>12, <1>13, <1>14, <1>15, <1>16, <1>17 DEF Next

(* How many files have had their turn. *)
LEMMA NowIs ==
  ASSUME InOrder
  PROVE  now \in Nat /\ Len(p.names) \in Nat /\ DOMAIN p.names = 1..Len(p.names) /\ now <= Len(p.names)
         /\ (p.todo = <<>> => now = Len(p.names))
<1> DEFINE S == {p.names[i] : i \in DOMAIN p.names}
           a == Len(p.names)
           b == Len(p.todo)
<1>1. p.names \in Seq(S) /\ p.todo \in Seq(S) /\ b <= a
  BY DEF InOrder
<1> HIDE DEF S
<1>2. a \in Nat /\ b \in Nat /\ DOMAIN p.names = 1..a /\ now = a - b /\ (p.todo = <<>> => b = 0)
  BY <1>1 DEF now
<1> HIDE DEF a, b
<1>3. now \in Nat /\ now <= a /\ (p.todo = <<>> => now = a)
  BY <1>1, <1>2
<1> QED BY <1>2, <1>3 DEF a

(* When the turn of a file is over it is dealt with, unless the exit value will tell. *)
LEMMA Arrives ==
  ASSUME IInv, Told, Next, Steady, now > 0, Fair', p'.pc \in {"next", "exited"}, NEW name, name = p.inName
  PROVE  Handled(name)'
<1>1. /\ p.inName = p.names[now] /\ p.outName = OutName(p.inName) /\ InOrder /\ TypeOK /\ Content /\ now \in Nat
      /\ Same /\ Fair /\ UNCHANGED <<conf, first>>
  BY NowIs DEF IInv, InOrder, Steady, Same
<1>2. MakesFile' = MakesFile /\ \A m : Meant(m)' = Meant(m) /\ Passed(m)' = Passed(m) /\ OutName(m)' = OutName(m)
  BY <1>1, MeantSame
<1>3. \/ Exit
      \/ p'.pc = "next" /\ (CloseOk \/ BadMagic \/ Finish \/ RemoveInput)
      \/ p' = p /\ (Intrudes \/ Vanishes \/ Over)
  BY Ends DEF Told, Fair
<1>4. ASSUME p.pc \in {"next", "exited"}, MakesFile /\ p.outName \in DOMAIN disk => p.outName \in DOMAIN disk' /\ disk'[p.outName] = disk[p.outName]
      PROVE  Handled(name)'
  <2>1. now \in 1..now /\ name = p.names[now]
    BY <1>1
  <2>2. Handled(p.names[now])
    BY <1>1, <1>4, <2>1, Zenon DEF Told
  <2>3. Handled(name) /\ p.outName = OutName(name)
    BY <1>1, <2>1, <2>2, Zenon
  <2> QED BY <1>1, <1>4, <2>3, HandledStays
<1>5. ASSUME Judged, MakesFile => Piped \/ (p.outName \in DOMAIN disk' /\ disk'[p.outName].data = Goal)
      PROVE  Handled(name)'
  <2>1. name \in DOMAIN first /\ Meant(first[name].data) \in Seq(Chunks)
    BY <1>5 DEF Judged, Goal
  <2>2. MakesFile => Passed(name) \/ (OutName(name) \in DOMAIN disk' /\ disk'[OutName(name)].data = Meant(first[name].data))
    BY <1>1, <1>5 DEF Piped, Goal
  <2> QED BY <1>1, <1>2, <2>1, <2>2 DEF Handled
<1>6. CASE Exit
  <2>1. p.pc = "next" /\ (MakesFile => disk' = disk)
    BY <1>6 DEF Exit, At, MakesFile, FileFor
  <2> QED BY <1>4, <2>1
<1>7. CASE p'.pc = "next" /\ CloseOk
  <2>1. DOMAIN p = Fields
    BY <1>1 DEF TypeOK
  <2>2. p.pc = "closeok" /\ ~inp.err /\ conf.op = "test"
    BY <1>7, <2>1, PcIs DEF CloseOk, Fails, At, InputFailed
  <2>3. Judged /\ ~MakesFile
    BY <1>1, <2>2 DEF Content, Done, MakesFile, FileFor
  <2> QED BY <1>5, <2>3
<1>8. CASE p'.pc = "next" /\ BadMagic
  <2>1. DOMAIN p = Fields /\ "pc" \in DOMAIN p
    BY <1>1 DEF TypeOK, Fields
  <2>2. conf.op = "test"
    BY <1>8, <2>1 DEF BadMagic, Step
  <2>3. p.pc = "bad magic" /\ p'.failsExist = (p.failsExist \/ p.streamNo = 1)
    BY <1>8, <2>1, <2>2 DEF BadMagic, Step, At, Fields
  <2>4. p.streamNo # 1
    BY <2>3 DEF Fair
  <2>5. Judged /\ ~MakesFile
    BY <2>2, <2>3, <2>4, MagicJudged DEF MakesFile, FileFor
  <2> QED BY <1>5, <2>5
<1>9. CASE p'.pc = "next" /\ (Finish \/ RemoveInput)
  <2>1. p.pc \in {"finish", "unlink"}
    BY <1>9 DEF Finish, RemoveInput, At
  <2>2. Delivered
    BY <1>1, <2>1 DEF Content, Fair
  <2>3. MakesFile => p.outName \in DOMAIN disk
    BY <2>1 DEF IInv, Mine, Working, Writing
  <2>4. disk' = disk \/ disk' = Without(p.inName)
    BY <1>9 DEF Finish, RemoveInput
  <2>5. MakesFile => p.outName # p.inName
    BY <1>1, OutIsApart
  <2>6. MakesFile => p.outName \in DOMAIN disk' /\ disk'[p.outName] = disk[p.outName]
    BY <2>3, <2>4, <2>5 DEF Without
  <2> QED BY <1>5, <2>2, <2>6 DEF Delivered
<1>10. CASE p' = p /\ Intrudes
  <2>1. p.outName \notin DOMAIN disk
    BY <1>10 DEF Intrudes, fileExists
  <2> QED BY <1>4, <1>10, <2>1
<1>11. CASE p' = p /\ Vanishes
  <2>1. MakesFile => p.outName # p.inName
    BY <1>1, OutIsApart
  <2>2. disk' = Without(p.inName)
    BY <1>11 DEF Vanishes
  <2> QED BY <1>4, <1>11, <2>1, <2>2 DEF Without
<1>12. CASE p' = p /\ Over
  <2>1. disk' = disk
    BY <1>12 DEF Over, vars
  <2> QED BY <1>4, <1>12, <2>1
<1> QED BY <1>3, <1>6, <1>7, <1>8, <1>9, <1>10, <1>11, <1>12

(* At the end stdout has all of it, unless what it held could not be written. *)
LEMMA StdoutArrives ==
  ASSUME IInv, Codes, Exit, Steady, p'.exitValue = 0
  PROVE  /\ p'.todo = <<>> /\ ~p'.failsExist
         /\ (ToStdout /\ Well /\ AllMeant(now))' => disk'[Stdout].data = Due(now)'
<1>1. p.pc = "next" /\ p.todo = <<>>
      /\ IF conf.src = "F2F" \/ out.buf = <<>> THEN Fine /\ UNCHANGED <<disk, out>> ELSE Flushed(<<>>)
  BY DEF Exit, At
<1>2. TypeOK /\ InOrder /\ DOMAIN p = Fields /\ out \in FILE /\ Stdout \in DOMAIN disk /\ Same /\ now \in Nat /\ Content
      /\ disk[Stdout].data \in Seq(Chunks)
  BY NowIs DEF IInv, TypeOK, InOrder, Steady, FileType
<1> DEFINE c == [pc |-> "exited", exitValue |-> IF p.failsExist THEN setExit(2) ELSE p.exitValue,
                 unchecked |-> p.unchecked \/ out'.err]
<1>3. DOMAIN c = {"pc", "exitValue", "unchecked"} /\ c.unchecked = (p.unchecked \/ out'.err) /\ Step(c)
      /\ c.exitValue = IF p.failsExist THEN setExit(2) ELSE p.exitValue
  BY DEF Exit
<1> HIDE DEF c
<1>4. p'.unchecked = (p.unchecked \/ out'.err) /\ p'.failsExist = p.failsExist
      /\ p'.exitValue = IF p.failsExist THEN setExit(2) ELSE p.exitValue
  BY <1>2, <1>3, StepIs DEF Fields
<1>5. p'.todo = <<>> /\ ~p'.failsExist
  BY <1>1, <1>2, <1>4, ExitValueIs DEF Same
<1>6. ASSUME (ToStdout /\ Well /\ AllMeant(now))' PROVE disk'[Stdout].data = Due(now)
  <2>1. ToStdout /\ Well /\ AllMeant(now)
    <3>1. now' = now /\ ToStdout' = ToStdout /\ (Well' => Well) /\ \A k : AllMeant(k)' <=> AllMeant(k)
      BY <1>2, CountsStay
    <3>2. AllMeant(now)' => AllMeant(now)
      BY <1>2, <3>1 DEF AllMeant, Meant, Same
    <3> QED BY <1>6, <3>1, <3>2
  <2>2. disk[Stdout].data \o out.buf = Due(now) /\ conf.src # "F2F"
    BY <1>1, <1>2, <2>1 DEF Content, Level, ToStdout
  <2>3. ~out'.err
    BY <1>4, <1>6 DEF Well, Fair
  <2>4. CASE out.buf = <<>>
    BY <1>1, <1>2, <2>2, <2>4, ConcatEmptySeq
  <2>5. CASE out.buf # <<>>
    <3>1. now > 0
      BY <1>2, <2>5 DEF InOrder
    <3>2. p.outName = Stdout
      BY <1>2, <2>1, <3>1 DEF InOrder, OutName, OutNameFor, Suffixed, Unsuffixed, ToStdout
    <3>3. Flushed(<<>>) /\ <<>> \in Seq(Chunks) /\ p'.outName = p.outName
      BY <1>1, <1>2, <2>2, <2>5, EmptySeq DEF Same
    <3>4. disk'[Stdout].data = Got \o <<>>
      BY <1>2, <2>3, <3>2, <3>3, FlushedIs, Zenon
    <3>5. Got = Due(now) /\ Due(now) \in Seq(Chunks)
      <4>1. Stdout \in DOMAIN first
        BY <1>2 DEF InOrder
      <4> QED BY <1>2, <2>1, <2>2, <3>2, <4>1, DueIs DEF Got
    <3> QED BY <3>4, <3>5, ConcatEmptySeq
  <2> QED BY <2>4, <2>5
<1>7. Due(now)' = Due(now)
  BY <1>2 DEF Due, Meant, Same, now
<1> QED BY <1>5, <1>6, <1>7

(* When nothing happens all of it stays so. *)
LEMMA ToldStutters == ASSUME Told, UNCHANGED vars PROVE Told'
<1>1. p' = p /\ disk' = disk /\ conf' = conf /\ first' = first /\ UNCHANGED <<conf, first>>
  BY DEF vars
<1>2. Same /\ now' = now /\ Codes' /\ (Fair' <=> Fair)
  BY <1>1 DEF Same, Fair, Told, Codes, now
<1>3. /\ \A k : Due(k)' = Due(k) /\ (AllMeant(k)' <=> AllMeant(k))
      /\ (Well' => Well) /\ ToStdout' = ToStdout
  BY <1>2, CountsStay
<1>4. Due(now)' = Due(now) /\ (AllMeant(now)' <=> AllMeant(now))
  BY <1>1, <1>2 DEF Due, AllMeant, Meant
<1>5. \A name : Handled(name) => Handled(name)'
  <2>1. ASSUME NEW name, Handled(name) PROVE Handled(name)'
    BY <1>1, <2>1, HandledStays
  <2> QED BY <2>1
<1>6. ASSUME Fair', NEW i \in 1..now', i = now' => p'.pc \in {"next", "exited"} PROVE Handled(p.names[i])'
  <2> DEFINE name == p.names[i]
  <2>1. Handled(name)
    BY <1>1, <1>2, <1>6 DEF Told
  <2>2. ASSUME NEW m, m = p.names[i], Handled(m) PROVE Handled(p.names[i])'
    BY <1>1, <1>5, <2>2 DEF Handled
  <2> QED BY <2>1, <2>2
<1>7. p'.pc = "exited" /\ p'.exitValue = 0 /\ ~Stops(conf)' =>
        p'.todo = <<>> /\ ~p'.failsExist /\ ((ToStdout /\ Well /\ AllMeant(now))' => disk'[Stdout].data = Due(now)')
  BY <1>1, <1>3, <1>4 DEF Told, Stops
<1> QED BY <1>2, <1>6, <1>7 DEF Told

(* The step to the next file. *)
LEMMA NextFileTells == ASSUME IInv, Told, NextFile PROVE Told'
<1>1. /\ p.pc = "next" /\ p.todo # <<>> /\ UNCHANGED <<disk, conf, out, first>>
      /\ DOMAIN p = Fields /\ InOrder /\ now \in Nat /\ Codes
  BY NowIs DEF NextFile, At, IInv, TypeOK, Told
<1>2. CASE Step([pc |-> "exited", exitValue |-> setExit(1)])
  <2> DEFINE c == [pc |-> "exited", exitValue |-> setExit(1)]
  <2>1. c.pc = "exited" /\ c.exitValue = setExit(1) /\ DOMAIN c = {"pc", "exitValue"} /\ Step(c)
    BY <1>2
  <2> HIDE DEF c
  <2>2. c.exitValue \in Nat /\ c.exitValue # 0
    BY <1>1, <2>1, ExitValueNat
  <2>3. Steady /\ p'.exitValue # 0
    BY <1>1, <2>1, <2>2, Turns, StepIs DEF Fields
  <2>4. ~Fair' /\ Codes'
    BY <2>3 DEF Fair, Steady
  <2> QED BY <2>3, <2>4 DEF Told
<1>3. CASE ~Step([pc |-> "exited", exitValue |-> setExit(1)])
  <2> DEFINE c == [pc |-> "check", todo |-> Tail(p.todo), inName |-> Head(p.todo), outName |-> OutName(Head(p.todo)),
                   delete |-> FALSE, streamNo |-> 0]
  <2>1. c.pc = "check" /\ c.todo = Tail(p.todo) /\ DOMAIN c = {"pc", "todo", "inName", "outName", "delete", "streamNo"} /\ Step(c)
    BY <1>3 DEF NextFile, copyFileName
  <2> HIDE DEF c
  <2>2. /\ p'.pc = "check" /\ p'.todo = Tail(p.todo) /\ p'.names = p.names /\ p'.exitValue = p.exitValue
        /\ p'.failsExist = p.failsExist /\ p'.unchecked = p.unchecked /\ p'.ec = p.ec
    BY <1>1, <2>1, StepIs DEF Fields
  <2>3. Codes' /\ (Fair' <=> Fair)
    BY <1>1, <2>2 DEF Codes, Fair
  <2>4. now' = now + 1
    <3> DEFINE S == {p.names[i] : i \in DOMAIN p.names}
    <3>1. p.names \in Seq(S) /\ p.todo \in Seq(S)
      BY <1>1 DEF InOrder
    <3> HIDE DEF S
    <3>2. Len(Tail(p.todo)) = Len(p.todo) - 1 /\ Len(p.names) \in Nat /\ Len(p.todo) \in Nat
      BY <1>1, <3>1, HeadTailProperties, EmptySeq
    <3>3. now' = Len(p.names) - Len(Tail(p.todo)) /\ now = Len(p.names) - Len(p.todo)
      BY <2>2 DEF now
    <3> DEFINE a == Len(p.names)
               b == Len(p.todo)
    <3>4. a \in Nat /\ b \in Nat /\ now' = a - (b - 1) /\ now = a - b
      BY <3>2, <3>3
    <3> HIDE DEF a, b
    <3> QED BY <3>4
  <2>5. ASSUME Fair', NEW i \in 1..now', i = now' => p'.pc \in {"next", "exited"} PROVE Handled(p.names[i])'
    <3>1. i \in 1..now
      BY <1>1, <2>2, <2>4, <2>5
    <3>2. Handled(p.names[i])
      BY <1>1, <2>3, <2>5, <3>1 DEF Told
    <3>3. ASSUME NEW m, m = p.names[i], Handled(m) PROVE Handled(m)'
      BY <1>1, <3>3, HandledStays
    <3>4. ASSUME NEW m, m = p.names[i], Handled(m) PROVE Handled(p.names[i])'
      BY <2>2, <3>3, <3>4 DEF Handled
    <3> QED BY <3>2, <3>4
  <2> QED BY <2>2, <2>3, <2>5 DEF Told
<1> QED BY <1>2, <1>3

(* Every step keeps what the exit value will tell. *)
LEMMA ToldStays == ASSUME IInv, Told, Next PROVE Told'
<1>1. CASE NextFile
  BY <1>1, NextFileTells
<1>2. CASE Over
  BY <1>2, ToldStutters DEF Over
<1>3. CASE ~NextFile /\ ~Over
  <2>1. Steady /\ Codes' /\ Codes /\ InOrder /\ now \in Nat
    BY <1>3, Steadily, NowIs DEF Told, Steady, IInv
  <2>2. p'.names = p.names /\ now' = now /\ (Fair' => Fair) /\ UNCHANGED <<conf, first>> /\ MakesFile' = MakesFile
    BY <2>1, CountsStay, MeantSame DEF Steady, Same
  <2>3. ASSUME Fair', NEW i \in 1..now', i = now' => p'.pc \in {"next", "exited"} PROVE Handled(p.names[i])'
    <3>1. now > 0 /\ i \in 1..now
      BY <2>1, <2>2, <2>3
    <3>2. p.inName = p.names[now] /\ p.outName = OutName(p.inName)
      BY <2>1, <3>1 DEF InOrder
    <3>3. ASSUME NEW m, m = p.names[i] PROVE Handled(m)'
      <4>1. CASE i = now
        BY <2>1, <2>2, <2>3, <3>1, <3>2, <3>3, <4>1, Arrives
      <4>2. CASE i # now
        <5>1. Handled(p.names[i])
          BY <2>2, <2>3, <3>1, <4>2 DEF Told
        <5>2. Handled(m)
          BY <3>3, <5>1, Zenon
        <5>3. MakesFile => OutName(m) \notin {p.inName, p.outName}
          BY <2>1, <3>1, <3>3, <4>2, OutIsApart
        <5> QED BY <2>2, <5>2, <5>3, DiskSpared, HandledStays
      <4> QED BY <4>1, <4>2
    <3>4. ASSUME NEW m, m = p.names[i] PROVE Handled(p.names[i])'
      BY <2>2, <3>3, <3>4 DEF Handled
    <3> QED BY <3>4
  <2>4. ASSUME p'.pc = "exited", p'.exitValue = 0, ~Stops(conf)'
        PROVE  p'.todo = <<>> /\ ~p'.failsExist /\ ((ToStdout /\ Well /\ AllMeant(now))' => disk'[Stdout].data = Due(now)')
    <3>1. Exit \/ (p' = p /\ (Intrudes \/ Vanishes))
      BY <1>3, <2>1, <2>4, Ends
    <3>2. ~(p' = p /\ (Intrudes \/ Vanishes))
      BY <2>4 DEF Intrudes, Vanishes, Running
    <3> QED BY <2>1, <2>4, <3>1, <3>2, StdoutArrives
  <2> QED BY <2>1, <2>3, <2>4 DEF Told
<1> QED BY <1>1, <1>2, <1>3

(* At the beginning no file has had its turn. *)
LEMMA StartsTold == Init => Told
<1> SUFFICES ASSUME Init PROVE Told
  OBVIOUS
<1>1. /\ p.todo = p.names /\ p.exitValue \in {0, 1} /\ p.ec = 0 /\ p.pc \in {"exited", "next"}
      /\ (p.pc = "exited" => Stops(conf))
  BY DEF Init
<1>2. now = 0
  <2>1. InOrder
    BY Starts DEF IInv
  <2> DEFINE S == {p.names[i] : i \in DOMAIN p.names}
  <2>2. p.names \in Seq(S)
    BY <2>1 DEF InOrder
  <2> HIDE DEF S
  <2> QED BY <1>1, <2>2 DEF now
<1> QED BY <1>1, <1>2 DEF Told, Codes

-----------------------------------------------------------------------------
(* Theorems *)

(* bzip2.c:1124-1590: the places the command can be in, and what it knows there of the files it has   *)
(* read and made, of the one it would delete, of the data that it owes and of the files that it has   *)
(* dealt with.                                                                                         *)
THEOREM CommandInvariant == Spec => [](IInv /\ Untested /\ Told)
<1>1. Init => IInv /\ Untested /\ Told
  BY Starts, StartsTold
<1>2. IInv /\ Untested /\ Told /\ [Next]_vars => IInv' /\ Untested' /\ Told'
  <2>1. ASSUME IInv, Untested, Told, Next PROVE IInv' /\ Untested' /\ Told'
    <3>1. Codes
      BY <2>1 DEF Told
    <3> QED BY <2>1, <3>1, StepOK, UntestedStays, ToldStays
  <2>2. ASSUME IInv, Untested, Told, UNCHANGED vars PROVE IInv' /\ Untested' /\ Told'
    <3>1. p' = p /\ MakesFile' = MakesFile /\ conf' = conf
      BY <2>2 DEF vars, MakesFile
    <3>2. Untested'
      BY <2>2, <3>1 DEF Untested
    <3> QED BY <2>2, <3>2, StutterOK, ToldStutters
  <2> QED BY <2>1, <2>2
<1> QED BY <1>1, <1>2, PTL DEF Spec

(* The files, the FILEs and the places are what they are said to be.                                   *)
THEOREM TypeCorrect == Spec => []TypeOK
<1>1. IInv => TypeOK
  BY DEF IInv
<1> QED BY <1>1, CommandInvariant, PTL

(* bzip2.c:1284-1297, 1461-1474, 670-724: whatever fails, and wherever a signal or the end of the      *)
(* process comes, all data that is owed is in some file, as it was, packed or unpacked.                 *)
THEOREM DataIsKept == Spec => []DataSurvives
<1>1. ASSUME IInv PROVE DataSurvives
  <2>1. SUFFICES ASSUME ~p.unchecked, NEW data \in owed
                 PROVE  \E n \in DOMAIN disk : disk[n].data \in {data, Packed(data), Restored(data, FALSE), Restored(data, TRUE)}
    BY DEF DataSurvives
  <2>2. Kept(data)
    BY <1>1, <2>1 DEF IInv, KeptAll
  <2>3. \E n \in DOMAIN disk : disk[n].data \in {data, Meant(data)}
    BY <2>2 DEF Kept
  <2>4. Meant(data) \in {Packed(data), Restored(data, FALSE), Restored(data, TRUE)}
    BY DEF Meant, Restored
  <2> QED BY <2>3, <2>4
<1> QED BY <1>1, CommandInvariant, PTL

(* bzip2.c:670-724, 1284, 1461: no exit leaves a file with part of an output, unless it says so.       *)
THEOREM NothingPartialStays == Spec => []NothingPartialLeft
<1>1. ASSUME IInv PROVE NothingPartialLeft
  <2>1. SUFFICES ASSUME p.pc = "exited", ~p.unchecked, ~p.warned, NEW n \in DOMAIN disk \ {Stdout}, disk[n].by = "bzip2"
                 PROVE  \/ disk[n].data \in {<<>>} \cup {Meant(first[m].data) : m \in DOMAIN first}
                        \/ \E m \in DOMAIN first : Passed(m) /\ n = OutName(m)
    BY DEF NothingPartialLeft
  <2>2. Whole(n)
    BY <1>1, <2>1 DEF IInv, Made
  <2> QED BY <2>2 DEF Whole
<1> QED BY <1>1, CommandInvariant, PTL

(* bzip2.c:634-637, 1966-2020: an exit value of 0 says that every file was dealt with, and that its    *)
(* output, a file of its own or its part of stdout, is what it should be.                               *)
THEOREM ExitIsTrue == Spec => []ExitTells
<1>1. ASSUME IInv, Told PROVE ExitTells
  <2> DEFINE done == Range(p.names)
  <2>1. SUFFICES ASSUME p.pc = "exited", p.exitValue = 0, ~Stops(conf), ~p.unchecked
                 PROVE  /\ done \subseteq DOMAIN first
                        /\ \A n \in done : Meant(first[n].data) # None
                        /\ MakesFile => \A n \in done : Passed(n) \/ (OutName(n) \in DOMAIN disk /\ disk[OutName(n)].data = Meant(first[n].data))
                        /\ (ToStdout /\ \A n \in done : ~Passed(n)) => disk[Stdout].data = Due(Len(p.names))
    BY DEF ExitTells
  <2>2. p.todo = <<>> /\ Fair
    BY <1>1, <2>1 DEF Told, Fair
  <2>3. now = Len(p.names) /\ DOMAIN p.names = 1..now
    BY <1>1, <2>2, NowIs DEF IInv
  <2>4. \A i \in 1..now : Handled(p.names[i])
    BY <1>1, <2>1, <2>2 DEF Told
  <2>5. \A n \in done : \E i \in 1..now : n = p.names[i]
    BY <2>3 DEF Range
  <2>6. \A n \in done : Handled(n)
    BY <2>4, <2>5, Zenon
  <2>7. None \notin Seq(Chunks)
    <3>1. None \in Seq(Chunks) => None[1] \in Chunks
      BY DEF None
    <3> QED BY <3>1, ChunkAssumption DEF None
  <2>8. ASSUME ToStdout, \A n \in done : ~Passed(n) PROVE disk[Stdout].data = Due(Len(p.names))
    <3>1. \A i \in DOMAIN p.names : p.names[i] \in done
      BY DEF Range
    <3>2. Well
      BY <2>2, <2>8, <3>1 DEF Well
    <3>3. AllMeant(now)
      BY <2>4 DEF AllMeant, Handled
    <3> QED BY <1>1, <2>1, <2>3, <2>8, <3>2, <3>3 DEF Told
  <2> QED BY <2>6, <2>7, <2>8 DEF Handled
<1> QED BY <1>1, CommandInvariant, PTL

-----------------------------------------------------------------------------
(***************************************************************************)
(* bzip2recover                                                            *)
(***************************************************************************)

MarkBits == Len(EndMark)
Header   == StreamHeader \o BlockHeader

\* What a writer has written, whole bytes and the bits of the next; it is never left with no bits after whole bytes.
BitsOf(w)  == w.bytes \o w.buffer
Aligned(w) ==
  /\ w \in Writer /\ Len(w.bytes) % ByteBits = 0 /\ Len(w.buffer) <= ByteBits
  /\ w.buffer = <<>> => w.bytes = <<>>

Boundary == [start : Nat, end : Nat]
Scans    == [pc : {"search", "split", "finished", "failed"}, bitsRead : Nat, buff : Seq(Bit), currBlock : Nat, start : Nat,
             rb : Seq(Boundary), wrBlock : Nat, blockCRC : Seq(Bit)]

RTypeOK ==
  /\ image \in Images /\ scan \in Scans /\ scan.bitsRead <= Len(image.bits)
  /\ Aligned(wr) /\ made \in Seq(Seq(Bit))

\* The registers have the last bits read, those of the first pass before them.
LastBits(bits, n, buff) == \A i \in 1..Len(buff) : i <= n => buff[Len(buff) + 1 - i] = bits[n + 1 - i]

\* The boundaries found do not overlap, but for marks that do, and have no short blocks.
Ordered(rb, last) ==
  /\ \A i \in 1..Len(rb) : /\ MarkBits <= rb[i].start /\ rb[i].end + 1 + MarkBits <= last
                           /\ rb[i].start <= rb[i].end => rb[i].start + MinBits <= rb[i].end
  /\ \A i \in 1..Len(rb) - 1 : rb[i].end + 1 < rb[i + 1].start /\ rb[i].end < rb[i + 1].end

\* They have every block between two marks of the first n bits.
Complete(bits, rb, n) ==
  \A s, t \in MarkEnds(bits) :
    Neighbours(bits, s, t) /\ t <= n /\ t - s - MarkBits > MinBits =>
      \E i \in 1..Len(rb) : rb[i] = [start |-> s, end |-> t - MarkBits - 1]

\* In the first pass: scan.start is where the last mark ends.
Searching ==
  /\ Len(scan.buff) = IF scan.bitsRead < MarkBits THEN scan.bitsRead ELSE MarkBits
  /\ LastBits(image.bits, scan.bitsRead, scan.buff)
  /\ scan.wrBlock = 0 /\ ~wr.open
  /\ scan.start <= scan.bitsRead
  /\ \A m \in MarkEnds(image.bits) : m <= scan.bitsRead => scan.currBlock > 0 /\ m <= scan.start
  /\ scan.currBlock > 0 => scan.start \in MarkEnds(image.bits)
  /\ Ordered(scan.rb, scan.start)
  /\ Complete(image.bits, scan.rb, scan.bitsRead)

Recovered(block) == \E k \in 1..Len(made) : InBytes(made[k], OneBlock(block))

\* The block that comes, or that is written: its file is open and has what was read of it, and its CRC once that was read.
Current(b) ==
  /\ scan.bitsRead <= b.end
  /\ wr.open <=> b.start <= scan.bitsRead
  /\ wr.open => BitsOf(wr) = Header \o SubSeq(image.bits, b.start + 1, scan.bitsRead)
  /\ b.start + MarkBits <= scan.bitsRead => scan.blockCRC = SubSeq(image.bits, b.start + 1, b.start + CrcBits)

\* In the second pass: the blocks before that one have their outputs.
Splitting ==
  /\ Len(scan.buff) = MarkBits
  /\ LastBits(image.bits, scan.bitsRead, scan.buff)
  /\ Ordered(scan.rb, Len(image.bits)) /\ Complete(image.bits, scan.rb, Len(image.bits))
  /\ scan.wrBlock <= Len(scan.rb)
  /\ \A i \in 1..scan.wrBlock :
       scan.rb[i].start <= scan.rb[i].end => Recovered(SubSeq(image.bits, scan.rb[i].start + 1, scan.rb[i].end + 1))
  /\ scan.wrBlock < Len(scan.rb) => Current(scan.rb[scan.wrBlock + 1])

RInv ==
  /\ RTypeOK
  /\ scan.pc = "search" => Searching
  /\ scan.pc = "split" => Splitting
  /\ BlocksRecovered

-----------------------------------------------------------------------------
(* The marks *)

(* The assumptions about the marks. *)
LEMMA MarkFacts ==
  /\ MarkBits \in Nat \ {0} /\ Len(BlockHeader) = MarkBits
  /\ StreamHeader \in Seq(Bit) /\ BlockHeader \in Seq(Bit) /\ EndMark \in Seq(Bit)
  /\ ByteBits \in Nat \ {0} /\ CrcBits \in Nat /\ MinBits \in Nat
  /\ CrcBits <= MarkBits /\ MarkBits <= MinBits
<1>1. EndMark \in Seq(Bit) /\ EndMark # <<>>
  BY MarkAssumption
<1>2. Len(EndMark) \in Nat \ {0}
  BY <1>1, EmptySeq
<1> QED BY <1>1, <1>2, MarkAssumption DEF MarkBits

(* A part of a sequence. *)
LEMMA PartIs ==
  ASSUME NEW bits \in Seq(Bit), NEW m \in Nat \ {0}, NEW n \in 0..Len(bits)
  PROVE  /\ SubSeq(bits, m, n) \in Seq(Bit)
         /\ Len(SubSeq(bits, m, n)) = IF m <= n THEN n - m + 1 ELSE 0
         /\ \A i \in 1..n - m + 1 : SubSeq(bits, m, n)[i] = bits[m + i - 1]
<1>1. \A i \in m..n : bits[i] \in Bit
  BY LenProperties, ElementOfSeq
<1> QED BY <1>1, SubSeqProperties

(* One more bit. *)
LEMMA PartGrows ==
  ASSUME NEW bits \in Seq(Bit), NEW m \in Nat, NEW n \in m..Len(bits) - 1
  PROVE  SubSeq(bits, m + 1, n + 1) = SubSeq(bits, m + 1, n) \o <<bits[n + 1]>>
<1>1. Len(bits) \in Nat
  BY LenProperties
<1>2. m + 1 \in 1..Len(bits) /\ n + 1 \in m + 1..Len(bits) /\ (n + 1) - 1 = n
  BY <1>1
<1>3. SubSeq(bits, m + 1, n + 1) = SubSeq(bits, m + 1, (n + 1) - 1) \o <<bits[n + 1]>>
  BY <1>2, SubSeqRecursiveSecond
<1> QED BY <1>2, <1>3

(* The first bits of a part. *)
LEMMA PartBegins ==
  ASSUME NEW bits \in Seq(Bit), NEW m \in Nat, NEW n \in 0..Len(bits), NEW k \in Nat, m + k <= n
  PROVE  SubSeq(SubSeq(bits, m + 1, n), 1, k) = SubSeq(bits, m + 1, m + k)
<1> DEFINE s == SubSeq(bits, m + 1, n)
           t == SubSeq(bits, m + 1, m + k)
           u == SubSeq(s, 1, k)
<1>1. Len(bits) \in Nat /\ m + k \in 0..Len(bits) /\ m + 1 \in Nat \ {0}
  BY LenProperties
<1>2. s \in Seq(Bit) /\ Len(s) = n - m /\ \A i \in 1..n - m : s[i] = bits[m + i]
  BY <1>1, PartIs
<1>3. t \in Seq(Bit) /\ Len(t) = k /\ \A i \in 1..k : t[i] = bits[m + i]
  BY <1>1, PartIs
<1> HIDE DEF s, t
<1>4. u \in Seq(Bit) /\ Len(u) = k /\ \A i \in 1..k : u[i] = s[i]
  BY <1>2, PartIs
<1> HIDE DEF u
<1>5. ASSUME NEW i \in 1..Len(u) PROVE u[i] = t[i]
  <2>1. i \in 1..k /\ i \in 1..n - m
    BY <1>1, <1>4
  <2> QED BY <1>2, <1>3, <1>4, <2>1
<1>6. u = t
  BY <1>3, <1>4, <1>5, SeqEqual
<1> QED BY <1>6 DEF s, t, u

-----------------------------------------------------------------------------
(* The shift registers *)

(* One more bit is shifted in. *)
LEMMA ShiftedIs ==
  ASSUME NEW bits \in Seq(Bit), NEW n \in 0..Len(bits) - 1, NEW buff \in Seq(Bit), Len(buff) <= MarkBits,
         LastBits(bits, n, buff)
  PROVE  LET b == Shifted(buff, bits[n + 1])
         IN  /\ b \in Seq(Bit) /\ Len(b) = (IF Len(buff) < MarkBits THEN Len(buff) + 1 ELSE MarkBits)
             /\ LastBits(bits, n + 1, b)
<1> DEFINE a == Append(buff, bits[n + 1])
           b == Shifted(buff, bits[n + 1])
<1>1. MarkBits \in Nat \ {0} /\ Len(buff) \in Nat /\ Len(bits) \in Nat
  BY MarkFacts, LenProperties
<1>2. bits[n + 1] \in Bit
  BY <1>1, ElementOfSeq
<1>3. /\ a \in Seq(Bit) /\ a # <<>> /\ Len(a) = Len(buff) + 1
      /\ (\A i \in 1..Len(buff) : a[i] = buff[i]) /\ a[Len(buff) + 1] = bits[n + 1]
  BY <1>2, AppendProperties
<1>4. b = IF Len(a) > MarkBits THEN Tail(a) ELSE a
  BY DEF Shifted, MarkBits
<1> HIDE DEF a, b
<1>5. ASSUME NEW i \in 1..Len(a), i <= n + 1 PROVE a[Len(a) + 1 - i] = bits[n + 2 - i]
  <2>1. CASE i = 1
    BY <1>1, <1>3, <2>1
  <2>2. CASE i # 1
    <3>1. i - 1 \in 1..Len(buff) /\ i - 1 <= n /\ Len(buff) + 1 - (i - 1) \in 1..Len(buff)
      BY <1>1, <1>3, <1>5, <2>2
    <3>2. buff[Len(buff) + 1 - (i - 1)] = bits[n + 1 - (i - 1)]
      BY <3>1 DEF LastBits
    <3>3. Len(a) + 1 - i = Len(buff) + 1 - (i - 1) /\ n + 1 - (i - 1) = n + 2 - i
      BY <1>1, <1>3
    <3> QED BY <1>3, <3>1, <3>2, <3>3
  <2> QED BY <2>1, <2>2
<1> DEFINE Right == /\ b \in Seq(Bit) /\ Len(b) = (IF Len(buff) < MarkBits THEN Len(buff) + 1 ELSE MarkBits)
                    /\ LastBits(bits, n + 1, b)
<1>6. ASSUME Len(a) > MarkBits PROVE Right
  <2>1. b \in Seq(Bit) /\ Len(b) = Len(a) - 1 /\ \A i \in 1..Len(b) : b[i] = a[i + 1]
    BY <1>3, <1>4, <1>6, HeadTailProperties
  <2>2. ASSUME NEW i \in 1..Len(b), i <= n + 1 PROVE b[Len(b) + 1 - i] = bits[(n + 1) + 1 - i]
    <3>1. i \in 1..Len(a) /\ Len(b) + 1 - i \in 1..Len(b) /\ (Len(b) + 1 - i) + 1 = Len(a) + 1 - i /\ (n + 1) + 1 - i = n + 2 - i
      BY <1>1, <1>3, <2>1
    <3> QED BY <1>5, <2>1, <2>2, <3>1
  <2> QED BY <1>1, <1>3, <1>6, <2>1, <2>2 DEF LastBits
<1>7. ASSUME ~(Len(a) > MarkBits) PROVE Right
  <2>1. b = a
    BY <1>4, <1>7
  <2>2. ASSUME NEW i \in 1..Len(b), i <= n + 1 PROVE b[Len(b) + 1 - i] = bits[(n + 1) + 1 - i]
    BY <1>5, <2>1, <2>2
  <2> QED BY <1>1, <1>3, <1>7, <2>1, <2>2 DEF LastBits
<1>8. Right
  BY <1>6, <1>7
<1> QED BY <1>8 DEF b

(* Full registers are the last bits. *)
LEMMA RegistersAre ==
  ASSUME NEW bits \in Seq(Bit), NEW n \in 0..Len(bits), NEW buff \in Seq(Bit), Len(buff) = MarkBits,
         MarkBits <= n, LastBits(bits, n, buff)
  PROVE  buff = SubSeq(bits, n - MarkBits + 1, n)
<1> DEFINE s == SubSeq(bits, n - MarkBits + 1, n)
<1>1. MarkBits \in Nat \ {0} /\ Len(bits) \in Nat
  BY MarkFacts, LenProperties
<1>2. n - MarkBits + 1 \in Nat \ {0} /\ n - MarkBits + 1 <= n /\ n - (n - MarkBits + 1) + 1 = MarkBits
  BY <1>1
<1>3. s \in Seq(Bit) /\ Len(s) = MarkBits /\ \A i \in 1..MarkBits : s[i] = bits[(n - MarkBits + 1) + i - 1]
  BY <1>2, PartIs
<1> HIDE DEF s
<1>4. ASSUME NEW i \in 1..MarkBits PROVE buff[i] = s[i]
  <2>1. MarkBits + 1 - i \in 1..Len(buff) /\ MarkBits + 1 - i <= n
        /\ Len(buff) + 1 - (MarkBits + 1 - i) = i /\ n + 1 - (MarkBits + 1 - i) = (n - MarkBits + 1) + i - 1
    BY <1>1
  <2>2. buff[i] = bits[(n - MarkBits + 1) + i - 1]
    BY <2>1 DEF LastBits
  <2> QED BY <1>3, <2>2
<1>5. buff = s
  BY <1>3, <1>4, SeqEqual
<1> QED BY <1>5 DEF s

(* They hold a mark when one ends. *)
LEMMA MarkSeen ==
  ASSUME NEW bits \in Seq(Bit), NEW n \in 0..Len(bits), NEW buff \in Seq(Bit), LastBits(bits, n, buff),
         Len(buff) = IF n < MarkBits THEN n ELSE MarkBits
  PROVE  buff \in {BlockHeader, EndMark} <=> n \in MarkEnds(bits)
<1>1. MarkBits \in Nat \ {0} /\ Len(bits) \in Nat /\ Len(BlockHeader) = MarkBits
  BY MarkFacts, LenProperties
<1>2. CASE n < MarkBits
  BY <1>1, <1>2 DEF MarkEnds, MarkBits
<1>3. CASE ~(n < MarkBits)
  <2>1. buff = SubSeq(bits, n - MarkBits + 1, n) /\ n \in MarkBits..Len(bits)
    BY <1>1, <1>3, RegistersAre
  <2> QED BY <2>1 DEF MarkEnds, MarkBits
<1> QED BY <1>2, <1>3

-----------------------------------------------------------------------------
(* Writing bits *)

(* What a writer holds is a sequence of bits. *)
LEMMA BitsOfIs ==
  ASSUME NEW w \in Writer
  PROVE  w.bytes \in Seq(Bit) /\ w.buffer \in Seq(Bit) /\ w.open \in BOOLEAN /\ BitsOf(w) \in Seq(Bit)
<1>1. w.bytes \in Seq(Bit) /\ w.buffer \in Seq(Bit) /\ w.open \in BOOLEAN
  BY DEF Writer
<1> QED BY <1>1, ConcatProperties DEF BitsOf

(* What Aligned says. *)
LEMMA AlignedIs ==
  ASSUME NEW w, Aligned(w)
  PROVE  w \in Writer /\ Len(w.bytes) % ByteBits = 0 /\ Len(w.buffer) <= ByteBits /\ (w.buffer = <<>> => w.bytes = <<>>)
  BY DEF Aligned

(* One more multiple. *)
LEMMA MultipleUp ==
  ASSUME NEW M \in Nat \ {0}, NEW N \in Int, N % M = 0
  PROVE  (N + M) % M = 0
<1>1. M \in 0..M
  OBVIOUS
<1>2. (N + M) % M = IF (N % M) + M < M THEN (N % M) + M ELSE (N % M) + M - M
  BY <1>1, RemainderUp
<1> QED BY <1>2

(* One bit more, behind those written. *)
LEMMA PutBit ==
  ASSUME NEW w, Aligned(w), NEW bit \in Bit
  PROVE  /\ Aligned(bsPutBit(w, bit)) /\ bsPutBit(w, bit).open = w.open
         /\ BitsOf(bsPutBit(w, bit)) = BitsOf(w) \o <<bit>>
<1> DEFINE v == bsPutBit(w, bit)
<1>1. w \in Writer /\ w.bytes \in Seq(Bit) /\ w.buffer \in Seq(Bit) /\ w.open \in BOOLEAN
  BY BitsOfIs DEF Aligned
<1>2. ByteBits \in Nat \ {0} /\ Len(w.buffer) \in Nat /\ Len(w.bytes) \in Nat
  BY <1>1, MarkFacts, LenProperties
<1>3. <<bit>> \in Seq(Bit) /\ Len(<<bit>>) = 1 /\ <<bit>> # <<>>
  OBVIOUS
<1>4. CASE Len(w.buffer) = ByteBits
  <2>1. v = [w EXCEPT !.bytes = w.bytes \o w.buffer, !.buffer = <<bit>>]
    BY <1>4 DEF bsPutBit
  <2>2. v.bytes = w.bytes \o w.buffer /\ v.buffer = <<bit>> /\ v.open = w.open /\ DOMAIN v = {"open", "buffer", "bytes"}
        /\ v = [open |-> v.open, buffer |-> v.buffer, bytes |-> v.bytes]
    BY <1>1, <2>1 DEF Writer
  <2>3. w.bytes \o w.buffer \in Seq(Bit) /\ Len(w.bytes \o w.buffer) = Len(w.bytes) + ByteBits
    BY <1>1, <1>4, ConcatProperties
  <2>4. (Len(w.bytes) + ByteBits) % ByteBits = 0
    <3> DEFINE N == Len(w.bytes)
    <3>1. N % ByteBits = 0
      BY AlignedIs
    <3>2. N \in Int
      BY <1>2
    <3> HIDE DEF N
    <3>3. (N + ByteBits) % ByteBits = 0
      BY <1>2, <3>1, <3>2, MultipleUp
    <3> QED BY <3>3 DEF N
  <2> HIDE DEF v
  <2>5. v \in Writer
    BY <1>1, <1>3, <2>2, <2>3 DEF Writer
  <2>6. Aligned(v)
    BY <1>2, <1>3, <2>2, <2>3, <2>4, <2>5 DEF Aligned
  <2>7. BitsOf(v) = BitsOf(w) \o <<bit>>
    BY <2>2 DEF BitsOf
  <2> QED BY <2>2, <2>6, <2>7 DEF v
<1>5. CASE Len(w.buffer) # ByteBits
  <2>1. v = [w EXCEPT !.buffer = Append(w.buffer, bit)]
    BY <1>5 DEF bsPutBit
  <2>2. v.bytes = w.bytes /\ v.buffer = Append(w.buffer, bit) /\ v.open = w.open
        /\ v = [open |-> v.open, buffer |-> v.buffer, bytes |-> v.bytes]
    BY <1>1, <2>1 DEF Writer
  <2>3. /\ Append(w.buffer, bit) \in Seq(Bit) /\ Len(Append(w.buffer, bit)) = Len(w.buffer) + 1
        /\ Append(w.buffer, bit) # <<>> /\ Append(w.buffer, bit) = w.buffer \o <<bit>>
    BY <1>1, AppendProperties, AppendIsConcat
  <2> HIDE DEF v
  <2>4. v \in Writer
    BY <1>1, <2>2, <2>3 DEF Writer
  <2>5. Aligned(v)
    BY <1>2, <1>5, <2>2, <2>3, <2>4 DEF Aligned
  <2>6. BitsOf(v) = BitsOf(w) \o <<bit>>
    <3> DEFINE a == w.bytes
               b == w.buffer
               one == <<bit>>
    <3>1. a \in Seq(Bit) /\ b \in Seq(Bit) /\ one \in Seq(Bit)
      BY <1>1, <1>3
    <3> HIDE DEF a, b, one
    <3>2. a \o (b \o one) = (a \o b) \o one
      BY <3>1, Associative
    <3> QED BY <2>2, <2>3, <3>2 DEF BitsOf, a, b, one
  <2> QED BY <2>2, <2>5, <2>6 DEF v
<1> QED BY <1>4, <1>5

(* No bits for bsPut are none written. *)
LEMMA PutNone == ASSUME NEW w PROVE bsPut(w, <<>>) = w
  BY AccumulateNone DEF bsPut

(* One bit more for bsPut is one bit more. *)
LEMMA PutOne ==
  ASSUME NEW w \in Writer, NEW s \in Seq(Bit), NEW bit \in Bit
  PROVE  bsPut(w, Append(s, bit)) = bsPutBit(bsPut(w, s), bit)
<1>1. ASSUME NEW v \in Writer, NEW b \in Bit PROVE bsPutBit(v, b) \in Writer
  <2>1. v.bytes \in Seq(Bit) /\ v.buffer \in Seq(Bit) /\ v.open \in BOOLEAN
    BY BitsOfIs
  <2>2. <<b>> \in Seq(Bit) /\ v.bytes \o v.buffer \in Seq(Bit) /\ Append(v.buffer, b) \in Seq(Bit)
    BY <2>1, ConcatProperties, AppendProperties
  <2> QED BY <2>1, <2>2 DEF bsPutBit, Writer
<1>2. Takes(PutStep, Writer, Bit)
  BY <1>1 DEF Takes, PutStep
<1>3. /\ Accumulate(PutStep, w, s) \in Writer
      /\ Accumulate(PutStep, w, Append(s, bit)) = PutStep[<<Accumulate(PutStep, w, s), bit>>]
  BY <1>2, AccumulateOne
<1> HIDE DEF PutStep
<1>4. ASSUME NEW v \in Writer PROVE PutStep[<<v, bit>>] = bsPutBit(v, bit)
  BY DEF PutStep
<1> QED BY <1>3, <1>4 DEF bsPut

\* bsPut writes its bits behind those written.
Puts(w, s) == Aligned(bsPut(w, s)) /\ bsPut(w, s).open = w.open /\ BitsOf(bsPut(w, s)) = BitsOf(w) \o s

(* It does so with all bits, one by one. *)
LEMMA PutAll ==
  ASSUME NEW w, Aligned(w), NEW s \in Seq(Bit)
  PROVE  Puts(w, s)
<1> DEFINE P == {i \in 0..Len(s) : Puts(w, SubSeq(s, 1, i))}
<1>1. Len(s) \in Nat /\ w \in Writer /\ BitsOf(w) \in Seq(Bit)
  BY LenProperties, BitsOfIs DEF Aligned
<1>2. 0 \in P
  <2>1. SubSeq(s, 1, 0) = <<>>
    BY SubSeqEmpty
  <2>2. Puts(w, <<>>)
    BY <1>1, PutNone, ConcatEmptySeq DEF Puts
  <2>3. Puts(w, SubSeq(s, 1, 0))
    BY <2>1, <2>2, Zenon
  <2>4. 0 \in 0..Len(s)
    BY <1>1
  <2> QED BY <2>3, <2>4
<1>3. ASSUME NEW i \in 0..Len(s) - 1, i \in P PROVE i + 1 \in P
  <2> DEFINE t == SubSeq(s, 1, i)
  <2>1. i + 1 \in 1..Len(s) /\ i \in 0..Len(s) /\ 0 + 1 = 1 /\ i \in 0..Len(s) - 1
    BY <1>1
  <2>2. t \in Seq(Bit) /\ s[i + 1] \in Bit
    BY <2>1, PartIs, ElementOfSeq
  <2>3. SubSeq(s, 1, i + 1) = t \o <<s[i + 1]>>
    <3>1. SubSeq(s, 0 + 1, i + 1) = SubSeq(s, 0 + 1, i) \o <<s[i + 1]>>
      BY <2>1, PartGrows
    <3> QED BY <3>1
  <2>4. t \o <<s[i + 1]>> = Append(t, s[i + 1])
    BY <2>2, AppendIsConcat
  <2>5. Puts(w, t)
    BY <1>3
  <2> HIDE DEF t
  <2>6. bsPut(w, Append(t, s[i + 1])) = bsPutBit(bsPut(w, t), s[i + 1])
    BY <1>1, <2>2, PutOne
  <2>7. /\ Aligned(bsPutBit(bsPut(w, t), s[i + 1])) /\ bsPutBit(bsPut(w, t), s[i + 1]).open = w.open
        /\ BitsOf(bsPutBit(bsPut(w, t), s[i + 1])) = (BitsOf(w) \o t) \o <<s[i + 1]>>
    BY <2>2, <2>5, PutBit DEF Puts
  <2>8. (BitsOf(w) \o t) \o <<s[i + 1]>> = BitsOf(w) \o (t \o <<s[i + 1]>>)
    BY <1>1, <2>2, ConcatAssociative
  <2>9. Puts(w, Append(t, s[i + 1]))
    BY <2>4, <2>6, <2>7, <2>8 DEF Puts
  <2>10. Puts(w, SubSeq(s, 1, i + 1))
    BY <2>3, <2>4, <2>9
  <2> QED BY <2>1, <2>10
<1>4. Len(s) \in P
  <2> HIDE DEF P
  <2>1. 0..Len(s) \subseteq P
    BY <1>1, <1>2, <1>3, UpTo
  <2> QED BY <1>1, <2>1
<1>5. SubSeq(s, 1, Len(s)) = s
  BY SubSeqFull
<1> QED BY <1>4, <1>5

(* A file that is closed has what was written in whole bytes. *)
LEMMA CloseIs ==
  ASSUME NEW w, Aligned(w), w.buffer # <<>>
  PROVE  InBytes(bsClose(w), BitsOf(w)) /\ bsClose(w) \in Seq(Bit)
<1> DEFINE n == ByteBits - Len(w.buffer)
           zeros == [i \in 1..n |-> 0]
<1>1. w.bytes \in Seq(Bit) /\ w.buffer \in Seq(Bit) /\ BitsOf(w) \in Seq(Bit)
  BY BitsOfIs DEF Aligned
<1>2. ByteBits \in Nat \ {0} /\ Len(w.buffer) \in Nat \ {0} /\ Len(w.bytes) \in Nat /\ Len(w.buffer) <= ByteBits
  BY <1>1, MarkFacts, LenProperties, EmptySeq DEF Aligned
<1>3. n \in 0..ByteBits - 1
  BY <1>2
<1> HIDE DEF n
<1>4. zeros \in Seq(Bit) /\ Len(zeros) = n
  BY <1>3 DEF Bit
<1>5. bsClose(w) = BitsOf(w) \o zeros
  BY DEF bsClose, BitsOf, n
<1> HIDE DEF zeros
<1>6. bsClose(w) \in Seq(Bit) /\ Len(bsClose(w)) = Len(w.bytes) + ByteBits
  <2> DEFINE x == BitsOf(w)
             y == x \o zeros
  <2>1. Len(x) = Len(w.bytes) + Len(w.buffer)
    BY <1>1, ConcatProperties DEF BitsOf
  <2>2. x \in Seq(Bit)
    BY <1>1
  <2> HIDE DEF x
  <2>3. y \in Seq(Bit) /\ Len(y) = Len(x) + n
    BY <1>4, <2>2, ConcatProperties
  <2>4. n = ByteBits - Len(w.buffer)
    BY DEF n
  <2>5. bsClose(w) = y
    BY <1>5 DEF x
  <2> HIDE DEF y
  <2>6. Len(y) = Len(w.bytes) + ByteBits
    <3> DEFINE a == Len(w.bytes)
               b == Len(w.buffer)
    <3>1. a \in Nat /\ b \in Nat /\ Len(y) = a + b + n /\ n = ByteBits - b
      BY <1>2, <2>1, <2>3, <2>4
    <3> HIDE DEF a, b
    <3>2. Len(y) = a + ByteBits
      BY <1>2, <3>1
    <3> QED BY <3>2 DEF a
  <2> QED BY <2>3, <2>5, <2>6
<1>7. (Len(w.bytes) + ByteBits) % ByteBits = 0
  <2> DEFINE N == Len(w.bytes)
  <2>1. N % ByteBits = 0
    BY AlignedIs
  <2>2. N \in Int
    BY <1>2
  <2> HIDE DEF N
  <2>3. (N + ByteBits) % ByteBits = 0
    BY <1>2, <2>1, <2>2, MultipleUp
  <2> QED BY <2>3 DEF N
<1> QED BY <1>3, <1>5, <1>6, <1>7 DEF InBytes, zeros

(* The end of an output: the end mark and a CRC behind what was written, in whole bytes. *)
LEMMA EndFileIs ==
  ASSUME NEW w, Aligned(w), NEW crc \in Seq(Bit)
  PROVE  /\ EndFile(w, crc) \in Seq(Bit)
         /\ InBytes(EndFile(w, crc), (BitsOf(w) \o EndMark) \o crc)
<1> DEFINE v == bsPut(w, EndMark)
           u == bsPut(v, crc)
<1>1. EndMark \in Seq(Bit) /\ EndMark # <<>> /\ Len(EndMark) \in Nat \ {0}
  BY MarkFacts, EmptySeq, MarkAssumption
<1>2. Aligned(v) /\ BitsOf(v) = BitsOf(w) \o EndMark
  BY <1>1, PutAll DEF Puts
<1> HIDE DEF v
<1>3. Aligned(u) /\ BitsOf(u) = BitsOf(v) \o crc
  BY <1>2, PutAll DEF Puts
<1> HIDE DEF u
<1>4. u.buffer # <<>>
  <2> SUFFICES ASSUME u.buffer = <<>> PROVE FALSE
    OBVIOUS
  <2>1. u.bytes = <<>>
    BY <1>3, AlignedIs
  <2>2. BitsOf(u) = <<>>
    BY <2>1 DEF BitsOf
  <2>3. w \in Writer /\ BitsOf(w) \in Seq(Bit)
    BY AlignedIs, BitsOfIs
  <2>4. BitsOf(v) \in Seq(Bit)
    BY <1>1, <1>2, <2>3, ConcatProperties
  <2>5. BitsOf(v) \o crc = <<>>
    BY <1>3, <2>2
  <2>6. BitsOf(v) = <<>>
    BY <2>4, <2>5, ConcatEqualIffEmpty
  <2>7. EndMark = <<>>
    <3> DEFINE x == BitsOf(w)
    <3>1. x \o EndMark = <<>>
      BY <1>2, <2>6
    <3>2. x \in Seq(Bit)
      BY <2>3
    <3> HIDE DEF x
    <3> QED BY <1>1, <3>1, <3>2, ConcatEqualIffEmpty
  <2> QED BY <1>1, <2>7
<1>5. InBytes(bsClose(u), BitsOf(u)) /\ bsClose(u) \in Seq(Bit)
  BY <1>3, <1>4, CloseIs
<1>6. EndFile(w, crc) = bsClose(u)
  BY DEF EndFile, u, v
<1> QED BY <1>2, <1>3, <1>5, <1>6

(* A bsWr that is closed has written nothing. *)
LEMMA NoFileIs == Aligned(NoFile) /\ ~NoFile.open
<1>1. NoFile = [open |-> FALSE, buffer |-> <<>>, bytes |-> <<>>]
  BY DEF NoFile
<1>2. NoFile \in Writer /\ NoFile.buffer = <<>> /\ NoFile.bytes = <<>> /\ ~NoFile.open
  BY <1>1 DEF Writer
<1>3. Len(NoFile.bytes) = 0 /\ Len(NoFile.buffer) = 0
  BY <1>2
<1>4. 0 % ByteBits = 0 /\ 0 <= ByteBits
  BY MarkFacts
<1> QED BY <1>2, <1>3, <1>4 DEF Aligned

(* A file that is begun has the headers. *)
LEMMA BeginFileIs == Aligned(BeginFile) /\ BeginFile.open /\ BitsOf(BeginFile) = Header /\ Header \in Seq(Bit)
<1> DEFINE w == [NoFile EXCEPT !.open = TRUE]
<1>1. Header \in Seq(Bit)
  BY MarkFacts, ConcatProperties DEF Header
<1>2. NoFile \in Writer /\ NoFile.buffer = <<>> /\ NoFile.bytes = <<>>
  BY DEF NoFile, Writer
<1>3. w.open /\ w.buffer = <<>> /\ w.bytes = <<>>
  BY <1>2 DEF Writer
<1>4. w \in Writer
  BY <1>2 DEF Writer
<1> HIDE DEF w
<1>5. Aligned(w)
  <2>1. Len(w.bytes) = 0 /\ Len(w.buffer) = 0
    BY <1>3
  <2>2. 0 % ByteBits = 0 /\ 0 <= ByteBits
    BY MarkFacts
  <2> QED BY <1>3, <1>4, <2>1, <2>2 DEF Aligned
<1>6. BitsOf(w) = <<>>
  BY <1>3 DEF BitsOf
<1>7. Puts(w, Header)
  BY <1>1, <1>5, PutAll
<1>8. BeginFile = bsPut(w, Header)
  BY DEF BeginFile, Header, w
<1>9. <<>> \o Header = Header
  BY <1>1, ConcatEmptySeq
<1> QED BY <1>1, <1>3, <1>6, <1>7, <1>8, <1>9 DEF Puts

-----------------------------------------------------------------------------
(* Both passes *)

(* The locals of main. *)
LEMMA ScanIs ==
  ASSUME RTypeOK
  PROVE  /\ scan.pc \in {"search", "split", "finished", "failed"} /\ scan.bitsRead \in Nat /\ scan.buff \in Seq(Bit)
         /\ scan.currBlock \in Nat /\ scan.start \in Nat /\ scan.rb \in Seq(Boundary) /\ scan.wrBlock \in Nat
         /\ scan.blockCRC \in Seq(Bit)
         /\ image.bits \in Seq(Bit) /\ Len(image.bits) \in Nat /\ scan.bitsRead <= Len(image.bits)
         /\ Len(scan.rb) \in Nat /\ \A i \in 1..Len(scan.rb) : scan.rb[i] \in Boundary /\ scan.rb[i].start \in Nat /\ scan.rb[i].end \in Nat
<1>1. scan \in Scans /\ image \in Images /\ scan.bitsRead <= Len(image.bits)
  BY DEF RTypeOK
<1>2. /\ scan.pc \in {"search", "split", "finished", "failed"} /\ scan.bitsRead \in Nat /\ scan.buff \in Seq(Bit)
      /\ scan.currBlock \in Nat /\ scan.start \in Nat /\ scan.rb \in Seq(Boundary) /\ scan.wrBlock \in Nat
      /\ scan.blockCRC \in Seq(Bit)
  BY <1>1 DEF Scans, Boundary
<1>3. image.bits \in Seq(Bit) /\ Len(image.bits) \in Nat
  BY <1>1, ImageAssumption, LenProperties
<1>4. Len(scan.rb) \in Nat
  BY <1>2, LenProperties
<1>5. ASSUME NEW i \in 1..Len(scan.rb) PROVE scan.rb[i] \in Boundary
  BY <1>2, ElementOfSeq
<1>6. \A b \in Boundary : b.start \in Nat /\ b.end \in Nat
  BY DEF Boundary
<1> QED BY <1>1, <1>2, <1>3, <1>4, <1>5, <1>6

(* The bit that is read. *)
LEMMA BitRead ==
  ASSUME RTypeOK, ~AtEnd
  PROVE  /\ scan.bitsRead \in 0..Len(image.bits) - 1 /\ scan.bitsRead + 1 \in 0..Len(image.bits)
         /\ bsGetBit = image.bits[scan.bitsRead + 1] /\ bsGetBit \in Bit
<1>1. scan.bitsRead \in Nat /\ Len(image.bits) \in Nat /\ scan.bitsRead <= Len(image.bits) /\ image.bits \in Seq(Bit)
  BY ScanIs
<1>2. scan.bitsRead # Len(image.bits)
  BY DEF AtEnd
<1>3. scan.bitsRead \in 0..Len(image.bits) - 1 /\ scan.bitsRead + 1 \in 1..Len(image.bits)
  BY <1>1, <1>2
<1>4. image.bits[scan.bitsRead + 1] \in Bit
  BY <1>1, <1>3, ElementOfSeq
<1> QED BY <1>3, <1>4 DEF bsGetBit

(* What is in order up to a place is so up to a later one. *)
LEMMA OrderedLater ==
  ASSUME NEW rb \in Seq(Boundary), NEW last \in Nat, NEW m \in Nat, last <= m, Ordered(rb, last)
  PROVE  Ordered(rb, m)
<1>1. MarkBits \in Nat
  BY MarkFacts
<1>2. ASSUME NEW i \in 1..Len(rb) PROVE rb[i].end + 1 + MarkBits <= m
  <2>1. rb[i] \in Boundary
    BY ElementOfSeq
  <2>2. rb[i].end \in Nat /\ rb[i].end + 1 + MarkBits <= last
    BY <2>1 DEF Ordered, Boundary
  <2> QED BY <1>1, <2>2
<1> QED BY <1>2 DEF Ordered

(* MarkEnds are places. *)
LEMMA MarkIsNat ==
  ASSUME NEW bits \in Seq(Bit), NEW m \in MarkEnds(bits)
  PROVE  m \in Nat /\ MarkBits <= m /\ m <= Len(bits)
<1>1. MarkBits \in Nat \ {0} /\ Len(bits) \in Nat
  BY MarkFacts, LenProperties
<1>2. m \in MarkBits..Len(bits)
  BY DEF MarkEnds, MarkBits
<1> QED BY <1>1, <1>2

-----------------------------------------------------------------------------
(* The first pass *)

(* The registers after the next bit. *)
LEMMA SearchShift ==
  ASSUME RTypeOK, Searching, ~AtEnd
  PROVE  LET buff == Shifted(scan.buff, bsGetBit)
             n == scan.bitsRead + 1
         IN  /\ buff \in Seq(Bit) /\ Len(buff) = (IF n < MarkBits THEN n ELSE MarkBits)
             /\ LastBits(image.bits, n, buff)
             /\ buff \in {BlockHeader, EndMark} <=> n \in MarkEnds(image.bits)
<1> DEFINE bits == image.bits
           n == scan.bitsRead
           buff == Shifted(scan.buff, bsGetBit)
<1>1. /\ n \in 0..Len(bits) - 1 /\ n + 1 \in 0..Len(bits) /\ bsGetBit = bits[n + 1]
      /\ bits \in Seq(Bit) /\ Len(bits) \in Nat /\ scan.buff \in Seq(Bit) /\ n \in Nat
  BY BitRead, ScanIs
<1>2. MarkBits \in Nat \ {0}
  BY MarkFacts
<1>3. /\ buff \in Seq(Bit) /\ Len(buff) = (IF n + 1 < MarkBits THEN n + 1 ELSE MarkBits)
      /\ LastBits(bits, n + 1, buff)
  <2>1. Len(scan.buff) = (IF n < MarkBits THEN n ELSE MarkBits) /\ LastBits(bits, n, scan.buff)
    BY DEF Searching
  <2>2. Len(scan.buff) <= MarkBits
    BY <1>1, <1>2, <2>1
  <2> HIDE DEF n, bits
  <2>3. /\ buff \in Seq(Bit) /\ Len(buff) = (IF Len(scan.buff) < MarkBits THEN Len(scan.buff) + 1 ELSE MarkBits)
        /\ LastBits(bits, n + 1, buff)
    BY <1>1, <2>1, <2>2, ShiftedIs
  <2> HIDE DEF buff
  <2> QED BY <1>1, <1>2, <2>1, <2>3
<1>4. buff \in {BlockHeader, EndMark} <=> n + 1 \in MarkEnds(bits)
  <2> HIDE DEF n, bits, buff
  <2> QED BY <1>1, <1>3, MarkSeen
<1> QED BY <1>3, <1>4

(* A bit at which no mark ends. *)
LEMMA SearchNone ==
  ASSUME RTypeOK, Searching, ~AtEnd,
         Shifted(scan.buff, bsGetBit) \notin {BlockHeader, EndMark},
         scan' = [scan EXCEPT !.bitsRead = scan.bitsRead + 1, !.buff = Shifted(scan.buff, bsGetBit)],
         UNCHANGED <<image, taken, wr, made>>
  PROVE  RTypeOK' /\ Searching' /\ scan'.pc = scan.pc
<1> DEFINE bits == image.bits
           n == scan.bitsRead
           buff == Shifted(scan.buff, bsGetBit)
<1>1. /\ n \in 0..Len(bits) - 1 /\ n + 1 \in 0..Len(bits) /\ bsGetBit = bits[n + 1]
      /\ bits \in Seq(Bit) /\ Len(bits) \in Nat /\ scan.buff \in Seq(Bit) /\ n \in Nat
  BY BitRead, ScanIs
<1>2. MarkBits \in Nat \ {0}
  BY MarkFacts
<1>3. scan \in Scans
  BY DEF RTypeOK
<1>4. /\ buff \in Seq(Bit) /\ Len(buff) = (IF n + 1 < MarkBits THEN n + 1 ELSE MarkBits)
      /\ LastBits(bits, n + 1, buff) /\ (buff \in {BlockHeader, EndMark} <=> n + 1 \in MarkEnds(bits))
  BY SearchShift
<1>5. n + 1 \notin MarkEnds(bits)
  BY <1>4
<1> HIDE DEF buff
<1>6. scan' = [scan EXCEPT !.bitsRead = n + 1, !.buff = buff]
  BY DEF buff
<1>7. /\ scan'.pc = scan.pc /\ scan'.bitsRead = n + 1 /\ scan'.buff = buff /\ scan'.currBlock = scan.currBlock
      /\ scan'.start = scan.start /\ scan'.rb = scan.rb /\ scan'.wrBlock = scan.wrBlock /\ scan' \in Scans
  <2>1. n + 1 \in Nat /\ buff \in Seq(Bit)
    BY <1>1, <1>4
  <2> HIDE DEF n
  <2> QED BY <1>3, <1>6, <2>1 DEF Scans
<1>8. image' = image /\ wr' = wr /\ made' = made
  OBVIOUS
<1>9. RTypeOK'
  BY <1>1, <1>7, <1>8 DEF RTypeOK
<1>10. Searching'
  <2>1. scan.start \in Nat /\ scan.rb \in Seq(Boundary)
    BY ScanIs
  <2>2. /\ scan.wrBlock = 0 /\ ~wr.open /\ scan.start <= n
        /\ \A m \in MarkEnds(bits) : m <= n => scan.currBlock > 0 /\ m <= scan.start
        /\ scan.currBlock > 0 => scan.start \in MarkEnds(bits)
        /\ Ordered(scan.rb, scan.start) /\ Complete(bits, scan.rb, n)
    BY DEF Searching
  <2>3. ASSUME NEW m \in MarkEnds(bits), m <= n + 1 PROVE m <= n
    <3>1. m \in Nat /\ m # n + 1
      BY <1>1, <1>2, <1>5, MarkIsNat
    <3> QED BY <1>1, <2>3, <3>1
  <2>4. Complete(bits, scan.rb, n + 1)
    BY <2>2, <2>3 DEF Complete
  <2>5. scan.start <= n + 1
    BY <1>1, <2>1, <2>2
  <2> HIDE DEF n
  <2> QED BY <1>4, <1>7, <1>8, <2>2, <2>3, <2>4, <2>5 DEF Searching
<1> QED BY <1>7, <1>9, <1>10

(* A boundary more is in order when it comes after. *)
LEMMA OrderedMore ==
  ASSUME NEW rb \in Seq(Boundary), NEW e \in Boundary, NEW last \in Nat, Ordered(rb, last),
         last <= e.start, MarkBits <= e.start, last <= e.end + MarkBits,
         e.start <= e.end => e.start + MinBits <= e.end
  PROVE  Append(rb, e) \in Seq(Boundary) /\ Ordered(Append(rb, e), e.end + 1 + MarkBits)
<1> DEFINE k == Len(rb)
           a == Append(rb, e)
<1>1. k \in Nat /\ MarkBits \in Nat \ {0} /\ e.start \in Nat /\ e.end \in Nat
  BY MarkFacts, LenProperties DEF Boundary
<1>2. a \in Seq(Boundary) /\ Len(a) = k + 1 /\ (\A i \in 1..k : a[i] = rb[i]) /\ a[k + 1] = e
  BY AppendProperties
<1> HIDE DEF a, k
<1>3. ASSUME NEW i \in 1..k
      PROVE  /\ rb[i].start \in Nat /\ rb[i].end \in Nat /\ MarkBits <= rb[i].start /\ rb[i].end + 1 + MarkBits <= last
             /\ rb[i].start <= rb[i].end => rb[i].start + MinBits <= rb[i].end
  <2>1. rb[i] \in Boundary
    BY <1>3, ElementOfSeq DEF k
  <2> QED BY <1>3, <2>1 DEF Ordered, Boundary, k
<1>4. ASSUME NEW i \in 1..Len(a)
      PROVE  /\ MarkBits <= a[i].start /\ a[i].end + 1 + MarkBits <= e.end + 1 + MarkBits
             /\ a[i].start <= a[i].end => a[i].start + MinBits <= a[i].end
  <2>1. CASE i = k + 1
    BY <1>1, <1>2, <2>1
  <2>2. CASE i # k + 1
    <3>1. i \in 1..k /\ a[i] = rb[i]
      BY <1>1, <1>2, <2>2
    <3>2. rb[i].end + 1 <= e.end
      BY <1>1, <1>3, <3>1
    <3> QED BY <1>1, <1>3, <3>1, <3>2
  <2> QED BY <2>1, <2>2
<1>5. ASSUME NEW i \in 1..Len(a) - 1 PROVE a[i].end + 1 < a[i + 1].start /\ a[i].end < a[i + 1].end
  <2>1. i \in 1..k /\ a[i] = rb[i]
    BY <1>1, <1>2
  <2>2. CASE i = k
    <3>1. a[i + 1] = e
      BY <1>2, <2>2
    <3> QED BY <1>1, <1>3, <2>1, <3>1
  <2>3. CASE i # k
    <3>1. i \in 1..Len(rb) - 1 /\ i + 1 \in 1..k
      BY <1>1, <2>1, <2>3 DEF k
    <3>2. a[i + 1] = rb[i + 1]
      BY <1>2, <3>1
    <3> QED BY <2>1, <3>1, <3>2 DEF Ordered
  <2> QED BY <2>2, <2>3
<1> QED BY <1>2, <1>4, <1>5 DEF Ordered, a

(* A bit at which a mark ends. *)
LEMMA SearchMark ==
  ASSUME RTypeOK, Searching, ~AtEnd,
         Shifted(scan.buff, bsGetBit) \in {BlockHeader, EndMark},
         NEW rb, rb = IF IsBlock(scan.start, EndBefore(scan.bitsRead + 1))
                      THEN Append(scan.rb, [start |-> scan.start, end |-> EndBefore(scan.bitsRead + 1)]) ELSE scan.rb,
         scan' = [scan EXCEPT !.bitsRead = scan.bitsRead + 1, !.buff = Shifted(scan.buff, bsGetBit), !.rb = rb,
                              !.currBlock = scan.currBlock + 1, !.start = scan.bitsRead + 1],
         UNCHANGED <<image, taken, wr, made>>
  PROVE  RTypeOK' /\ Searching' /\ scan'.pc = scan.pc
<1> DEFINE bits == image.bits
           n == scan.bitsRead
           buff == Shifted(scan.buff, bsGetBit)
           start == scan.start
           end == EndBefore(n + 1)
           e == [start |-> start, end |-> end]
<1>1. /\ n \in 0..Len(bits) - 1 /\ n + 1 \in 0..Len(bits) /\ n \in Nat /\ bits \in Seq(Bit) /\ Len(bits) \in Nat
      /\ start \in Nat /\ scan.rb \in Seq(Boundary) /\ scan.currBlock \in Nat /\ Len(scan.rb) \in Nat
  BY BitRead, ScanIs
<1>2. MarkBits \in Nat \ {0} /\ MinBits \in Nat
  BY MarkFacts
<1>3. scan \in Scans
  BY DEF RTypeOK
<1>4. /\ buff \in Seq(Bit) /\ Len(buff) = (IF n + 1 < MarkBits THEN n + 1 ELSE MarkBits)
      /\ LastBits(bits, n + 1, buff) /\ (buff \in {BlockHeader, EndMark} <=> n + 1 \in MarkEnds(bits))
  BY SearchShift
<1>5. n + 1 \in MarkEnds(bits)
  BY <1>4
<1>6. /\ scan.wrBlock = 0 /\ ~wr.open /\ start <= n
      /\ \A m \in MarkEnds(bits) : m <= n => scan.currBlock > 0 /\ m <= start
      /\ scan.currBlock > 0 => start \in MarkEnds(bits)
      /\ Ordered(scan.rb, start) /\ Complete(bits, scan.rb, n)
  BY DEF Searching
<1>7. /\ end \in Nat
      /\ scan.currBlock > 0 => MarkBits <= start /\ end = n - MarkBits
  <2>1. end = IF n + 1 > MarkBits + 1 THEN (n + 1) - (MarkBits + 1) ELSE 0
    BY DEF EndBefore, MarkBits
  <2>2. scan.currBlock > 0 => MarkBits <= start
    BY <1>1, <1>6, MarkIsNat
  <2> HIDE DEF end, n, start
  <2> QED BY <1>1, <1>2, <1>6, <2>1, <2>2
<1>8. IsBlock(start, end) <=> scan.currBlock > 0 /\ (end < start \/ end - start >= MinBits)
  BY DEF IsBlock
<1>9. rb = IF IsBlock(start, end) THEN Append(scan.rb, e) ELSE scan.rb
  OBVIOUS
<1>10. scan' = [scan EXCEPT !.bitsRead = n + 1, !.buff = buff, !.rb = rb, !.currBlock = scan.currBlock + 1, !.start = n + 1]
  OBVIOUS
<1> HIDE DEF end
<1>11. e \in Boundary /\ e.start = start /\ e.end = end
  BY <1>1, <1>7 DEF Boundary
<1> HIDE DEF e, buff, start
<1>12. rb \in Seq(Boundary) /\ Ordered(rb, n + 1)
  <2>1. CASE IsBlock(start, end)
    <3>1. /\ MarkBits <= start /\ end = n - MarkBits /\ end + 1 + MarkBits = n + 1 /\ start <= end + MarkBits
          /\ start <= end => start + MinBits <= end
      <4> HIDE DEF n
      <4> QED BY <1>1, <1>2, <1>6, <1>7, <1>8, <2>1
    <3>2. /\ start <= e.start /\ MarkBits <= e.start /\ start <= e.end + MarkBits
          /\ e.start <= e.end => e.start + MinBits <= e.end
      BY <1>1, <1>11, <3>1
    <3>3. Append(scan.rb, e) \in Seq(Boundary) /\ Ordered(Append(scan.rb, e), e.end + 1 + MarkBits)
      BY <1>1, <1>6, <1>11, <3>2, OrderedMore
    <3> QED BY <1>9, <1>11, <2>1, <3>1, <3>3
  <2>2. CASE ~IsBlock(start, end)
    <3>1. rb = scan.rb /\ start <= n + 1 /\ n + 1 \in Nat
      BY <1>1, <1>6, <1>9, <2>2
    <3> HIDE DEF n
    <3> QED BY <1>1, <1>6, <3>1, OrderedLater
  <2> QED BY <2>1, <2>2
<1>13. Complete(bits, rb, n + 1)
  <2> HIDE DEF n, bits
  <2>1. SUFFICES ASSUME NEW s \in MarkEnds(bits), NEW t \in MarkEnds(bits), Neighbours(bits, s, t), t <= n + 1,
                        t - s - MarkBits > MinBits
                 PROVE  \E i \in 1..Len(rb) : rb[i] = [start |-> s, end |-> t - MarkBits - 1]
    BY DEF Complete
  <2>2. s \in Nat /\ t \in Nat /\ s < t
    BY <1>1, <2>1, MarkIsNat DEF Neighbours
  <2>3. CASE t <= n
    <3>1. PICK i \in 1..Len(scan.rb) : scan.rb[i] = [start |-> s, end |-> t - MarkBits - 1]
      BY <1>6, <2>1, <2>3 DEF Complete
    <3>2. CASE IsBlock(start, end)
      <4>1. rb = Append(scan.rb, e)
        BY <1>9, <3>2
      <4>2. Len(rb) = Len(scan.rb) + 1 /\ rb[i] = scan.rb[i]
        BY <1>1, <1>11, <4>1, AppendProperties
      <4> QED BY <1>1, <3>1, <4>2
    <3>3. CASE ~IsBlock(start, end)
      BY <1>9, <3>1, <3>3
    <3> QED BY <3>2, <3>3
  <2>4. CASE ~(t <= n)
    <3>1. t = n + 1 /\ s <= n
      BY <1>1, <2>1, <2>2, <2>4
    <3>2. scan.currBlock > 0 /\ s <= start /\ start \in MarkEnds(bits)
      BY <1>6, <3>1
    <3>3. s = start
      <4>1. start <= s \/ t <= start
        BY <2>1, <3>2 DEF Neighbours
      <4> QED BY <1>1, <1>6, <2>2, <3>1, <3>2, <4>1
    <3>4. IsBlock(start, end) /\ end = t - MarkBits - 1
      BY <1>1, <1>2, <1>7, <1>8, <2>1, <2>2, <3>1, <3>2, <3>3
    <3>5. rb = Append(scan.rb, e)
      BY <1>9, <3>4
    <3>6. Len(rb) = Len(scan.rb) + 1 /\ rb[Len(scan.rb) + 1] = e
      BY <1>1, <1>11, <3>5, AppendProperties
    <3>7. e = [start |-> s, end |-> t - MarkBits - 1]
      BY <3>3, <3>4 DEF e
    <3>8. Len(scan.rb) + 1 \in 1..Len(rb)
      BY <1>1, <3>6
    <3> QED BY <3>6, <3>7, <3>8
  <2> QED BY <2>3, <2>4
<1>14. /\ scan'.pc = scan.pc /\ scan'.bitsRead = n + 1 /\ scan'.buff = buff /\ scan'.currBlock = scan.currBlock + 1
       /\ scan'.start = n + 1 /\ scan'.rb = rb /\ scan'.wrBlock = scan.wrBlock /\ scan' \in Scans
  <2>1. n + 1 \in Nat /\ buff \in Seq(Bit) /\ scan.currBlock + 1 \in Nat /\ rb \in Seq(Boundary)
    BY <1>1, <1>4, <1>12
  <2> HIDE DEF n
  <2> QED BY <1>3, <1>10, <2>1 DEF Scans
<1>15. image' = image /\ wr' = wr /\ made' = made
  OBVIOUS
<1>16. RTypeOK'
  BY <1>1, <1>14, <1>15 DEF RTypeOK
<1>17. Searching'
  <2>1. \A m \in MarkEnds(bits) : m <= n + 1 => scan.currBlock + 1 > 0 /\ m <= n + 1
    BY <1>1
  <2>2. n + 1 <= n + 1
    BY <1>1
  <2> HIDE DEF n
  <2> QED BY <1>4, <1>5, <1>6, <1>12, <1>13, <1>14, <1>15, <2>1, <2>2 DEF Searching
<1> QED BY <1>14, <1>16, <1>17

(* A program that fails claims nothing. *)
LEMMA FailedStep ==
  ASSUME RInv, scan' = [scan EXCEPT !.pc = "failed"], UNCHANGED <<image, taken, wr, made>>
  PROVE  RInv'
<1>1. scan \in Scans /\ RTypeOK
  BY DEF RInv, RTypeOK
<1>2. scan'.pc = "failed" /\ scan' \in Scans /\ scan'.bitsRead = scan.bitsRead
  BY <1>1 DEF Scans
<1>3. RTypeOK'
  BY <1>1, <1>2 DEF RTypeOK
<1> QED BY <1>2, <1>3 DEF RInv, BlocksRecovered

(* The first pass. *)
LEMMA SearchStep == ASSUME RInv, Search PROVE RInv'
<1> DEFINE n == scan.bitsRead + 1
           buff == Shifted(scan.buff, bsGetBit)
           end == EndBefore(n)
           rb == IF IsBlock(scan.start, end) THEN Append(scan.rb, [start |-> scan.start, end |-> end]) ELSE scan.rb
<1>1. RTypeOK /\ Searching /\ ~AtEnd /\ scan.pc = "search" /\ UNCHANGED <<image, taken, wr, made>>
  BY DEF RInv, Search
<1>2. scan' = IF buff \notin {BlockHeader, EndMark} THEN [scan EXCEPT !.bitsRead = n, !.buff = buff]
              ELSE IF tooManyBlocks THEN [scan EXCEPT !.pc = "failed"]
              ELSE [scan EXCEPT !.bitsRead = n, !.buff = buff, !.rb = rb, !.currBlock = scan.currBlock + 1, !.start = n]
  BY DEF Search
<1>3. ASSUME RTypeOK', Searching', scan'.pc = scan.pc PROVE RInv'
  BY <1>1, <1>3 DEF RInv, BlocksRecovered
<1>4. CASE buff \notin {BlockHeader, EndMark}
  <2>1. scan' = [scan EXCEPT !.bitsRead = scan.bitsRead + 1, !.buff = Shifted(scan.buff, bsGetBit)]
    BY <1>2, <1>4
  <2>2. Shifted(scan.buff, bsGetBit) \notin {BlockHeader, EndMark}
    BY <1>4
  <2> QED BY <1>1, <1>3, <2>1, <2>2, SearchNone
<1>5. CASE buff \in {BlockHeader, EndMark} /\ tooManyBlocks
  <2>1. scan' = [scan EXCEPT !.pc = "failed"]
    BY <1>2, <1>5
  <2> QED BY <1>1, <2>1, FailedStep
<1>6. CASE buff \in {BlockHeader, EndMark} /\ ~tooManyBlocks
  <2>1. scan' = [scan EXCEPT !.bitsRead = scan.bitsRead + 1, !.buff = Shifted(scan.buff, bsGetBit), !.rb = rb,
                             !.currBlock = scan.currBlock + 1, !.start = scan.bitsRead + 1]
    BY <1>2, <1>6
  <2>2. Shifted(scan.buff, bsGetBit) \in {BlockHeader, EndMark}
    BY <1>6
  <2>3. rb = IF IsBlock(scan.start, EndBefore(scan.bitsRead + 1))
             THEN Append(scan.rb, [start |-> scan.start, end |-> EndBefore(scan.bitsRead + 1)]) ELSE scan.rb
    OBVIOUS
  <2> HIDE DEF rb
  <2> QED BY <1>1, <1>3, <2>1, <2>2, <2>3, SearchMark
<1> QED BY <1>4, <1>5, <1>6

(* From the first pass to the second. *)
LEMMA SearchedStep == ASSUME RInv, Searched PROVE RInv'
<1> DEFINE bits == image.bits
           rb == scan.rb
<1>1. RTypeOK /\ Searching /\ scan.pc = "search" /\ UNCHANGED <<image, taken, wr, made>> /\ scan.bitsRead = Len(bits)
  BY DEF RInv, Searched, AtEnd
<1>2. CASE rb = <<>>
  <2>1. scan' = [scan EXCEPT !.pc = "failed"]
    BY <1>2 DEF Searched
  <2> QED BY <1>1, <2>1, FailedStep
<1>3. CASE rb # <<>>
  <2>1. scan' = [scan EXCEPT !.pc = "split", !.bitsRead = 0] /\ scan \in Scans
    BY <1>1, <1>3 DEF Searched, RTypeOK
  <2>2. /\ scan'.pc = "split" /\ scan'.bitsRead = 0 /\ scan'.buff = scan.buff /\ scan'.rb = rb
        /\ scan'.wrBlock = scan.wrBlock /\ scan' \in Scans
    BY <2>1 DEF Scans
  <2>3. image' = image /\ wr' = wr /\ made' = made
    BY <1>1
  <2>4. /\ Len(bits) \in Nat /\ rb \in Seq(Boundary) /\ scan.start \in Nat /\ scan.buff \in Seq(Bit) /\ Len(scan.buff) \in Nat
        /\ \A i \in 1..Len(rb) : rb[i] \in Boundary /\ rb[i].start \in Nat /\ rb[i].end \in Nat
    BY <1>1, ScanIs, LenProperties
  <2>5. MarkBits \in Nat \ {0}
    BY MarkFacts
  <2>6. RTypeOK'
    BY <1>1, <2>2, <2>3, <2>4 DEF RTypeOK
  <2>7. Len(rb) \in Nat \ {0}
    BY <1>3, <2>4, EmptySeq
  <2>8. /\ Len(scan.buff) = (IF Len(bits) < MarkBits THEN Len(bits) ELSE MarkBits)
        /\ scan.wrBlock = 0 /\ ~wr.open /\ scan.start <= Len(bits)
        /\ Ordered(rb, scan.start) /\ Complete(bits, rb, Len(bits))
    BY <1>1 DEF Searching
  <2>9. Ordered(rb, Len(bits))
    BY <2>4, <2>8, OrderedLater
  <2>10. 1 \in 1..Len(rb) /\ MarkBits <= rb[1].start /\ rb[1].end + 1 + MarkBits <= Len(bits)
    BY <2>7, <2>9 DEF Ordered
  <2>11. Len(scan.buff) = MarkBits
    <3>1. rb[1].start \in Nat /\ rb[1].end \in Nat
      BY <2>4, <2>10
    <3> HIDE DEF rb, bits
    <3> QED BY <2>4, <2>5, <2>8, <2>10, <3>1
  <2>12. LastBits(bits, 0, scan.buff)
    BY <2>4 DEF LastBits
  <2>13. Current(rb[1])'
    <3>1. rb[1].start \in Nat /\ rb[1].end \in Nat
      BY <2>4, <2>10
    <3> DEFINE b == rb[1]
    <3>2. 0 <= b.end /\ ~(b.start <= 0) /\ ~(b.start + MarkBits <= 0)
      BY <2>5, <2>10, <3>1
    <3>3. scan'.bitsRead = 0 /\ ~wr'.open /\ b' = b
      BY <2>2, <2>3, <2>8
    <3> HIDE DEF b
    <3> SUFFICES Current(b)'
      BY DEF b
    <3> QED BY <3>2, <3>3 DEF Current
  <2>14. Splitting'
    <3>1. scan'.wrBlock = 0 /\ 0 < Len(rb) /\ 0 + 1 = 1 /\ 1..0 = {} /\ 0 <= Len(rb)
      BY <2>2, <2>7, <2>8
    <3>2. scan'.rb[scan'.wrBlock + 1] = rb[1]
      BY <2>2, <3>1
    <3>3. Current(scan.rb[scan.wrBlock + 1])'
      BY <2>2, <2>13, <3>2
    <3> HIDE DEF rb
    <3> QED BY <2>2, <2>3, <2>8, <2>9, <2>11, <2>12, <3>1, <3>3 DEF Splitting, rb
  <2> QED BY <2>2, <2>6, <2>14 DEF RInv, BlocksRecovered
<1> QED BY <1>2, <1>3

-----------------------------------------------------------------------------
(* The second pass *)

\* What Split makes of the registers, of the CRC, of bsWr, and of the locals.
NextBuff == Shifted(scan.buff, bsGetBit)
NextCRC  == IF CrcSeen THEN SubSeq(NextBuff, 1, CrcBits) ELSE scan.blockCRC
NextWriter == IF wr.open /\ scan.bitsRead \in Block.start..Block.end THEN bsPutBit(wr, bsGetBit) ELSE wr
NextScan == [scan EXCEPT !.bitsRead = scan.bitsRead + 1, !.buff = NextBuff, !.blockCRC = NextCRC]

(* The block that is written is one of those found. *)
LEMMA BlockIs ==
  ASSUME RTypeOK, Splitting, scan.wrBlock < Len(scan.rb)
  PROVE  LET i == scan.wrBlock + 1
         IN  /\ i \in 1..Len(scan.rb) /\ Block = scan.rb[i] /\ Block.start \in Nat /\ Block.end \in Nat
             /\ Current(Block) /\ MarkBits <= Block.start /\ Block.end + 1 + MarkBits <= Len(image.bits)
             /\ Block.start <= Block.end => Block.start + MinBits <= Block.end
<1> DEFINE i == scan.wrBlock + 1
<1>1. scan.wrBlock \in Nat /\ Len(scan.rb) \in Nat
  BY ScanIs
<1>2. i \in 1..Len(scan.rb)
  BY <1>1
<1>3. Block = scan.rb[i]
  BY DEF Block
<1>4. scan.rb[i].start \in Nat /\ scan.rb[i].end \in Nat
  BY <1>2, ScanIs
<1>5. Current(scan.rb[i]) /\ Ordered(scan.rb, Len(image.bits))
  BY DEF Splitting
<1> HIDE DEF i
<1>6. /\ MarkBits <= scan.rb[i].start /\ scan.rb[i].end + 1 + MarkBits <= Len(image.bits)
      /\ scan.rb[i].start <= scan.rb[i].end => scan.rb[i].start + MinBits <= scan.rb[i].end
  BY <1>2, <1>5 DEF Ordered
<1> QED BY <1>2, <1>3, <1>4, <1>5, <1>6 DEF i

(* The registers after the next bit. *)
LEMMA SplitShift ==
  ASSUME RTypeOK, Splitting, ~AtEnd
  PROVE  NextBuff \in Seq(Bit) /\ Len(NextBuff) = MarkBits /\ LastBits(image.bits, scan.bitsRead + 1, NextBuff)
<1> DEFINE bits == image.bits
           n == scan.bitsRead
<1>1. n \in 0..Len(bits) - 1 /\ bsGetBit = bits[n + 1] /\ bits \in Seq(Bit) /\ scan.buff \in Seq(Bit)
  BY BitRead, ScanIs
<1>2. Len(scan.buff) = MarkBits /\ LastBits(bits, n, scan.buff) /\ MarkBits \in Nat
  BY MarkFacts DEF Splitting
<1>3. Len(scan.buff) <= MarkBits /\ ~(Len(scan.buff) < MarkBits)
  BY <1>2
<1> HIDE DEF bits, n
<1>4. /\ NextBuff \in Seq(Bit) /\ Len(NextBuff) = (IF Len(scan.buff) < MarkBits THEN Len(scan.buff) + 1 ELSE MarkBits)
      /\ LastBits(bits, n + 1, NextBuff)
  BY <1>1, <1>2, <1>3, ShiftedIs DEF NextBuff
<1> QED BY <1>3, <1>4 DEF bits, n

(* The CRC is seen when as many bits of the block are read as a mark has. *)
LEMMA CRCIs ==
  ASSUME RTypeOK, Splitting, ~AtEnd
  PROVE  /\ NextCRC \in Seq(Bit)
         /\ scan.wrBlock < Len(scan.rb) /\ Block.start + MarkBits <= scan.bitsRead + 1 =>
              NextCRC = SubSeq(image.bits, Block.start + 1, Block.start + CrcBits)
<1> DEFINE bits == image.bits
           n == scan.bitsRead
<1>1. /\ n \in 0..Len(bits) - 1 /\ n + 1 \in 0..Len(bits) /\ bits \in Seq(Bit) /\ Len(bits) \in Nat
      /\ n \in Nat /\ scan.blockCRC \in Seq(Bit)
  BY BitRead, ScanIs
<1>2. MarkBits \in Nat \ {0} /\ CrcBits \in Nat /\ CrcBits <= MarkBits
  BY MarkFacts
<1>3. NextBuff \in Seq(Bit) /\ Len(NextBuff) = MarkBits /\ LastBits(bits, n + 1, NextBuff)
  BY SplitShift
<1>4. SubSeq(NextBuff, 1, CrcBits) \in Seq(Bit)
  <2>1. CrcBits \in 0..Len(NextBuff) /\ 1 \in Nat \ {0}
    BY <1>2, <1>3
  <2> QED BY <1>3, <2>1, PartIs
<1>5. NextCRC \in Seq(Bit)
  BY <1>1, <1>4 DEF NextCRC
<1>6. CrcSeen <=> n = MarkBits - 1 + Block.start
  BY DEF CrcSeen, MarkBits
<1> HIDE DEF bits, n
<1>7. ASSUME scan.wrBlock < Len(scan.rb), Block.start + MarkBits <= n + 1
      PROVE  NextCRC = SubSeq(bits, Block.start + 1, Block.start + CrcBits)
  <2> DEFINE start == Block.start
  <2>1. start \in Nat /\ Current(Block)
    BY <1>7, BlockIs
  <2>2. CASE start + MarkBits <= n
    <3>1. ~CrcSeen
      BY <1>1, <1>2, <1>6, <2>1, <2>2
    <3>2. scan.blockCRC = SubSeq(bits, start + 1, start + CrcBits)
      BY <2>1, <2>2 DEF Current, bits, n
    <3> QED BY <3>1, <3>2 DEF NextCRC
  <2>3. CASE ~(start + MarkBits <= n)
    <3>1. n = MarkBits - 1 + start /\ MarkBits <= n + 1 /\ (n + 1) - MarkBits + 1 = start + 1 /\ start + CrcBits <= n + 1
      BY <1>1, <1>2, <1>7, <2>1, <2>3
    <3>2. NextCRC = SubSeq(NextBuff, 1, CrcBits)
      BY <1>6, <3>1 DEF NextCRC
    <3> HIDE DEF start
    <3>3. NextBuff = SubSeq(bits, (n + 1) - MarkBits + 1, n + 1)
      BY <1>1, <1>3, <3>1, RegistersAre
    <3>4. NextBuff = SubSeq(bits, start + 1, n + 1)
      BY <3>1, <3>3
    <3>5. SubSeq(SubSeq(bits, start + 1, n + 1), 1, CrcBits) = SubSeq(bits, start + 1, start + CrcBits)
      BY <1>1, <1>2, <2>1, <3>1, PartBegins
    <3> QED BY <3>2, <3>4, <3>5 DEF start
  <2> QED BY <2>2, <2>3
<1> QED BY <1>5, <1>7 DEF bits, n

(* What is written grows with what is read of the block. *)
LEMMA FileIs ==
  ASSUME RTypeOK, Splitting, ~AtEnd
  PROVE  /\ Aligned(NextWriter) /\ NextWriter.open = wr.open
         /\ scan.wrBlock < Len(scan.rb) /\ wr.open =>
              /\ Block.start <= scan.bitsRead
              /\ BitsOf(NextWriter) = Header \o SubSeq(image.bits, Block.start + 1, scan.bitsRead + 1)
<1> DEFINE bits == image.bits
           n == scan.bitsRead
<1>1. /\ n \in 0..Len(bits) - 1 /\ bits \in Seq(Bit) /\ Len(bits) \in Nat /\ n \in Nat
      /\ bsGetBit = bits[n + 1] /\ bsGetBit \in Bit
  BY BitRead, ScanIs
<1>2. Aligned(wr)
  BY DEF RTypeOK
<1>3. /\ Aligned(bsPutBit(wr, bsGetBit)) /\ bsPutBit(wr, bsGetBit).open = wr.open
      /\ BitsOf(bsPutBit(wr, bsGetBit)) = BitsOf(wr) \o <<bsGetBit>>
  BY <1>1, <1>2, PutBit
<1>4. Aligned(NextWriter) /\ NextWriter.open = wr.open
  BY <1>2, <1>3 DEF NextWriter
<1> HIDE DEF bits, n
<1>5. ASSUME scan.wrBlock < Len(scan.rb), wr.open
      PROVE  Block.start <= n /\ BitsOf(NextWriter) = Header \o SubSeq(bits, Block.start + 1, n + 1)
  <2> DEFINE start == Block.start
             s == SubSeq(bits, start + 1, n)
             one == <<bits[n + 1]>>
  <2>1. start \in Nat /\ Block.end \in Nat /\ Current(Block)
    BY <1>5, BlockIs
  <2>2. start <= n /\ n <= Block.end /\ BitsOf(wr) = Header \o s
    BY <1>5, <2>1 DEF Current, bits, n
  <2>3. NextWriter = bsPutBit(wr, bsGetBit)
    <3>1. n \in start..Block.end
      BY <1>1, <2>1, <2>2
    <3> QED BY <1>5, <3>1 DEF NextWriter, n
  <2>4. BitsOf(NextWriter) = (Header \o s) \o one
    BY <1>1, <1>3, <2>2, <2>3
  <2> HIDE DEF start
  <2>5. s \in Seq(Bit) /\ one \in Seq(Bit)
    <3>1. start + 1 \in Nat \ {0} /\ n \in 0..Len(bits)
      BY <1>1, <2>1
    <3>2. bits[n + 1] \in Bit
      BY <1>1
    <3> QED BY <1>1, <3>1, <3>2, PartIs
  <2>6. SubSeq(bits, start + 1, n + 1) = s \o one
    <3>1. n \in start..Len(bits) - 1
      BY <1>1, <2>1, <2>2
    <3> QED BY <1>1, <2>1, <3>1, PartGrows
  <2> HIDE DEF s, one
  <2>7. Header \o (s \o one) = (Header \o s) \o one
    BY <2>5, BeginFileIs, Associative
  <2>8. BitsOf(NextWriter) = Header \o SubSeq(bits, start + 1, n + 1)
    BY <2>4, <2>6, <2>7
  <2> QED BY <2>2, <2>8 DEF start
<1> QED BY <1>4, <1>5 DEF bits, n

(* When all that was found is written, all blocks are recovered. *)
LEMMA AllRecovered ==
  ASSUME RTypeOK, Splitting, ~(scan.wrBlock < Len(scan.rb)), NEW block \in image.blocks
  PROVE  Recovered(block)
<1> DEFINE bits == image.bits
<1>1. Holds(bits, block) /\ bits \in Seq(Bit) /\ Len(bits) \in Nat
  BY ImageAssumption, LenProperties DEF RTypeOK
<1> HIDE DEF bits
<1>2. PICK s \in MarkEnds(bits), t \in MarkEnds(bits) :
        /\ Neighbours(bits, s, t) /\ t - s - Len(EndMark) > MinBits
        /\ block = SubSeq(bits, s + 1, t - Len(EndMark))
  BY <1>1 DEF Holds
<1>3. s \in Nat /\ t \in Nat /\ t <= Len(bits) /\ MarkBits \in Nat \ {0} /\ MinBits \in Nat
  BY <1>1, MarkIsNat, MarkFacts
<1>4. Complete(bits, scan.rb, Len(bits))
  BY DEF Splitting, bits
<1>5. PICK i \in 1..Len(scan.rb) : scan.rb[i] = [start |-> s, end |-> t - MarkBits - 1]
  BY <1>2, <1>3, <1>4 DEF Complete, MarkBits
<1>6. scan.rb[i].start = s /\ scan.rb[i].end = t - MarkBits - 1
  BY <1>5
<1>7. i \in 1..scan.wrBlock
  <2>1. scan.wrBlock \in Nat /\ Len(scan.rb) \in Nat
    BY ScanIs
  <2> QED BY <1>5, <2>1
<1>8. s <= t - MarkBits - 1 /\ (t - MarkBits - 1) + 1 = t - MarkBits
  BY <1>2, <1>3 DEF MarkBits
<1>9. Recovered(SubSeq(bits, scan.rb[i].start + 1, scan.rb[i].end + 1))
  BY <1>6, <1>7, <1>8 DEF Splitting, bits
<1>10. block = SubSeq(bits, scan.rb[i].start + 1, scan.rb[i].end + 1)
  BY <1>2, <1>6, <1>8 DEF MarkBits
<1> QED BY <1>9, <1>10

(* The locals after a bit, and after what else the step does to them. *)
LEMMA NextScanIs ==
  ASSUME RTypeOK, Splitting, ~AtEnd
  PROVE  /\ NextScan \in Scans
         /\ NextScan.pc = scan.pc /\ NextScan.bitsRead = scan.bitsRead + 1 /\ NextScan.buff = NextBuff
         /\ NextScan.rb = scan.rb /\ NextScan.wrBlock = scan.wrBlock /\ NextScan.blockCRC = NextCRC
<1>1. scan.bitsRead + 1 \in Nat /\ NextBuff \in Seq(Bit) /\ NextCRC \in Seq(Bit) /\ scan \in Scans
  BY BitRead, SplitShift, CRCIs DEF RTypeOK
<1> QED BY <1>1 DEF NextScan, Scans

(* What every step of the second pass keeps that goes on with it. *)
LEMMA SplitGoesOn ==
  ASSUME RTypeOK, Splitting, ~AtEnd, UNCHANGED image,
         scan' \in Scans, scan'.bitsRead = scan.bitsRead + 1, scan'.buff = NextBuff, scan'.rb = scan.rb,
         Aligned(wr'), made' \in Seq(Seq(Bit)), scan'.wrBlock <= Len(scan.rb),
         \A i \in 1..scan'.wrBlock : scan.rb[i].start <= scan.rb[i].end =>
            Recovered(SubSeq(image.bits, scan.rb[i].start + 1, scan.rb[i].end + 1))',
         scan'.wrBlock < Len(scan.rb) => Current(scan.rb[scan.wrBlock + 1])'
  PROVE  RTypeOK' /\ Splitting'
<1>1. RTypeOK'
  <2>1. image \in Images /\ scan.bitsRead + 1 \in 0..Len(image.bits)
    BY BitRead DEF RTypeOK
  <2> QED BY <2>1 DEF RTypeOK
<1>2. Ordered(scan.rb, Len(image.bits)) /\ Complete(image.bits, scan.rb, Len(image.bits))
  BY DEF Splitting
<1>3. Len(NextBuff) = MarkBits /\ LastBits(image.bits, scan.bitsRead + 1, NextBuff)
  BY SplitShift
<1>4. \A i \in 1..scan'.wrBlock : scan'.rb[i].start <= scan'.rb[i].end =>
        Recovered(SubSeq(image.bits, scan.rb[i].start + 1, scan.rb[i].end + 1))'
  OBVIOUS
<1> QED BY <1>1, <1>2, <1>3, <1>4 DEF Splitting

(* Outputs stay. *)
LEMMA RecoveredStays ==
  ASSUME NEW block, Recovered(block), made \in Seq(Seq(Bit)), NEW file \in Seq(Bit),
         made' = made \/ made' = Append(made, file)
  PROVE  \E k \in 1..Len(made') : InBytes(made'[k], OneBlock(block))
<1>1. PICK k \in 1..Len(made) : InBytes(made[k], OneBlock(block))
  BY DEF Recovered
<1>2. Len(made) \in Nat
  BY LenProperties
<1>3. CASE made' = made
  BY <1>1, <1>3
<1>4. CASE made' = Append(made, file)
  <2>1. Len(made') = Len(made) + 1 /\ made'[k] = made[k]
    BY <1>1, <1>4, AppendProperties
  <2>2. k \in 1..Len(made')
    BY <1>2, <2>1
  <2> QED BY <1>1, <2>1, <2>2
<1> QED BY <1>3, <1>4

(* A bit of a block, or between blocks. *)
LEMMA SplitOn ==
  ASSUME RTypeOK, Splitting, ~AtEnd, UNCHANGED <<image, taken, made>>,
         scan.bitsRead + 1 # Block.end + 1, scan.bitsRead + 1 # Block.start,
         scan' = NextScan, wr' = NextWriter
  PROVE  RTypeOK' /\ Splitting'
<1> DEFINE n == scan.bitsRead
<1>1. /\ scan' \in Scans /\ scan'.bitsRead = n + 1 /\ scan'.buff = NextBuff /\ scan'.rb = scan.rb
      /\ scan'.wrBlock = scan.wrBlock /\ scan'.blockCRC = NextCRC
  BY NextScanIs
<1>2. Aligned(wr') /\ wr'.open = wr.open
  BY FileIs
<1>3. n \in Nat /\ made \in Seq(Seq(Bit)) /\ image' = image /\ made' = made
  BY ScanIs DEF RTypeOK
<1>4. scan'.wrBlock <= Len(scan.rb)
  BY <1>1 DEF Splitting
<1>5. \A i \in 1..scan.wrBlock : scan.rb[i].start <= scan.rb[i].end =>
        Recovered(SubSeq(image.bits, scan.rb[i].start + 1, scan.rb[i].end + 1))
  BY DEF Splitting
<1>6. ASSUME NEW i \in 1..scan'.wrBlock, scan.rb[i].start <= scan.rb[i].end
      PROVE  Recovered(SubSeq(image.bits, scan.rb[i].start + 1, scan.rb[i].end + 1))'
  BY <1>1, <1>3, <1>5, <1>6 DEF Recovered
<1>7. ASSUME scan.wrBlock < Len(scan.rb) PROVE Current(scan.rb[scan.wrBlock + 1])'
  <2> DEFINE b == scan.rb[scan.wrBlock + 1]
  <2>1. b = Block /\ b.start \in Nat /\ b.end \in Nat /\ Current(b)
    BY <1>7, BlockIs
  <2>2. n <= b.end /\ (wr.open <=> b.start <= n)
    BY <2>1 DEF Current
  <2>3. b' = b
    BY <1>1
  <2> HIDE DEF b
  <2>4. n + 1 <= b.end /\ (wr'.open <=> b.start <= n + 1)
    BY <1>2, <1>3, <2>1, <2>2
  <2>5. wr'.open => BitsOf(wr') = Header \o SubSeq(image.bits, b.start + 1, n + 1)
    BY <1>2, <1>7, <2>1, FileIs
  <2>6. b.start + MarkBits <= n + 1 => NextCRC = SubSeq(image.bits, b.start + 1, b.start + CrcBits)
    BY <1>7, <2>1, CRCIs
  <2> HIDE DEF n
  <2>7. Current(b)'
    BY <1>1, <1>3, <2>3, <2>4, <2>5, <2>6 DEF Current
  <2> QED BY <2>7 DEF b
<1> QED BY <1>1, <1>2, <1>3, <1>4, <1>6, <1>7, SplitGoesOn

(* A file is begun. *)
LEMMA SplitBegin ==
  ASSUME RTypeOK, Splitting, ~AtEnd, UNCHANGED <<image, taken, made>>,
         scan.bitsRead + 1 # Block.end + 1, scan.bitsRead + 1 = Block.start,
         scan' = NextScan, wr' = BeginFile
  PROVE  RTypeOK' /\ Splitting'
<1> DEFINE n == scan.bitsRead
<1>1. /\ scan' \in Scans /\ scan'.bitsRead = n + 1 /\ scan'.buff = NextBuff /\ scan'.rb = scan.rb
      /\ scan'.wrBlock = scan.wrBlock
  BY NextScanIs
<1>2. Aligned(wr') /\ wr'.open /\ BitsOf(wr') = Header /\ Header \in Seq(Bit)
  BY BeginFileIs
<1>3. n \in Nat /\ made \in Seq(Seq(Bit)) /\ image' = image /\ made' = made
  BY ScanIs DEF RTypeOK
<1>4. scan'.wrBlock <= Len(scan.rb)
  BY <1>1 DEF Splitting
<1>5. \A i \in 1..scan.wrBlock : scan.rb[i].start <= scan.rb[i].end =>
        Recovered(SubSeq(image.bits, scan.rb[i].start + 1, scan.rb[i].end + 1))
  BY DEF Splitting
<1>6. ASSUME NEW i \in 1..scan'.wrBlock, scan.rb[i].start <= scan.rb[i].end
      PROVE  Recovered(SubSeq(image.bits, scan.rb[i].start + 1, scan.rb[i].end + 1))'
  BY <1>1, <1>3, <1>5, <1>6 DEF Recovered
<1>7. ASSUME scan.wrBlock < Len(scan.rb) PROVE Current(scan.rb[scan.wrBlock + 1])'
  <2> DEFINE b == scan.rb[scan.wrBlock + 1]
  <2>1. b = Block /\ b.start \in Nat /\ b.end \in Nat /\ Current(b)
    BY <1>7, BlockIs
  <2>2. n <= b.end /\ MarkBits \in Nat \ {0}
    BY <2>1, MarkFacts DEF Current
  <2>3. b' = b
    BY <1>1
  <2> HIDE DEF b
  <2>4. n + 1 <= b.end /\ b.start = n + 1 /\ ~(b.start + MarkBits <= n + 1) /\ b.start <= n + 1
    BY <1>3, <2>1, <2>2
  <2>5. Header \o SubSeq(image.bits, b.start + 1, n + 1) = Header
    <3>1. SubSeq(image.bits, b.start + 1, n + 1) = <<>>
      BY <1>3, <2>4, SubSeqEmpty
    <3> QED BY <1>2, <3>1, ConcatEmptySeq
  <2> HIDE DEF n
  <2>6. Current(b)'
    BY <1>1, <1>2, <1>3, <2>3, <2>4, <2>5 DEF Current
  <2> QED BY <2>6 DEF b
<1> QED BY <1>1, <1>2, <1>3, <1>4, <1>6, <1>7, SplitGoesOn

(* The output of a block is the stream of that block. *)
LEMMA OutputIs ==
  ASSUME RTypeOK, Splitting, ~AtEnd, scan.wrBlock < Len(scan.rb), scan.bitsRead + 1 = Block.end + 1,
         Block.start <= Block.end
  PROVE  wr.open /\ InBytes(EndFile(NextWriter, NextCRC), OneBlock(SubSeq(image.bits, Block.start + 1, Block.end + 1)))
<1> DEFINE bits == image.bits
           n == scan.bitsRead
           start == Block.start
           end == Block.end
           block == SubSeq(bits, start + 1, end + 1)
<1>1. /\ n + 1 \in 0..Len(bits) /\ bits \in Seq(Bit) /\ n \in Nat
      /\ start \in Nat /\ end \in Nat /\ Current(Block) /\ start + MinBits <= end
  BY BitRead, ScanIs, BlockIs
<1>2. /\ MarkBits \in Nat \ {0} /\ CrcBits \in Nat /\ MinBits \in Nat /\ CrcBits <= MarkBits /\ MarkBits <= MinBits
  BY MarkFacts
<1>3. wr.open
  BY <1>1 DEF Current
<1>4. Aligned(NextWriter) /\ BitsOf(NextWriter) = Header \o block
  BY <1>1, <1>3, FileIs
<1>5. NextCRC \in Seq(Bit) /\ (start + MarkBits <= n + 1 => NextCRC = SubSeq(bits, start + 1, start + CrcBits))
  BY CRCIs
<1>6. NextCRC = SubSeq(block, 1, CrcBits)
  <2>1. start + MarkBits <= n + 1 /\ start + CrcBits <= end + 1 /\ end + 1 \in 0..Len(bits)
    BY <1>1, <1>2
  <2> HIDE DEF bits, start, end
  <2>2. SubSeq(SubSeq(bits, start + 1, end + 1), 1, CrcBits) = SubSeq(bits, start + 1, start + CrcBits)
    BY <1>1, <1>2, <2>1, PartBegins
  <2> QED BY <1>5, <2>1, <2>2
<1> HIDE DEF block
<1>7. InBytes(EndFile(NextWriter, NextCRC), (BitsOf(NextWriter) \o EndMark) \o NextCRC)
  BY <1>4, <1>5, EndFileIs
<1>8. OneBlock(block) = ((Header \o block) \o EndMark) \o SubSeq(block, 1, CrcBits)
  BY DEF OneBlock, Header
<1>9. InBytes(EndFile(NextWriter, NextCRC), OneBlock(block))
  BY <1>4, <1>6, <1>7, <1>8
<1> QED BY <1>3, <1>9 DEF block

(* A block is at its end, and another comes. *)
LEMMA SplitEnd ==
  ASSUME RTypeOK, Splitting, ~AtEnd, UNCHANGED <<image, taken>>,
         scan.bitsRead + 1 = Block.end + 1, scan.wrBlock < Len(scan.rb),
         made' = IF NextWriter.open THEN Append(made, EndFile(NextWriter, NextCRC)) ELSE made,
         wr' = NoFile, scan' = [NextScan EXCEPT !.wrBlock = scan.wrBlock + 1]
  PROVE  RTypeOK' /\ Splitting' /\ scan'.pc = scan.pc
<1> DEFINE n == scan.bitsRead
           file == EndFile(NextWriter, NextCRC)
<1>1. scan.wrBlock \in Nat /\ Len(scan.rb) \in Nat /\ n \in Nat /\ made \in Seq(Seq(Bit)) /\ image' = image
  BY ScanIs DEF RTypeOK
<1>2. /\ scan' \in Scans /\ scan'.bitsRead = n + 1 /\ scan'.buff = NextBuff /\ scan'.rb = scan.rb
      /\ scan'.wrBlock = scan.wrBlock + 1 /\ scan'.pc = scan.pc
  <2>1. scan.wrBlock + 1 \in Nat
    BY <1>1
  <2>2. /\ NextScan \in Scans
        /\ NextScan.pc = scan.pc /\ NextScan.bitsRead = n + 1 /\ NextScan.buff = NextBuff
        /\ NextScan.rb = scan.rb
    BY NextScanIs
  <2> HIDE DEF n
  <2> QED BY <2>1, <2>2 DEF Scans
<1>3. file \in Seq(Bit) /\ NextWriter.open = wr.open
  <2>1. Aligned(NextWriter) /\ NextCRC \in Seq(Bit) /\ NextWriter.open = wr.open
    BY FileIs, CRCIs
  <2> QED BY <2>1, EndFileIs
<1>4. made' = IF wr.open THEN Append(made, file) ELSE made
  BY <1>3
<1> HIDE DEF file
<1>5. made' \in Seq(Seq(Bit)) /\ (made' = made \/ made' = Append(made, file))
  BY <1>1, <1>3, <1>4, AppendProperties
<1>6. Aligned(wr') /\ ~wr'.open
  BY NoFileIs
<1> DEFINE b == scan.rb[scan.wrBlock + 1]
<1>7. /\ scan.wrBlock + 1 \in 1..Len(scan.rb) /\ b = Block /\ b.start \in Nat /\ b.end \in Nat
  BY BlockIs
<1>8. ASSUME NEW i \in 1..scan'.wrBlock, scan.rb[i].start <= scan.rb[i].end
      PROVE  Recovered(SubSeq(image.bits, scan.rb[i].start + 1, scan.rb[i].end + 1))'
  <2> DEFINE block == SubSeq(image.bits, scan.rb[i].start + 1, scan.rb[i].end + 1)
  <2>1. SUFFICES \E k \in 1..Len(made') : InBytes(made'[k], OneBlock(block))
    BY <1>1, <1>2 DEF Recovered
  <2>2. CASE i \in 1..scan.wrBlock
    <3>1. Recovered(block)
      BY <1>8, <2>2 DEF Splitting
    <3> HIDE DEF block
    <3> QED BY <1>1, <1>3, <1>5, <3>1, RecoveredStays
  <2>3. CASE i \notin 1..scan.wrBlock
    <3>1. i = scan.wrBlock + 1
      BY <1>1, <1>2, <2>3
    <3>2. scan.rb[i] = Block
      BY <1>7, <3>1
    <3>3. wr.open /\ InBytes(file, OneBlock(block))
      BY <1>8, <3>2, OutputIs DEF file
    <3> HIDE DEF block
    <3>4. made' = Append(made, file)
      BY <1>4, <3>3
    <3>5. Len(made') = Len(made) + 1 /\ made'[Len(made) + 1] = file /\ Len(made) \in Nat
      BY <1>1, <1>3, <3>4, AppendProperties, LenProperties
    <3>6. Len(made) + 1 \in 1..Len(made')
      BY <3>5
    <3> QED BY <3>3, <3>5, <3>6
  <2> QED BY <2>2, <2>3
<1>9. ASSUME scan.wrBlock + 1 < Len(scan.rb) PROVE Current(scan.rb[scan.wrBlock + 1])'
  <2> DEFINE c == scan.rb[scan.wrBlock + 2]
  <2>1. /\ scan.wrBlock + 1 \in 1..Len(scan.rb) - 1 /\ (scan.wrBlock + 1) + 1 = scan.wrBlock + 2
        /\ scan.wrBlock + 2 \in 1..Len(scan.rb)
    BY <1>1, <1>9
  <2>2. b.end + 1 < c.start /\ b.end < c.end
    BY <2>1 DEF Splitting, Ordered
  <2>3. c.start \in Nat /\ c.end \in Nat /\ MarkBits \in Nat
    BY <2>1, ScanIs, MarkFacts
  <2>4. n = b.end
    BY <1>1, <1>7
  <2>5. scan'.rb[scan'.wrBlock + 1] = c
    BY <1>1, <1>2, <2>1
  <2> HIDE DEF b, c
  <2>6. n + 1 <= c.end /\ ~(c.start <= n + 1) /\ ~(c.start + MarkBits <= n + 1)
    BY <1>1, <1>7, <2>2, <2>3, <2>4
  <2> QED BY <1>2, <1>6, <2>5, <2>6 DEF Current
<1> HIDE DEF b
<1>10. scan'.wrBlock <= Len(scan.rb)
  BY <1>1, <1>2
<1>11. scan'.wrBlock < Len(scan.rb) => Current(scan.rb[scan.wrBlock + 1])'
  BY <1>2, <1>9
<1> HIDE DEF n
<1>12. RTypeOK' /\ Splitting'
  BY <1>1, <1>2, <1>5, <1>6, <1>8, <1>10, <1>11, SplitGoesOn DEF n
<1> QED BY <1>2, <1>12

(* The bit after all that was found ends the program. *)
LEMMA SplitDone ==
  ASSUME RTypeOK, Splitting, ~AtEnd, UNCHANGED <<image, taken>>, ~(scan.wrBlock < Len(scan.rb)),
         made' = IF NextWriter.open THEN Append(made, EndFile(NextWriter, NextCRC)) ELSE made,
         wr' = NoFile, scan' = [NextScan EXCEPT !.pc = "finished"]
  PROVE  RInv'
<1> DEFINE file == EndFile(NextWriter, NextCRC)
<1>1. NextScan \in Scans /\ NextScan.bitsRead = scan.bitsRead + 1
  BY NextScanIs
<1>2. scan' \in Scans /\ scan'.bitsRead = NextScan.bitsRead /\ scan'.pc = "finished"
  <2> HIDE DEF NextScan
  <2> QED BY <1>1 DEF Scans
<1>3. file \in Seq(Bit)
  BY FileIs, CRCIs, EndFileIs
<1>4. made' = made \/ made' = Append(made, file)
  OBVIOUS
<1> HIDE DEF file
<1>5. made \in Seq(Seq(Bit)) /\ image \in Images /\ scan.bitsRead + 1 \in 0..Len(image.bits) /\ image' = image
  BY BitRead DEF RTypeOK
<1>6. made' \in Seq(Seq(Bit))
  BY <1>3, <1>4, <1>5, AppendProperties
<1>7. RTypeOK'
  BY <1>1, <1>2, <1>5, <1>6, NoFileIs DEF RTypeOK
<1>8. ASSUME NEW block \in image.blocks PROVE \E k \in DOMAIN made' : InBytes(made'[k], OneBlock(block))
  <2>1. Recovered(block)
    BY AllRecovered
  <2>2. \E k \in 1..Len(made') : InBytes(made'[k], OneBlock(block))
    BY <1>3, <1>4, <1>5, <2>1, RecoveredStays
  <2>3. DOMAIN made' = 1..Len(made')
    BY <1>6, LenProperties
  <2> QED BY <2>2, <2>3
<1> QED BY <1>2, <1>5, <1>7, <1>8 DEF RInv, BlocksRecovered

(* The second pass. *)
LEMMA SplitStep == ASSUME RInv, Split PROVE RInv'
<1> DEFINE n == scan.bitsRead + 1
<1>1. RTypeOK /\ Splitting /\ ~AtEnd /\ scan.pc = "split" /\ UNCHANGED <<image, taken>>
  BY DEF RInv, Split
<1>2. IF n = Block.end + 1 THEN End(NextScan, NextWriter)
      ELSE IF n = Block.start THEN Begin(NextScan)
      ELSE scan' = NextScan /\ wr' = NextWriter /\ UNCHANGED made
  BY DEF Split, NextScan, NextWriter, NextBuff, NextCRC
<1>3. ASSUME RTypeOK', Splitting', scan'.pc = scan.pc PROVE RInv'
  BY <1>1, <1>3 DEF RInv, BlocksRecovered
<1>4. NextScan \in Scans /\ NextScan.pc = scan.pc /\ NextScan.rb = scan.rb /\ NextScan.wrBlock = scan.wrBlock
      /\ NextScan.blockCRC = NextCRC /\ NextScan.bitsRead = n
  BY <1>1, NextScanIs
<1>5. CASE n = Block.end + 1
  <2>1. End(NextScan, NextWriter)
    BY <1>2, <1>5
  <2>2. made' = (IF NextWriter.open THEN Append(made, EndFile(NextWriter, NextCRC)) ELSE made) /\ wr' = NoFile
    BY <1>4, <2>1 DEF End
  <2>3. CASE scan.wrBlock < Len(scan.rb)
    <3>1. ~(scan.wrBlock >= Len(scan.rb))
      BY <1>1, <2>3, ScanIs
    <3>2. scan' = [NextScan EXCEPT !.wrBlock = NextScan.wrBlock + 1]
      BY <2>1, <3>1 DEF End
    <3>3. scan' = [NextScan EXCEPT !.wrBlock = scan.wrBlock + 1]
      BY <1>4, <3>2
    <3>4. RTypeOK' /\ Splitting' /\ scan'.pc = scan.pc
      BY <1>1, <1>5, <2>2, <2>3, <3>3, SplitEnd
    <3> QED BY <1>3, <3>4
  <2>4. CASE ~(scan.wrBlock < Len(scan.rb))
    <3>1. scan.wrBlock >= Len(scan.rb)
      BY <1>1, <2>4, ScanIs
    <3>2. scan' = [NextScan EXCEPT !.pc = "finished"]
      BY <2>1, <3>1 DEF End
    <3> QED BY <1>1, <2>2, <2>4, <3>2, SplitDone
  <2> QED BY <2>3, <2>4
<1>6. CASE n # Block.end + 1 /\ n = Block.start
  <2>1. Begin(NextScan)
    BY <1>2, <1>6
  <2>2. CASE Creatable(scan.wrBlock + 1)
    <3>1. scan' = NextScan /\ wr' = BeginFile /\ UNCHANGED made
      BY <2>1, <2>2 DEF Begin
    <3>2. RTypeOK' /\ Splitting'
      BY <1>1, <1>6, <3>1, SplitBegin
    <3> QED BY <1>3, <1>4, <3>1, <3>2
  <2>3. CASE ~Creatable(scan.wrBlock + 1)
    <3>1. scan' = [NextScan EXCEPT !.pc = "failed"] /\ UNCHANGED <<wr, made>>
      BY <2>1, <2>3 DEF Begin
    <3>2. scan' \in Scans /\ scan'.bitsRead = n /\ scan'.pc = "failed"
      <4> HIDE DEF NextScan
      <4> QED BY <1>4, <3>1 DEF Scans
    <3>3. n \in 0..Len(image.bits)
      BY <1>1, BitRead
    <3>4. RTypeOK'
      BY <1>1, <3>1, <3>2, <3>3 DEF RTypeOK
    <3> QED BY <3>2, <3>4 DEF RInv, BlocksRecovered
  <2> QED BY <2>2, <2>3
<1>7. CASE n # Block.end + 1 /\ n # Block.start
  <2>1. scan' = NextScan /\ wr' = NextWriter /\ UNCHANGED made
    BY <1>2, <1>7
  <2>2. RTypeOK' /\ Splitting'
    BY <1>1, <1>7, <2>1, SplitOn
  <2> QED BY <1>3, <1>4, <2>1, <2>2
<1> QED BY <1>5, <1>6, <1>7

(* The file ends in the second pass: what was found lies before, so all of it is written. *)
LEMMA FinishedStep == ASSUME RInv, Finished PROVE RInv'
<1>1. RTypeOK /\ Splitting /\ AtEnd /\ UNCHANGED <<image, taken, wr, made>>
  BY DEF RInv, Finished
<1>2. scan' = [scan EXCEPT !.pc = "finished"] /\ scan \in Scans
  BY <1>1 DEF Finished, RTypeOK
<1>3. scan' \in Scans /\ scan'.bitsRead = scan.bitsRead
  BY <1>2 DEF Scans
<1>4. RTypeOK'
  BY <1>1, <1>3 DEF RTypeOK
<1>5. ~(scan.wrBlock < Len(scan.rb))
  <2> SUFFICES ASSUME scan.wrBlock < Len(scan.rb) PROVE FALSE
    OBVIOUS
  <2>1. Block.end \in Nat /\ Current(Block) /\ Block.end + 1 + MarkBits <= Len(image.bits) /\ MarkBits \in Nat
    BY <1>1, BlockIs, MarkFacts
  <2>2. scan.bitsRead <= Block.end /\ scan.bitsRead = Len(image.bits) /\ scan.bitsRead \in Nat
    BY <1>1, <2>1, ScanIs DEF Current, AtEnd
  <2> QED BY <2>1, <2>2
<1>6. ASSUME NEW block \in image.blocks PROVE \E k \in DOMAIN made : InBytes(made[k], OneBlock(block))
  <2>1. Recovered(block)
    BY <1>1, <1>5, AllRecovered
  <2>2. DOMAIN made = 1..Len(made)
    BY <1>1, LenProperties DEF RTypeOK
  <2> QED BY <2>1, <2>2 DEF Recovered
<1> QED BY <1>1, <1>2, <1>3, <1>4, <1>6 DEF RInv, BlocksRecovered, Scans

-----------------------------------------------------------------------------

(* The invariant holds at first. *)
LEMMA RecoverBegins == RecoverInit => RInv
<1> SUFFICES ASSUME RecoverInit PROVE RInv
  OBVIOUS
<1>1. /\ image \in Images /\ wr = NoFile /\ made = <<>>
      /\ scan = [pc |-> "search", bitsRead |-> 0, buff |-> <<>>, currBlock |-> 0, start |-> 0,
                 rb |-> <<>>, wrBlock |-> 0, blockCRC |-> <<>>]
  BY DEF RecoverInit
<1>2. image.bits \in Seq(Bit) /\ Len(image.bits) \in Nat
  BY <1>1, ImageAssumption, LenProperties
<1>3. /\ scan.pc = "search" /\ scan.bitsRead = 0 /\ scan.buff = <<>> /\ scan.currBlock = 0 /\ scan.start = 0
      /\ scan.rb = <<>> /\ scan.wrBlock = 0 /\ scan.blockCRC = <<>> /\ scan \in Scans
  BY <1>1 DEF Scans
<1>4. MarkBits \in Nat \ {0}
  BY MarkFacts
<1>5. made \in Seq(Seq(Bit))
  BY <1>1
<1>6. RTypeOK
  BY <1>1, <1>2, <1>3, <1>5, NoFileIs DEF RTypeOK
<1>7. Len(<<>>) = 0 /\ 1..0 = {} /\ 1..0 - 1 = {}
  OBVIOUS
<1>8. ASSUME NEW m \in MarkEnds(image.bits) PROVE m > 0
  BY <1>2, <1>4, MarkIsNat
<1>9. Ordered(scan.rb, 0) /\ LastBits(image.bits, 0, scan.buff)
  BY <1>3, <1>7 DEF Ordered, LastBits
<1>10. Complete(image.bits, scan.rb, 0)
  <2>1. ASSUME NEW t \in MarkEnds(image.bits) PROVE ~(t <= 0)
    BY <1>2, <1>4, MarkIsNat
  <2> QED BY <2>1 DEF Complete
<1>11. \A m \in MarkEnds(image.bits) : ~(m <= 0)
  BY <1>2, <1>4, MarkIsNat
<1>12. Len(scan.buff) = IF 0 < MarkBits THEN 0 ELSE MarkBits
  BY <1>3, <1>4, <1>7
<1>13. ~wr.open
  BY <1>1, NoFileIs
<1>14. Searching
  BY <1>3, <1>9, <1>10, <1>11, <1>12, <1>13 DEF Searching
<1> QED BY <1>3, <1>6, <1>14 DEF RInv, BlocksRecovered

(* Every step keeps it. *)
LEMMA RecoverGoesOn == RInv /\ [RecoverNext]_recvars => RInv'
<1> SUFFICES ASSUME RInv, [RecoverNext]_recvars PROVE RInv'
  OBVIOUS
<1>1. CASE Search
  BY <1>1, SearchStep
<1>2. CASE Searched
  BY <1>2, SearchedStep
<1>3. CASE Split
  BY <1>3, SplitStep
<1>4. CASE Finished
  BY <1>4, FinishedStep
<1>5. CASE IOError
  <2>1. scan' = [scan EXCEPT !.pc = "failed"] /\ UNCHANGED <<image, taken, wr, made>>
    BY <1>5 DEF IOError
  <2> QED BY <2>1, FailedStep
<1>6. CASE UNCHANGED recvars
  <2>1. image' = image /\ scan' = scan /\ wr' = wr /\ made' = made
    BY <1>6 DEF recvars
  <2>2. RTypeOK' = RTypeOK
    BY <2>1 DEF RTypeOK
  <2>3. Searching' = Searching
    BY <2>1 DEF Searching
  <2>4. Splitting' = Splitting
    BY <2>1 DEF Splitting, Current, Recovered
  <2>5. BlocksRecovered' = BlocksRecovered
    BY <2>1 DEF BlocksRecovered
  <2> QED BY <2>1, <2>2, <2>3, <2>4, <2>5 DEF RInv
<1> QED BY <1>1, <1>2, <1>3, <1>4, <1>5, <1>6 DEF RecoverNext

(* The inductive invariant: where the program is in the file, what it found there, what it wrote of that. *)
THEOREM RecoverInvariant == RecoverSpec => []RInv
<1>1. RecoverInit => RInv
  BY RecoverBegins
<1>2. RInv /\ [RecoverNext]_recvars => RInv'
  BY RecoverGoesOn
<1> QED BY <1>1, <1>2, PTL DEF RecoverSpec

(* When bzip2recover finishes, every undamaged block of any file has an output that is the stream of that *)
(* block alone, in whole bytes (bzip2recover.c:395-520).                                                  *)
THEOREM RecoversBlocks == RecoverSpec => []BlocksRecovered
<1>1. RInv => BlocksRecovered
  BY DEF RInv
<1> QED BY <1>1, RecoverInvariant, PTL
=============================================================================
