----------------------------- MODULE BZip2Tool -----------------------------
(***************************************************************************)
(* The bzip2 command (reference/bzip2/bzip2.c): what it does to files, one *)
(* system call or call of the library at a time, with calls that fail,     *)
(* signals, death without notice, and other processes that make and remove *)
(* files in between.                                                       *)
(*                                                                         *)
(* A name is a sequence of parts, the suffix the last: <<"a", ".bz2">>; a  *)
(* flag is <<"-", "d", "f">> or <<"--", "force">>.  Data is a sequence of  *)
(* chunks; a compressed stream is "BZh", the chunks of its data, "end"; a  *)
(* chunk "!" is damage that the checks of the format find.                 *)
(***************************************************************************)
EXTENDS Integers, SequencesExt, FiniteSetsExt, Accumulation

CONSTANTS
  Scenarios,      \* [prog, env, argv, disk]: how the command is called, on what files
  LongNames,      \* the names longer than FILE_NAME_LEN-10
  Chunks,         \* what data consists of
  MaxMishaps      \* bound on failing calls and on what others do to the files

VARIABLES
  disk,       \* the files that exist: name -> [kind, linked, by, data]
  conf,       \* the options: [op, src, force, keep, stop]
  p,          \* the globals and the locals of the operation on one file
  inp, out,   \* its FILEs: open, err, all data, data still to be read, buf not yet written
  owed,       \* data that nobody has asked to lose
  mishaps,
  first       \* the disk at the beginning

vars == <<disk, conf, p, inp, out, owed, mishaps, first>>

----------------------------------------------------------------------------
(* Options *)

argList(s) == s.env \o s.argv

IsShort(arg) == arg[1] = "-"
IsLong(arg) == arg[1] = "--"
DashDash == <<"--">>

\* Up to --, what begins with a dash is a flag; -- itself is never a name.
Ended(args, i) == \E j \in 1..i : args[j] = DashDash
FileNames(args) ==
  LET n == {i \in DOMAIN args : args[i] # DashDash /\ (Ended(args, i) \/ ~(IsShort(args[i]) \/ IsLong(args[i])))}
  IN  [k \in 1..Cardinality(n) |-> args[CHOOSE i \in n : Cardinality({j \in n : j <= i}) = k]]
Flags(args, Kind(_)) ==
  LET f == {i \in DOMAIN args : ~Ended(args, i) /\ Kind(args[i])}
  IN  [k \in 1..Cardinality(f) |-> args[CHOOSE i \in f : Cardinality({j \in f : j <= i}) = k]]

\* What a flag changes; -1..-9, -s, -q and -v change no file.  stop: exit with this value.
Letter(c) ==
  CASE c = "c" -> [src |-> "F2O"] [] c = "d" -> [op |-> "unz"] [] c = "z" -> [op |-> "z"]
    [] c = "t" -> [op |-> "test"] [] c = "f" -> [force |-> TRUE] [] c = "k" -> [keep |-> TRUE]
    [] c \in {"s", "q", "v", "1", "2", "3", "4", "5", "6", "7", "8", "9"} -> <<>>
    [] c \in {"V", "L", "h"} -> [stop |-> 0]
    [] OTHER -> [stop |-> 1]
Word(w) ==
  CASE w = "stdout" -> Letter("c") [] w = "decompress" -> Letter("d") [] w = "compress" -> Letter("z")
    [] w = "test" -> Letter("t") [] w = "force" -> Letter("f") [] w = "keep" -> Letter("k")
    [] w \in {"small", "quiet", "verbose", "fast", "best", "exponential", "repetitive-best", "repetitive-fast"} -> <<>>
    [] w \in {"version", "license", "help"} -> [stop |-> 0]
    [] OTHER -> [stop |-> 1]

\* The first flag that stops the program does so; all short flags are read first.
Stops(c) == c.stop >= 0
Changed(c, change) == IF Stops(c) THEN c ELSE change @@ c
WithFlags(c, args) ==
  LET Letters(d, arg) == FoldLeft(LAMBDA e, x : Changed(e, Letter(x)), d, Tail(arg))
      short == FoldLeft(Letters, c, Flags(args, IsShort))
  IN  FoldLeft(LAMBDA d, arg : Changed(d, Word(arg[2])), short, Flags(args, IsLong))

\* -c without files; -c with -t.
Settled(c, named) ==
  IF Stops(c) THEN c
  ELSE IF c.op = "test" /\ c.src = "F2O" THEN [c EXCEPT !.stop = 1]
  ELSE [c EXCEPT !.src = IF @ = "F2O" /\ ~named THEN "I2O" ELSE @]
Options(prog, args) ==
  LET named == FileNames(args) # <<>>
      src == IF ~named THEN "I2O" ELSE IF prog = "bzcat" THEN "F2O" ELSE "F2F"
      op == IF prog = "bzip2" THEN "z" ELSE "unz"
  IN  Settled(WithFlags([op |-> op, src |-> src, force |-> FALSE, keep |-> FALSE, stop |-> -1], args), named)

----------------------------------------------------------------------------
(* Names and files *)

Stdin == <<"(stdin)">>
Stdout == <<"(stdout)">>
zSuffix == <<".bz2", ".bz", ".tbz2", ".tbz">>
unzSuffix == << <<>>, <<>>, <<".tar">>, <<".tar">> >>
MadeFrom(name) ==
  IF \E i \in 1..4 : zSuffix[i] = Last(name)
  THEN Front(name) \o unzSuffix[CHOOSE i \in 1..4 : zSuffix[i] = Last(name)]
  ELSE Append(name, ".out")
NoName == <<"(none)">>
Suffixed(c, name) == IF c.src = "F2F" THEN Append(name, ".bz2") ELSE Stdout
Unsuffixed(c, name) == IF c.src = "F2F" THEN MadeFrom(name) ELSE Stdout
OutNameFor(c, name) ==
  CASE c.op = "z" -> Suffixed(c, name) [] c.op = "unz" -> Unsuffixed(c, name) [] OTHER -> NoName
OutName(name) == OutNameFor(conf, name)

fileExists(name) == name \in DOMAIN disk
Is(name, kind) == fileExists(name) /\ disk[name].kind = kind
notAStandardFile(name) == ~Is(name, "regular")
countHardLinks(name) == IF Is(name, "regular") /\ disk[name].linked THEN 1 ELSE 0
isatty(name) == Is(name, "terminal")
Without(name) == [n \in DOMAIN disk \ {name} |-> disk[n]]
With(name, file) == [n \in DOMAIN disk \cup {name} |-> IF n = name THEN file ELSE disk[n]]
Grown(data) == [disk EXCEPT ![p.outName].data = @ \o data]

Opened(data) == [open |-> TRUE, err |-> FALSE, all |-> data, data |-> data, buf |-> <<>>]
Closed == [Opened(<<>>) EXCEPT !.open = FALSE]

Mishap == mishaps < MaxMishaps /\ mishaps' = mishaps + 1
Fine == UNCHANGED mishaps
Step(change) == p' = [f \in DOMAIN p |-> IF f \in DOMAIN change THEN change[f] ELSE p[f]]
setExit(v) == IF v > p.exitValue THEN v ELSE p.exitValue
GoTo(pc) == Step([pc |-> pc])
Skipped(v) == Step([pc |-> "next", exitValue |-> setExit(v)])

\* What ends the program, and its exit value.
Code == [config |-> 3, panic |-> 3, memory |-> 1, io |-> 1, data |-> 2, eof |-> 2]
Failing(error) == Step([pc |-> "fail", ec |-> Code[error]])
\* ioError, and the handle is dropped.
FailingWithout == Step([pc |-> "fail", ec |-> Code.io, handle |-> FALSE])
At(pc) == p.pc = pc
FileFor(c) == c.src = "F2F" /\ c.op # "test"
MakesFile == FileFor(conf)

\* How the command may be called: no two files are made into one, no output is called to be
\* read after it was made, so that what is lost with it would be data of another, and no file
\* has the name that stands for stdout.
Apart(c, names) ==
  /\ \A i \in DOMAIN names : names[i] # Stdout
  /\ FileFor(c) => \A i, j \in DOMAIN names :
                     /\ OutNameFor(c, names[i]) \notin {Stdout, NoName}
                     /\ i # j => OutNameFor(c, names[i]) # OutNameFor(c, names[j])
                     /\ i <= j => OutNameFor(c, names[i]) # names[j]
Kinds == {"regular", "directory", "symlink", "pipe", "terminal"}
FileType == [kind : Kinds, linked : BOOLEAN, by : {"user", "bzip2"}, data : Seq(Chunks)]
ASSUME ChunkAssumption == {"BZh", "end", "!", "new"} \subseteq Chunks /\ "none" \notin Chunks
ASSUME CallAssumption ==
  \A s \in Scenarios :
    /\ s.env \in Seq(Seq(STRING)) /\ s.argv \in Seq(Seq(STRING))
    /\ s.disk \in [DOMAIN s.disk -> FileType] /\ NoName \notin DOMAIN s.disk /\ Stdout \in DOMAIN s.disk
    /\ \A n \in DOMAIN s.disk : s.disk[n].by = "user"
    /\ Apart(Options(s.prog, argList(s)), FileNames(argList(s)))

Init ==
  \E s \in Scenarios :
    /\ disk = s.disk /\ first = s.disk
    /\ conf = Options(s.prog, argList(s))
    /\ p = [pc |-> IF Stops(conf) THEN "exited" ELSE "next",
            todo |-> IF conf.src = "I2O" THEN <<Stdin>> ELSE FileNames(argList(s)),
            names |-> IF conf.src = "I2O" THEN <<Stdin>> ELSE FileNames(argList(s)),
            inName |-> NoName, outName |-> NoName, delete |-> FALSE, handle |-> FALSE, streamNo |-> 0,
            failsExist |-> FALSE, exitValue |-> IF conf.stop > 0 THEN 1 ELSE 0, ec |-> 0,
            unchecked |-> FALSE, warned |-> FALSE]
    /\ inp = Closed /\ out = Opened(<<>>)          \* stdout
    /\ owed = {s.disk[n].data : n \in {n \in DOMAIN s.disk \ {Stdout} : s.disk[n].kind = "regular" /\ ~s.disk[n].linked}}
    /\ mishaps = 0

----------------------------------------------------------------------------
(* compress, uncompress, testf: the tests before a file is opened *)

\* The first name that is too long ends the program.
copyFileName(to, change) ==
  IF to \in LongNames THEN Step([pc |-> "exited", exitValue |-> setExit(1)]) ELSE Step(change)

NextFile ==
  /\ At("next") /\ p.todo # <<>>
  /\ copyFileName(Head(p.todo),
                   [pc |-> "check", todo |-> Tail(p.todo), inName |-> Head(p.todo), outName |-> OutName(Head(p.todo)),
                    delete |-> FALSE, streamNo |-> 0])
  /\ UNCHANGED <<disk, conf, inp, out, owed, mishaps, first>>

NoInput == conf.src # "I2O" /\ (~fileExists(p.inName) \/ Is(p.inName, "directory"))
Refused ==
  \/ NoInput
  \/ conf.op = "z" /\ Last(p.inName) \in Range(zSuffix)
  \/ MakesFile /\ ~conf.force /\ notAStandardFile(p.inName)

Check ==
  /\ At("check")
  /\ IF Refused THEN Skipped(1) ELSE GoTo(IF MakesFile THEN "output" ELSE "open")
  /\ UNCHANGED <<disk, conf, inp, out, owed, mishaps, first>>

\* With -f the file in the way is removed; whether that worked is not looked at.
InTheWay == fileExists(p.outName)
CheckOutput ==
  /\ At("output")
  /\ IF InTheWay /\ ~conf.force THEN Skipped(1) ELSE GoTo("links")
  /\ IF InTheWay /\ conf.force
     THEN /\ owed' = owed \ {disk[p.outName].data}
          /\ \/ disk' = Without(p.outName) /\ Fine
             \/ UNCHANGED disk /\ Mishap
     ELSE UNCHANGED <<disk, owed, mishaps>>
  /\ UNCHANGED <<conf, inp, out, first>>

\* It fails when the input is gone.
saveInputFileMetaInfo == IF fileExists(p.inName) THEN GoTo("open") ELSE Failing("io")

ToKeepLinks == ~conf.force /\ countHardLinks(p.inName) > 0
CheckLinks ==
  /\ At("links")
  /\ IF ToKeepLinks THEN Skipped(1) ELSE saveInputFileMetaInfo
  /\ UNCHANGED <<disk, conf, inp, out, owed, mishaps, first>>

----------------------------------------------------------------------------
(* Opening the files *)

ToTerminal == conf.op = "z" /\ conf.src # "F2F" /\ isatty(Stdout)
FromTerminal == conf.op # "z" /\ conf.src = "I2O" /\ isatty(Stdin)

InputOpened ==
  \/ fileExists(p.inName) /\ inp' = Opened(disk[p.inName].data) /\ Fine
  \/ ~fileExists(p.inName) /\ inp' = Closed /\ Fine
  \/ conf.src # "I2O" /\ inp' = Closed /\ Mishap
OpenInput ==
  /\ At("open")
  /\ IF ToTerminal \/ FromTerminal THEN Skipped(1) /\ UNCHANGED <<inp, mishaps>>
     ELSE InputOpened /\ GoTo(IF MakesFile THEN "create" ELSE "ready")
  /\ UNCHANGED <<disk, conf, out, owed, first>>

\* Bug: O_TRUNC in the place of O_EXCL.
fopen_output_safely_Truncates(name) ==
  /\ disk' = With(name, [kind |-> "regular", linked |-> FALSE, by |-> "bzip2", data |-> <<>>])
  /\ out' = Opened(<<>>) /\ Fine

\* O_EXCL: only when there is no such file.
fopen_output_safely(name) ==
  \/ /\ ~fileExists(name)
     /\ disk' = With(name, [kind |-> "regular", linked |-> FALSE, by |-> "bzip2", data |-> <<>>])
     /\ out' = Opened(<<>>) /\ Fine
  \/ fileExists(name) /\ out' = Closed /\ Fine /\ UNCHANGED disk
  \/ out' = Closed /\ Mishap /\ UNCHANGED disk
  \/ /\ ~fileExists(name) /\ out' = Closed /\ Mishap                     \* fdopen
     /\ disk' = With(name, [kind |-> "regular", linked |-> FALSE, by |-> "bzip2", data |-> <<>>])

CreateOutput ==
  /\ At("create") /\ fopen_output_safely(p.outName)
  /\ GoTo("ready")
  /\ UNCHANGED <<conf, inp, owed, first>>

\* A file just made stays, empty, when the input could not be opened.
NotReady ==
  /\ At("ready") /\ (~inp.open \/ ~out.open)
  /\ Skipped(1) /\ inp' = Closed /\ out' = IF MakesFile THEN Closed ELSE out
  /\ UNCHANGED <<disk, conf, owed, mishaps, first>>

\* Bug: the output is not marked for deletion.
ReadyFor_NoDelete(op) == [pc |-> IF op = "z" THEN "compress" ELSE "stream", handle |-> op # "test", delete |-> FALSE]

ReadyFor(op) == [pc |-> IF op = "z" THEN "compress" ELSE "stream", handle |-> op # "test", delete |-> op # "test"]
Ready ==
  /\ At("ready") /\ inp.open /\ out.open
  /\ Step(ReadyFor(conf.op))
  /\ UNCHANGED <<disk, conf, inp, out, owed, mishaps, first>>

----------------------------------------------------------------------------
(* Streams of the C library.  What BZ2_bzWrite holds back counts as buffered. *)

\* To the buffer, or with the buffer to the file; or the file takes no more.
Written(data) ==
  \/ out' = [out EXCEPT !.buf = @ \o data] /\ UNCHANGED disk /\ Fine
  \/ out' = [out EXCEPT !.buf = <<>>] /\ disk' = Grown(out.buf \o data) /\ Fine
  \/ out' = [out EXCEPT !.buf = <<>>, !.err = TRUE] /\ UNCHANGED disk /\ Mishap
Flushed(data) ==
  \/ out' = [out EXCEPT !.buf = <<>>] /\ disk' = Grown(out.buf \o data) /\ Fine
  \/ out' = [out EXCEPT !.buf = <<>>, !.err = TRUE] /\ UNCHANGED disk /\ Mishap
Untouched == UNCHANGED <<disk, out, inp>>

\* Some call fails, and the program with it.
Fails(error) == Failing(error) /\ Mishap /\ Untouched
\* fgetc or fread fails: myfeof takes it for the end of the file.
ReadError == inp' = [inp EXCEPT !.err = TRUE] /\ Mishap /\ UNCHANGED <<disk, out>>

----------------------------------------------------------------------------
(* compressStream *)

CompressOpen ==
  /\ At("compress")
  /\ \/ Fails("memory")
     \/ GoTo("write") /\ out' = [out EXCEPT !.buf = @ \o <<"BZh">>] /\ Fine /\ UNCHANGED <<disk, inp>>
  /\ UNCHANGED <<conf, owed, first>>

CompressChunk ==
  /\ At("write") /\ inp.data # <<>> /\ ~inp.err
  /\ \/ /\ Written(<<Head(inp.data)>>) /\ inp' = [inp EXCEPT !.data = Tail(@)]
        /\ IF out'.err THEN Failing("io") ELSE UNCHANGED p
     \/ ReadError /\ UNCHANGED p              \* in myfeof
     \/ ReadError /\ Failing("io")               \* in fread
  /\ UNCHANGED <<conf, owed, first>>

\* BZ2_bzWriteClose64, fflush.
CompressEnd ==
  /\ At("write") /\ (inp.data = <<>> \/ inp.err)
  /\ Flushed(<<"end">>) /\ UNCHANGED inp
  /\ IF out'.err THEN Failing("io") ELSE GoTo("flushed")
  /\ UNCHANGED <<conf, owed, first>>

\* fchmod and fclose of the output; stdout stays open.
CloseOutput ==
  /\ At("flushed")
  /\ \/ GoTo("closed") /\ Fine
     \/ conf.src = "F2F" /\ conf.op = "z" /\ Failing("io") /\ Mishap
     \/ conf.src = "F2F" /\ FailingWithout /\ Mishap
  /\ out' = IF conf.src = "F2F" /\ (p'.pc = "closed" \/ ~p'.handle) THEN Closed ELSE out
  /\ UNCHANGED <<disk, conf, inp, owed, first>>

\* Bug: the errors of the input are forgotten.
InputFailed_Never == FALSE

\* ferror(stream): the error that myfeof took for the end.
InputFailed == inp.err

\* The handle is dropped; the input of compressStream is looked at and closed only now.
CloseInput ==
  /\ At("closed")
  /\ \/ (IF InputFailed THEN FailingWithout ELSE Step([pc |-> "finish", handle |-> FALSE]))
        /\ Fine /\ inp' = Closed /\ UNCHANGED <<disk, out>>
     \/ conf.op = "z" /\ ~InputFailed /\ FailingWithout /\ Mishap /\ Untouched
  /\ UNCHANGED <<conf, owed, first>>

----------------------------------------------------------------------------
(* uncompressStream, testStream *)

\* The library has not the memory; or it cannot read, which it may take for the end of the file.
TestFails == Step([pc |-> "next", failsExist |-> TRUE]) /\ inp' = Closed
LibraryFails ==
  \/ Fails("memory")
  \/ Fails("io")
  \/ conf.op = "unz" /\ Fails("eof")
  \/ conf.op = "test" /\ TestFails /\ Mishap /\ UNCHANGED <<disk, out>>
FoundBad(error) == IF conf.op = "test" THEN TestFails ELSE Failing(error) /\ UNCHANGED inp

OpenStream ==
  /\ At("stream")
  /\ \/ LibraryFails
     \/ /\ inp.data = <<>> /\ FoundBad("eof") /\ Fine /\ UNCHANGED <<disk, out>>
     \/ /\ inp.data # <<>> /\ Fine /\ UNCHANGED <<disk, out>>
        /\ Step([streamNo |-> p.streamNo + 1,
                 pc |-> IF Head(inp.data) = "BZh" THEN "data"
                        ELSE IF conf.op = "unz" /\ conf.force THEN "rewind" ELSE "bad magic"])
        /\ inp' = IF Head(inp.data) = "BZh" THEN [inp EXCEPT !.data = Tail(@)] ELSE inp
  /\ UNCHANGED <<conf, owed, first>>

ReadChunk ==
  /\ At("data")
  /\ \/ LibraryFails
     \/ (inp.data # <<>> => Head(inp.data) = "!") /\ FoundBad(IF inp.data = <<>> THEN "eof" ELSE "data") /\ Fine /\ UNCHANGED <<disk, out>>
     \/ /\ inp.data # <<>> /\ Head(inp.data) # "!"
        /\ inp' = [inp EXCEPT !.data = Tail(@)]
        /\ IF Head(inp.data) = "end" THEN GoTo("stream end") /\ Fine /\ UNCHANGED <<disk, out>>
           ELSE IF conf.op = "test" THEN Fine /\ UNCHANGED <<disk, out, p>>
           ELSE Written(<<Head(inp.data)>>) /\ IF out'.err THEN Failing("io") ELSE UNCHANGED p
  /\ UNCHANGED <<conf, owed, first>>

StreamEnd ==
  /\ At("stream end")
  /\ \/ GoTo(IF inp.data = <<>> THEN "closeok" ELSE "stream") /\ Fine /\ Untouched
     \/ GoTo("closeok") /\ ReadError
  /\ UNCHANGED <<conf, owed, first>>

\* trycat, forced: a pipe cannot be rewound, and what the library has read of it is gone.
Rewind ==
  /\ At("rewind") /\ GoTo("copy")
  /\ IF Is(p.inName, "pipe")
     THEN \E k \in 1..Len(inp.data) : inp' = [inp EXCEPT !.data = SubSeq(@, k + 1, Len(@))]
     ELSE inp' = [inp EXCEPT !.data = inp.all]
  /\ UNCHANGED <<disk, conf, out, owed, mishaps, first>>

CopyChunk ==
  /\ At("copy")
  /\ \/ inp.data = <<>> /\ GoTo("closeok") /\ Fine /\ Untouched
     \/ ReadError /\ GoTo("closeok")          \* in myfeof
     \/ ReadError /\ Failing("io")
     \/ /\ inp.data # <<>> /\ Written(<<Head(inp.data)>>) /\ inp' = [inp EXCEPT !.data = Tail(@)]
        /\ IF out'.err THEN Failing("io") ELSE UNCHANGED p
  /\ UNCHANGED <<conf, owed, first>>

\* closeok: the input is looked at and closed first.
CloseOk ==
  /\ At("closeok")
  /\ \/ Fails("io")
     \/ /\ InputFailed /\ Failing("io") /\ Fine /\ Untouched
     \/ /\ ~InputFailed /\ inp' = Closed
        /\ IF conf.op = "test" THEN GoTo("next") /\ Fine /\ UNCHANGED <<disk, out>>
           ELSE Flushed(<<>>) /\ IF out'.err THEN Failing("io") ELSE GoTo("flushed")
  /\ UNCHANGED <<conf, owed, first>>

\* errhandler, BZ_DATA_ERROR_MAGIC: both files are closed, and no one asks whether that worked.
BadMagic ==
  /\ At("bad magic") /\ inp' = Closed
  /\ IF conf.op = "test"
     THEN Step([pc |-> "next", failsExist |-> p.failsExist \/ p.streamNo = 1]) /\ Fine /\ UNCHANGED <<disk, out>>
     ELSE /\ IF conf.src = "F2F" THEN Flushed(<<>>) ELSE Fine /\ UNCHANGED <<disk, out>>
          /\ Step([pc |-> IF p.streamNo = 1 THEN "not bzip2" ELSE "closed",
                   unchecked |-> p.unchecked \/ (out'.err /\ out.buf # <<>>)])
  /\ UNCHANGED <<conf, owed, first>>

GiveUp ==
  /\ At("not bzip2") /\ Step([pc |-> "discard", handle |-> FALSE, delete |-> FALSE, failsExist |-> TRUE])
  /\ UNCHANGED <<disk, conf, inp, out, owed, mishaps, first>>

Discard ==
  /\ At("discard")
  /\ \/ Skipped(2) /\ Fine /\ disk' = IF conf.src = "F2F" THEN Without(p.outName) ELSE disk
     \/ conf.src = "F2F" /\ Failing("io") /\ Mishap /\ UNCHANGED disk
  /\ UNCHANGED <<conf, inp, out, owed, first>>

----------------------------------------------------------------------------
(* The end of a file, and of the program *)

RemovesInput == conf.src = "F2F" /\ ~conf.keep

\* utime.
Finish ==
  /\ At("finish")
  /\ \/ Step([pc |-> IF RemovesInput THEN "unlink" ELSE "next", delete |-> FALSE]) /\ Fine
     \/ conf.src = "F2F" /\ Failing("io") /\ Mishap
  /\ UNCHANGED <<disk, conf, inp, out, owed, first>>

RemoveInput ==
  /\ At("unlink")
  /\ \/ fileExists(p.inName) /\ disk' = Without(p.inName) /\ GoTo("next") /\ Fine
     \/ UNCHANGED disk /\ Failing("io") /\ ((~fileExists(p.inName) /\ Fine) \/ Mishap)
  /\ UNCHANGED <<conf, inp, out, owed, first>>

\* exit writes what stdout holds, and nobody hears of an error.
Exit ==
  /\ At("next") /\ p.todo = <<>>
  /\ IF conf.src = "F2F" \/ out.buf = <<>> THEN Fine /\ UNCHANGED <<disk, out>> ELSE Flushed(<<>>)
  /\ Step([pc |-> "exited", exitValue |-> IF p.failsExist THEN setExit(2) ELSE p.exitValue,
           unchecked |-> p.unchecked \/ out'.err])
  /\ UNCHANGED <<conf, inp, owed, first>>

Exits(ec, warned) == Step([pc |-> "exited", exitValue |-> setExit(ec), warned |-> warned])
Dies == GoTo("killed")

\* The output goes, unless the input is gone.  Closing it a second time is undefined:
\* it may have no effect, or be the end.
cleanUpAndFail(ec) ==
  /\ IF MakesFile /\ p.delete /\ fileExists(p.inName)
     THEN \/ disk' = Without(p.outName) /\ Exits(ec, FALSE) /\ Fine
          \/ UNCHANGED disk /\ Exits(ec, TRUE) /\ Mishap
          \/ p.handle /\ ~out.open /\ UNCHANGED disk /\ Dies /\ Fine
     ELSE UNCHANGED disk /\ Exits(ec, MakesFile /\ p.delete) /\ Fine
  /\ UNCHANGED <<conf, inp, out, owed, first>>

Running == p.pc \notin {"exited", "killed"}
Fail == At("fail") /\ cleanUpAndFail(p.ec)
\* mySignalCatcher, for SIGINT, SIGTERM, SIGHUP.
mySignalCatcher == Running /\ conf.src = "F2F" /\ cleanUpAndFail(1)
\* A signal no one catches, or mySIGSEGVorSIGBUScatcher.
Killed == Running /\ Dies /\ UNCHANGED <<disk, conf, inp, out, owed, mishaps, first>>

\* Another process makes a file where the output is to be, or removes the input.
Intrudes ==
  /\ Running /\ MakesFile /\ Mishap /\ ~fileExists(p.outName) /\ p.outName # NoName
  /\ disk' = With(p.outName, [kind |-> "regular", linked |-> FALSE, by |-> "user", data |-> <<"new">>])
  /\ owed' = owed \cup {<<"new">>}
  /\ UNCHANGED <<conf, p, inp, out, first>>
Vanishes ==
  /\ Running /\ conf.src # "I2O" /\ Mishap /\ fileExists(p.inName)
  /\ disk' = Without(p.inName) /\ owed' = owed \ {disk[p.inName].data}
  /\ UNCHANGED <<conf, p, inp, out, first>>

Over == ~Running /\ UNCHANGED vars

Next ==
  \/ NextFile \/ Check \/ CheckOutput \/ CheckLinks \/ OpenInput \/ CreateOutput \/ NotReady \/ Ready
  \/ CompressOpen \/ CompressChunk \/ CompressEnd \/ CloseOutput \/ CloseInput
  \/ OpenStream \/ ReadChunk \/ StreamEnd \/ Rewind \/ CopyChunk \/ CloseOk \/ BadMagic \/ GiveUp \/ Discard
  \/ Finish \/ RemoveInput \/ Exit \/ Fail \/ mySignalCatcher \/ Killed \/ Intrudes \/ Vanishes \/ Over

Spec == Init /\ [][Next]_vars

----------------------------------------------------------------------------
(* What the command is to make of data *)

Packed(data) == <<"BZh">> \o data \o <<"end">>
None == <<"none">>

\* Unpacker data a chunk at a time: what it is in, whether there was a stream, what came out.
\* What is no stream where one might begin is garbage, to the end.
Unpacker == [mode : {"between", "inside", "garbage", "bad"}, any : BOOLEAN, data : Seq(Chunks)]
Packet == [mode |-> "between", any |-> FALSE, data |-> <<>>]
UnpackStep ==
  [x \in Unpacker \X Chunks |->
     LET u == x[1]
         c == x[2]
     IN CASE u.mode = "between" -> IF c = "BZh" THEN [u EXCEPT !.mode = "inside", !.any = TRUE]
                                   ELSE [u EXCEPT !.mode = "garbage"]
          [] u.mode = "inside"  -> IF c = "end" THEN [u EXCEPT !.mode = "between"]
                                   ELSE IF c = "!" THEN [u EXCEPT !.mode = "bad"]
                                   ELSE [u EXCEPT !.data = Append(@, c)]
          [] OTHER -> u]
Unpacked(data) == Accumulate(UnpackStep, Packet, data)

\* Trailing garbage is ignored; forced, what is no stream is passed through, and garbage brings
\* the whole input once more.
Restored(data, forced) ==
  LET u == Unpacked(data)
  IN  IF u.mode \in {"inside", "bad"} \/ data = <<>> \/ (~u.any /\ ~forced) THEN None
      ELSE IF u.mode = "garbage" /\ forced THEN u.data \o data ELSE u.data
Meant(data) == IF conf.op = "z" THEN Packed(data) ELSE Restored(data, conf.force)

\* bzip2.c:1284-1297, 1461-1474, 670-724: whatever fails or interrupts, and wherever, all data
\* that was there is in some file, as it was, packed or unpacked; but for what -f overwrites
\* and what others remove.  Left out: an output whose last part was lost in the unchecked
\* fclose of the trailing garbage path.
DataSurvives ==
  ~p.unchecked => \A data \in owed : \E n \in DOMAIN disk :
                    disk[n].data \in {data, Packed(data), Restored(data, FALSE), Restored(data, TRUE)}

\* A pipe that -d -f passes through: some of it may be gone.
Passed(name) == name \in DOMAIN first /\ first[name].kind = "pipe" /\ conf.op = "unz" /\ conf.force

\* bzip2.c:670-724, 1284, 1461: an exit leaves no file with part of an output, unless it says so.
NothingPartialLeft ==
  (p.pc = "exited" /\ ~p.unchecked /\ ~p.warned) =>
    \A n \in DOMAIN disk \ {Stdout} :
      disk[n].by = "bzip2" => \/ disk[n].data \in {<<>>} \cup {Meant(first[m].data) : m \in DOMAIN first}
                             \/ \E m \in DOMAIN first : Passed(m) /\ n = OutName(m)

ToStdout == conf.src # "F2F" /\ conf.op \in {"z", "unz"}
\* What stdout should hold when k files are dealt with: what they are made into, one after the
\* other, after what it held at the beginning.
JoinStep == [x \in Seq(Chunks) \X Seq(Chunks) |-> x[1] \o x[2]]
Due(k) == Accumulate(JoinStep, first[Stdout].data, [i \in 1..k |-> Meant(first[p.names[i]].data)])

\* bzip2.c:634-637, 1966-2020: an exit value of 0 says that every file was dealt with, and
\* its output is what it should be.  Left out: a pipe that -d -f passes through.
ExitTells ==
  LET done == Range(p.names)
  IN  (p.pc = "exited" /\ p.exitValue = 0 /\ ~Stops(conf) /\ ~p.unchecked) =>
        /\ done \subseteq DOMAIN first
        /\ \A n \in done : Meant(first[n].data) # None
        /\ MakesFile => \A n \in done : Passed(n) \/ (OutName(n) \in DOMAIN disk /\ disk[OutName(n)].data = Meant(first[n].data))
        /\ (ToStdout /\ \A n \in done : ~Passed(n)) => disk[Stdout].data = Due(Len(p.names))

----------------------------------------------------------------------------
(* The inductive invariant behind DataSurvives, NothingPartialLeft and ExitTells *)

Fields == {"pc", "todo", "names", "inName", "outName", "delete", "handle", "streamNo", "failsExist",
           "exitValue", "ec", "unchecked", "warned"}
FILE == [open : BOOLEAN, err : BOOLEAN, all : Seq(Chunks), data : Seq(Chunks), buf : Seq(Chunks)]
Before == {"next", "check", "output", "links", "open"}
Writing == {"compress", "write", "stream", "data", "stream end", "rewind", "copy", "closeok", "bad magic",
            "not bzip2", "flushed", "closed", "finish"}
Working == Writing \cup {"discard", "unlink"}
After == {"not bzip2", "discard", "finish", "unlink"}
Early == {"check", "output", "links", "open", "create", "ready"}
Reading == {"compress", "write", "stream", "data", "stream end", "rewind", "copy", "closeok", "bad magic"}

TypeOK ==
  /\ disk \in [DOMAIN disk -> FileType] /\ first \in [DOMAIN first -> FileType]
  /\ inp \in FILE /\ out \in FILE
  /\ DOMAIN p = Fields /\ p.streamNo \in Nat
  /\ p.pc \in Before \cup {"create", "ready"} \cup Working \cup {"fail", "exited", "killed"}

\* The file called as the now-th is the one dealt with; the others are to do.
now == Len(p.names) - Len(p.todo)
InOrder ==
  LET S == {p.names[i] : i \in DOMAIN p.names}
  IN  /\ p.names \in Seq(S) /\ p.todo \in Seq(S) /\ Len(p.todo) <= Len(p.names)
      /\ \A i \in 1..Len(p.todo) : p.todo[i] = p.names[now + i]
      /\ IF now = 0 THEN p.pc \in {"next", "exited", "killed"} /\ p.inName = NoName /\ p.outName = NoName /\ out.buf = <<>>
         ELSE p.inName = p.names[now] /\ p.outName = OutName(p.inName)
      /\ Apart(conf, p.names)
      /\ NoName \notin DOMAIN disk /\ Stdout \in DOMAIN disk /\ Stdout \in DOMAIN first

\* Where it is: there is an output to make; the input is not open yet, not read yet, still open or
\* closed; and the output is marked for deletion only while it is written.
Located ==
  /\ p.pc \in {"output", "links", "create"} => MakesFile
  /\ p.pc \in Before \cup After => ~inp.open
  /\ p.pc \in Reading => inp.open
  /\ p.pc \in Early => p.streamNo = 0 /\ (inp.open => inp.data = inp.all)
  /\ MakesFile /\ p.pc \in Before \cup {"create", "ready", "discard", "unlink"} => ~p.delete
  /\ MakesFile /\ p.pc \in Writing => p.delete

\* The output that is written, or would be removed, is the one that was made.
Mine ==
  MakesFile /\ (p.pc \in Working \/ (p.pc = "ready" /\ out.open) \/ (p.pc = "fail" /\ p.delete)) =>
    p.outName \in DOMAIN disk /\ disk[p.outName].by = "bzip2"

\* Nobody has changed the files that are still to be read.
Inputs ==
  /\ \A j \in DOMAIN p.names : j >= now /\ p.names[j] \in DOMAIN disk =>
       /\ p.names[j] \in DOMAIN first
       /\ disk[p.names[j]].data = first[p.names[j]].data /\ disk[p.names[j]].kind = first[p.names[j]].kind
  /\ inp.open => p.inName \in DOMAIN first /\ inp.all = first[p.inName].data

\* Nothing so far that the exit value will tell, or that was not looked at, or that a pipe lost;
\* the first k inputs are what can be packed or unpacked.
Fair == p.exitValue = 0 /\ ~p.failsExist /\ ~p.unchecked
Well == Fair /\ \A i \in DOMAIN p.names : ~Passed(p.names[i])
AllMeant(k) == \A i \in 1..k : p.names[i] \in DOMAIN first /\ Meant(first[p.names[i]].data) \in Seq(Chunks)

\* The output so far, and of that what this file has brought, where it counts.
Got == disk[p.outName].data \o out.buf
Base == IF MakesFile THEN <<>> ELSE Due(now - 1)
Counts == MakesFile \/ (ToStdout /\ Well /\ AllMeant(now - 1))
Wrote(data) == Counts => Got = Base \o data

\* All files so far are on stdout, or in its buffer.
Level == ToStdout /\ Well /\ AllMeant(now) => disk[Stdout].data \o out.buf = Due(now)

\* The output is the whole of what the input is made into; and it is in its file.
Goal == Meant(first[p.inName].data)
Judged == p.inName \in DOMAIN first /\ Goal \in Seq(Chunks)
Piped == Passed(p.inName)
Done == Judged /\ (Piped \/ Wrote(Goal))
Delivered == Judged /\ (Piped \/ IF MakesFile THEN disk[p.outName].data = Goal ELSE Wrote(Goal))

\* What the part of the input that is read has become.
Consumed == SubSeq(inp.all, 1, Len(inp.all) - Len(inp.data))
Garbage == inp.data # <<>> /\ Head(inp.data) # "BZh"
Unwound(mode) ==
  LET u == Unpacked(Consumed)
  IN  inp.all = Consumed \o inp.data /\ u.mode = mode /\ Wrote(u.data)

Content ==
  /\ p.pc = "next" => Level
  /\ p.pc \in Early /\ (MakesFile => p.pc = "ready" /\ inp.open /\ out.open) => Wrote(<<>>)
  /\ p.pc = "compress" => conf.op = "z" /\ Wrote(<<>>) /\ inp.data = inp.all
  /\ p.pc = "write" => conf.op = "z" /\ (~inp.err => inp.all = Consumed \o inp.data /\ Wrote(<<"BZh">> \o Consumed))
  /\ p.pc \in {"stream", "data", "stream end", "rewind", "copy", "bad magic", "closeok"} => conf.op # "z"
  /\ p.pc = "stream" => Unwound("between") /\ (p.streamNo = 0 <=> Consumed = <<>>) /\ (Consumed # <<>> => Unpacked(Consumed).any)
  /\ p.pc = "data" => Unwound("inside") /\ Unpacked(Consumed).any /\ p.streamNo > 0
  /\ p.pc = "stream end" => Unwound("between") /\ Unpacked(Consumed).any /\ p.streamNo > 0
  /\ p.pc = "rewind" => Unwound("between") /\ Garbage /\ conf.force /\ conf.op = "unz"
  /\ p.pc = "bad magic" => /\ Unwound("between") /\ Garbage /\ ~(conf.op = "unz" /\ conf.force)
                          /\ IF p.streamNo = 1 THEN Consumed = <<>> ELSE Unpacked(Consumed).any
  /\ p.pc = "copy" => /\ conf.op = "unz" /\ Meant(inp.all) \in Seq(Chunks)
                     /\ \/ Piped
                        \/ /\ inp.all = Consumed \o inp.data /\ Wrote(Unpacked(inp.all).data \o Consumed)
                           /\ Meant(inp.all) = Unpacked(inp.all).data \o inp.all
  /\ p.pc = "closeok" => inp.err \/ Done
  /\ p.pc \in {"flushed", "closed"} => inp.err \/ p.unchecked \/ Delivered
  /\ p.pc \in {"finish", "unlink"} => p.unchecked \/ Delivered
  /\ MakesFile /\ p.pc \in {"not bzip2", "discard"} => disk[p.outName].data = <<>>

\* Whatever the command has made is whole, but for the output that is marked for deletion.
Whole(n) ==
  \/ disk[n].data = <<>>
  \/ \E m \in DOMAIN first : disk[n].data = Meant(first[m].data) \/ (Passed(m) /\ n = OutName(m))
Made ==
  \A n \in DOMAIN disk : disk[n].by = "bzip2" =>
    /\ MakesFile
    /\ \/ p.unchecked \/ Whole(n)
       \/ n = p.outName /\ (p.delete \/ p.pc = "killed") /\ (p.pc = "exited" => p.warned)

\* What is owed is in a file of the user's, or it is what the output of a file before this one was
\* made from.
Kept(data) ==
  \/ \E n \in DOMAIN disk \ {Stdout} : disk[n].by = "user" /\ disk[n].kind = "regular" /\ disk[n].data = data
  \/ \E j \in 1..now :
       /\ j = now => p.pc \in {"next", "exited", "killed"} /\ ~p.delete
       /\ MakesFile /\ OutName(p.names[j]) \in DOMAIN disk /\ disk[OutName(p.names[j])].data = Meant(data)
KeptAll == p.unchecked \/ \A data \in owed : Kept(data)

\* A test makes no output, and removes no input.
Untested ==
  /\ p.pc \in {"compress", "write", "flushed", "closed", "finish"} => conf.op # "test"
  /\ p.pc = "unlink" => MakesFile

IInv == TypeOK /\ InOrder /\ Located /\ Mine /\ Inputs /\ Content /\ Made /\ KeptAll

\* As long as nothing speaks against it, every file before this one is dealt with, and so is this
\* one when its turn is over; no error ends with an exit value of 0.
Handled(name) ==
  /\ name \in DOMAIN first /\ Meant(first[name].data) \in Seq(Chunks)
  /\ MakesFile => Passed(name) \/ (OutName(name) \in DOMAIN disk /\ disk[OutName(name)].data = Meant(first[name].data))
Codes == p.exitValue \in Nat /\ p.ec \in Nat /\ (p.pc = "fail" => p.ec > 0)
Told ==
  /\ Codes
  /\ Fair => \A i \in 1..now : (i = now => p.pc \in {"next", "exited"}) => Handled(p.names[i])
  /\ p.pc = "exited" /\ p.exitValue = 0 /\ ~Stops(conf) =>
       /\ p.todo = <<>> /\ ~p.failsExist
       /\ ToStdout /\ Well /\ AllMeant(now) => disk[Stdout].data = Due(now)
=============================================================================
