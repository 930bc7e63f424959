-------------------------------- MODULE Sandbox --------------------------------
(***************************************************************************)
(* The tools of src/internal/tool/handlers.go that change files:           *)
(* file.write, file.delete and notes.create, called at the same time by    *)
(* turns of several agents.  They take no lock, so every system call is a  *)
(* step of its own.                                                        *)
(*                                                                         *)
(* A name is bound to an inode, which holds the pieces written to it.  An  *)
(* open file keeps its inode when its name is moved or removed.  The notes *)
(* have a folder of their own, which the file tools do not reach.  A write *)
(* succeeds; the rename may not.                                           *)
(*                                                                         *)
(* A definition marked "Mutant" is a wrong version of the one after it;    *)
(* it is used only to show that the property it breaks can fail.           *)
(***************************************************************************)
EXTENDS Integers, Sequences, FiniteSets, SequencesExt

CONSTANTS
  Calls,     \* tool calls; a call is made once, and its content is one piece
  Paths,     \* paths in the sandbox, outside .trash
  Base,      \* path -> filepath.Base
  Titles,    \* titles of notes
  SafeName,  \* title -> the file of its note: "/" and " " become "_"
  NoFile,    \* the name is not bound
  MaxClock   \* bound: the clock, in seconds

Notes == {SafeName[n] : n \in Titles}
Files == Paths \cup Notes
Bases == {Base[p] : p \in Paths}

\* Names of .trash: the base name alone, or with the second of the delete.
NoStamp == -1
TrashNames == Bases \X (0..MaxClock \cup {NoStamp})

ASSUME SandboxAssumption ==
  /\ MaxClock \in Nat
  /\ Notes \cap Paths = {}
  /\ NoFile \notin Calls

VARIABLES
  clock,     \* time.Now().Unix()
  files,     \* file -> inode or NoFile
  trash,     \* name in .trash -> inode or NoFile
  inodes,    \* inode -> its pieces; an inode is named for the call that made it
  call,      \* call -> [pc, path, ino, dest, at, saw]
  taken,     \* history: inode -> the second it was moved to .trash
  clobbered, \* history: appends whose file was overwritten after them, but by no
             \* create_new that saw it
  appended   \* history: call -> the inode it appended to, answered with success

sandboxVars == <<clock, files, trash, inodes, call, taken, clobbered, appended>>

NoTrash == <<"none", NoStamp>>

SandboxInit ==
  /\ clock = 0
  /\ files = [p \in Files |-> NoFile]
  /\ trash = [n \in TrashNames |-> NoFile]
  /\ inodes = [i \in {} |-> <<>>]
  /\ call = [c \in Calls |-> [pc |-> "idle", path |-> NoFile, ino |-> NoFile,
                             dest |-> NoTrash, at |-> 0, saw |-> {}]]
  /\ taken = [i \in {} |-> 0]
  /\ clobbered = {}
  /\ appended = [c \in {} |-> NoFile]

In(c, pc) == call[c].pc = pc

Path(c) == call[c].path

Goes(c, pc) == call' = [call EXCEPT ![c].pc = pc]

Begins(c, pc, p) ==
  /\ In(c, "idle")
  /\ call' = [call EXCEPT ![c].pc = pc, ![c].path = p]

Born(i) == i \in DOMAIN inodes

Bind(i, pieces) == [j \in DOMAIN inodes \cup {i} |-> IF j = i THEN pieces ELSE inodes[j]]

-----------------------------------------------------------------------------
(***************************************************************************)
(* file.write and notes.create.                                            *)
(***************************************************************************)
Write(c, p) ==
  /\ Begins(c, "truncate", p)
  /\ UNCHANGED <<clock, files, trash, inodes, taken, clobbered, appended>>

\* NotesCreate.Execute: two titles may have one file.
CreateNote(c, n) == Write(c, SafeName[n])

\* FileWrite.Execute in mode create_new: a Stat, then a WriteFile.
CreateNew(c, p) ==
  /\ In(c, "idle")
  /\ call' = [call EXCEPT ![c] = [@ EXCEPT !.pc = IF files[p] = NoFile THEN "truncate" ELSE "done",
                                           !.path = p, !.saw = DOMAIN inodes]]
  /\ UNCHANGED <<clock, files, trash, inodes, taken, clobbered, appended>>

AppendedTo(ino) == {d \in DOMAIN appended : appended[d] = ino}

\* os.WriteFile opens with O_CREATE and O_TRUNC.
Truncate(c) ==
  LET old == files[Path(c)]
      ino == IF old = NoFile THEN c ELSE old
  IN /\ In(c, "truncate")
     /\ files' = [files EXCEPT ![Path(c)] = ino]
     /\ inodes' = Bind(ino, <<>>)
     /\ clobbered' = IF ino \in call[c].saw THEN clobbered ELSE clobbered \cup AppendedTo(ino)
     /\ call' = [call EXCEPT ![c].pc = "write", ![c].ino = ino]
     /\ UNCHANGED <<clock, trash, taken, appended>>

OverFirst(pieces, c) == <<c>> \o (IF pieces = <<>> THEN <<>> ELSE Tail(pieces))

\* WriteFile's write goes to the start of the file, over what others put
\* there since it was truncated.
WriteAtStart(c) ==
  LET ino == call[c].ino
  IN /\ In(c, "write")
     /\ inodes' = Bind(ino, OverFirst(inodes[ino], c))
     /\ clobbered' = clobbered \cup AppendedTo(ino)
     /\ Goes(c, "done")
     /\ UNCHANGED <<clock, files, trash, taken, appended>>

\* Mode append: OpenFile with O_APPEND and O_CREATE.
OpenAppend(c, p) ==
  LET ino == IF files[p] = NoFile THEN c ELSE files[p]
  IN /\ In(c, "idle")
     /\ files' = [files EXCEPT ![p] = ino]
     /\ inodes' = IF Born(ino) THEN inodes ELSE Bind(ino, <<>>)
     /\ call' = [call EXCEPT ![c] = [@ EXCEPT !.pc = "append", !.path = p, !.ino = ino]]
     /\ UNCHANGED <<clock, trash, taken, clobbered, appended>>

Appends(c, pieces) ==
  /\ In(c, "append")
  /\ inodes' = Bind(call[c].ino, pieces)
  /\ appended' = [d \in DOMAIN appended \cup {c} |->
                    IF d = c THEN call[c].ino ELSE appended[d]]
  /\ Goes(c, "done")
  /\ UNCHANGED <<clock, files, trash, taken, clobbered>>

\* Mutant: opened without O_APPEND, the piece goes over the first.
AppendAtStart(c) == Appends(c, OverFirst(inodes[call[c].ino], c))

\* With O_APPEND the end is found by the write.
AppendAtEnd(c) == Appends(c, Append(inodes[call[c].ino], c))

-----------------------------------------------------------------------------
(***************************************************************************)
(* FileDelete.Execute.                                                     *)
(***************************************************************************)
\* permanent: os.RemoveAll succeeds whether or not there is a file.
RemoveAll(c, p) ==
  /\ Begins(c, "done", p)
  /\ files' = [files EXCEPT ![p] = NoFile]
  /\ UNCHANGED <<clock, trash, inodes, taken, clobbered, appended>>

\* Mutant: one name for every delete of a base name.
DestPlain(p) == <<Base[p], NoStamp>>

\* The name in .trash: stamped with the second when the plain one is taken.
Dest(p) ==
  <<Base[p], IF trash[<<Base[p], NoStamp>>] = NoFile THEN NoStamp ELSE clock>>

Delete(c, p) ==
  /\ In(c, "idle")
  /\ call' = [call EXCEPT ![c] = [@ EXCEPT !.pc = "rename", !.path = p, !.dest = Dest(p),
                                              !.at = clock]]
  /\ UNCHANGED <<clock, files, trash, inodes, taken, clobbered, appended>>

\* os.Rename replaces what has the name.
Rename(c) ==
  LET ino == files[Path(c)]
  IN /\ In(c, "rename") /\ ino # NoFile
     /\ files' = [files EXCEPT ![Path(c)] = NoFile]
     /\ trash' = [trash EXCEPT ![call[c].dest] = ino]
     /\ taken' = [i \in DOMAIN taken \cup {ino} |-> IF i = ino THEN clock ELSE taken[i]]
     /\ Goes(c, "done")
     /\ UNCHANGED <<clock, inodes, clobbered, appended>>

\* "Error moving to trash": the file is not there, or not any more.
RenameFails(c) ==
  /\ In(c, "rename") /\ files[Path(c)] = NoFile
  /\ Goes(c, "done")
  /\ UNCHANGED <<clock, files, trash, inodes, taken, clobbered, appended>>

Second ==
  /\ clock < MaxClock
  /\ clock' = clock + 1
  /\ UNCHANGED <<files, trash, inodes, call, taken, clobbered, appended>>

-----------------------------------------------------------------------------
SandboxNext ==
  \/ Second
  \/ \E c \in Calls :
       \/ \E p \in Paths : \/ Write(c, p) \/ CreateNew(c, p) \/ OpenAppend(c, p)
                           \/ RemoveAll(c, p) \/ Delete(c, p)
       \/ \E n \in Titles : CreateNote(c, n)
       \/ Truncate(c) \/ WriteAtStart(c) \/ AppendAtEnd(c)
       \/ Rename(c) \/ RenameFails(c)

SandboxSpec == SandboxInit /\ [][SandboxNext]_sandboxVars

-----------------------------------------------------------------------------
\* The type of the state.
SandboxTypeOK ==
  /\ clock \in 0..MaxClock
  /\ files \in [Files -> Calls \cup {NoFile}] /\ trash \in [TrashNames -> Calls \cup {NoFile}]
  /\ DOMAIN inodes \subseteq Calls /\ \A i \in DOMAIN inodes : inodes[i] \in Seq(Calls)
  /\ \A c \in Calls : call[c].pc \in {"idle", "truncate", "write", "append", "rename", "done"}
  /\ DOMAIN taken \subseteq DOMAIN inodes
  /\ DOMAIN appended \subseteq Calls /\ clobbered \subseteq DOMAIN appended

\* What file.write answered "File written" to in mode append is in the file
\* it opened, once, wherever that was moved meanwhile and whatever was appended
\* to it since, unless the file was overwritten after it: by a write, or by a
\* create_new that looked before the file was there.
AppendsKept ==
  \A c \in DOMAIN appended \ clobbered :
    Cardinality({k \in DOMAIN inodes[appended[c]] : inodes[appended[c]][k] = c}) = 1

\* A delete takes the place of nothing that was in .trash before the second
\* in which it looked there: only two deletes of one base name, in the same
\* second or overlapping, lose a file.
TrashKeepsWhatItHad ==
  [][\A n \in TrashNames :
       trash[n] \notin {NoFile, trash'[n]} =>
         \E c \in Calls : In(c, "rename") /\ ~In(c, "rename")' /\ call[c].at <= taken[trash[n]]]_sandboxVars
=============================================================================
