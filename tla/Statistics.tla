----------------------------- MODULE Statistics -----------------------------
(***************************************************************************)
(* One onnc::Statistics object over the files it may be opened on        *)
(* (Statistics.cpp).  The object is valid when m_pGroup is non-NULL, and *)
(* m_pGroup points into the object held by m_Value.                     *)
(*                                                                         *)
(* A JSON value is Undef (never assigned, or cleared), NonObject (legal   *)
(* JSON that is not an object) or an object: a function from the few     *)
(* group names to a group value or Absent.  A file is abstracted to what *)
(* json::Reader::parse makes of it: Missing (kCantOpen), Illegal         *)
(* (kIllegal), or a JSON value, an empty file being Undef.  What          *)
(* m_Value.print writes parses back to m_Value.                           *)
(*                                                                         *)
(* json::Reader and json::Object are not in this repository.  What the    *)
(* reader leaves in m_Value when it rejects the text is not known, so it *)
(* is Undef or any object (a partial parse).  Object::insert keeps an     *)
(* existing key and Value::write replaces it, as for a std::map.          *)
(***************************************************************************)
EXTENDS Naturals, FiniteSets

CONSTANTS
    Files,        \* paths the object can be opened on
    Groups,       \* names of top-level groups
    GroupVals,    \* contents of a group, abstracted; includes EmptyGroup
    EmptyGroup,   \* json::Object(), the content addGroup inserts
    Absent,       \* a group name with no entry in an object
    NoPath,       \* m_FilePath after clear()
    Undef,        \* an undefined json::Value, and what it prints as
    NonObject,    \* a legal JSON value that is not an object
    Illegal,      \* text json::Reader rejects
    Missing,      \* no file at a path (is_regular is false)
    PrintMayFail  \* the stream can fail while print writes (disk full, I/O error)

VARIABLES
    phase,        \* "unborn" or "alive"
    valid,        \* m_pGroup != NULL
    mode,         \* m_AccessMode: "kReadOnly" or "kReadWrite"
    path,         \* m_FilePath
    value,        \* m_Value
    disk,         \* the content of every file
    writing,      \* "none", or the sync in progress: "sync" or "dtor"
    durable,      \* history: the content of the last complete write of
                  \* each file (what it held at first when never written)
    syncResult    \* what the call of this step returned to the client if
                  \* it was sync(): "true" or "false"; "none" for any other step

statVars == <<phase, valid, mode, path, value, disk, writing, durable, syncResult>>

Obj == [Groups -> GroupVals \cup {Absent}]
EmptyObj == [g \in Groups |-> Absent]
FileContents == {Missing, Undef, NonObject, Illegal} \cup Obj
\* Strings a caller may hand to read(): legal object text, legal
\* non-object text, or text the reader rejects.
Texts == {NonObject, Illegal} \cup Obj

\* What json::Reader::read leaves in m_Value for a string.
ReadResult(t) == IF t = Illegal THEN {Undef} \cup Obj ELSE {t}

-----------------------------------------------------------------------------
Init ==
    /\ phase = "unborn"
    /\ valid = FALSE
    /\ mode = "kReadOnly"
    /\ path = NoPath
    /\ value = Undef
    /\ disk \in [Files -> FileContents]
    /\ writing = "none"
    /\ durable = disk
    /\ syncResult = "none"

Alive == phase = "alive"

\* No sync is half done: the program is between two calls.
Idle == Alive /\ writing = "none"

\* Statistics::Statistics(): reads nothing.
ConstructEmpty ==
    /\ phase = "unborn"
    /\ phase' = "alive"
    /\ UNCHANGED <<valid, mode, path, value, disk, writing, durable>>

\* Mutant: read() without its !isValid() test.
ReadTextIgnoringValid(t) ==
    /\ mode' = "kReadOnly"
    /\ path' = NoPath
    /\ \E v \in ReadResult(t) :
          /\ value' = v
          /\ IF v \in Obj /\ t # Illegal THEN valid' = TRUE ELSE UNCHANGED valid
    /\ UNCHANGED <<disk, writing, durable>>

\* Statistics::read(StringRef): only an invalid object reads; the content
\* becomes its m_Value, and a group is created when it is an object.
ReadText(t) ==
    /\ ~valid
    /\ mode' = "kReadOnly"
    /\ path' = NoPath
    /\ \E v \in ReadResult(t) :
          /\ value' = v
          /\ IF v \in Obj /\ t # Illegal THEN valid' = TRUE ELSE UNCHANGED valid
    /\ UNCHANGED <<disk, writing, durable>>

\* The constructors from a string (StringRef, std::string, const char*)
\* run read(); with a NULL const char* the object is left as
\* ConstructEmpty leaves it.
ConstructFromText(t) ==
    /\ phase = "unborn"
    /\ phase' = "alive"
    /\ ReadText(t)

\* Statistics::open(path, mode): a valid object ignores it.  Otherwise the
\* mode and path are taken first, then the file is parsed: kCantOpen and
\* an illegal or non-object content return with the object invalid; an
\* empty file becomes an empty object.
OpenFile(f, m) ==
    /\ ~valid
    /\ mode' = m
    /\ path' = f
    /\ \/ /\ disk[f] = Missing
          /\ UNCHANGED <<valid, value>>
       \/ /\ disk[f] = Illegal
          /\ value' \in {Undef} \cup Obj
          /\ UNCHANGED valid
       \/ /\ disk[f] = NonObject
          /\ value' = NonObject
          /\ UNCHANGED valid
       \/ /\ disk[f] = Undef
          /\ value' = EmptyObj
          /\ valid' = TRUE
       \/ /\ disk[f] \in Obj
          /\ value' = disk[f]
          /\ valid' = TRUE
    /\ UNCHANGED <<disk, writing, durable>>

\* A valid object ignores open() and read(): those calls are stuttering.
Open(f, m) ==
    /\ Idle
    /\ OpenFile(f, m)
    /\ UNCHANGED phase

\* Statistics::Statistics(const Path&, AccessMode) runs open().
ConstructFromFile(f, m) ==
    /\ phase = "unborn"
    /\ phase' = "alive"
    /\ OpenFile(f, m)

Read(t) ==
    /\ Idle
    /\ ReadText(t)
    /\ UNCHANGED phase

\* Statistics::reset(): deletes the group and clears everything.
Reset ==
    /\ Idle
    /\ valid' = FALSE
    /\ mode' = "kReadOnly"
    /\ path' = NoPath
    /\ value' = Undef
    /\ UNCHANGED <<phase, disk, writing, durable>>

\* addGroup, merge and update work on m_Value itself, not through
\* m_pGroup, so they run on an invalid object too: on an object m_Value
\* (what json::Value::insert/write do to an undefined or non-object value
\* is not known, and is left out).  addGroup then returns group(pName),
\* which dereferences m_pGroup: it needs a valid object.  addGroup
\* inserts an empty group, merge a copy of a group: both keep an
\* existing entry.  update writes the copy over it.
AddGroup(g) ==
    /\ Idle /\ valid
    /\ value' = IF value[g] = Absent THEN [value EXCEPT ![g] = EmptyGroup] ELSE value
    /\ UNCHANGED <<phase, valid, mode, path, disk, writing, durable>>

Merge(g, v) ==
    /\ Idle /\ value \in Obj
    /\ value' = IF value[g] = Absent THEN [value EXCEPT ![g] = v] ELSE value
    /\ UNCHANGED <<phase, valid, mode, path, disk, writing, durable>>

Update(g, v) ==
    /\ Idle /\ value \in Obj
    /\ value' = [value EXCEPT ![g] = v]
    /\ UNCHANGED <<phase, valid, mode, path, disk, writing, durable>>

\* StatisticsGroup::deleteGroup through m_pGroup.
DeleteGroup(g) ==
    /\ Idle /\ valid
    /\ value' = [value EXCEPT ![g] = Absent]
    /\ UNCHANGED <<phase, valid, mode, path, disk, writing, durable>>

\* sync() writes when the object is read-write and its path is a regular
\* file.  std::ofstream truncates the file when it opens it; print then
\* writes m_Value.  When the ofstream fails to open, sync() returns false.
SyncTarget == mode = "kReadWrite" /\ path # NoPath /\ disk[path] # Missing

Truncated == [disk EXCEPT ![path] = Undef]

\* The rest of ~Statistics(): delete m_pGroup.  The program may then
\* construct the next Statistics object over the same files.
Destroyed ==
    /\ phase' = "unborn"
    /\ valid' = FALSE
    /\ mode' = "kReadOnly"
    /\ path' = NoPath
    /\ value' = Undef

\* Statistics::sync() called by a client.  Off a read-write regular file
\* it writes nothing and returns true.  Otherwise the ofstream truncates
\* the file and print is still to come (SyncWrite returns true), or the
\* ofstream fails and sync() returns false with nothing changed.
Sync ==
    /\ Idle
    /\ IF SyncTarget
       THEN \/ disk' = Truncated /\ writing' = "sync" /\ syncResult' = "none"
            \/ UNCHANGED <<disk, writing>> /\ syncResult' = "false"
       ELSE UNCHANGED <<disk, writing>> /\ syncResult' = "true"
    /\ UNCHANGED <<phase, valid, mode, path, value, durable>>

\* Statistics::~Statistics(): sync(), whose result it drops, then delete.
Destroy ==
    /\ Idle
    /\ IF SyncTarget
       THEN \/ /\ disk' = Truncated
               /\ writing' = "dtor"
               /\ UNCHANGED <<phase, valid, mode, path, value>>
            \/ Destroyed /\ UNCHANGED <<disk, writing>>
       ELSE Destroyed /\ UNCHANGED <<disk, writing>>
    /\ UNCHANGED durable

\* m_Value.print(ios) into the truncated file ends the sync; in the
\* destructor, delete m_pGroup follows.  When the stream fails during
\* print the file is left empty or holds a cut-off text, and the write is
\* not a complete one.  sync() returns true either way: it never looks at
\* the stream after print.
SyncWrite ==
    /\ writing # "none"
    /\ \/ /\ disk' = [disk EXCEPT ![path] = value]
          /\ durable' = [durable EXCEPT ![path] = value]
       \/ /\ PrintMayFail
          /\ \E bad \in {Undef, Illegal} : disk' = [disk EXCEPT ![path] = bad]
          /\ UNCHANGED durable
    /\ writing' = "none"
    /\ syncResult' = IF writing = "sync" THEN "true" ELSE "none"
    /\ IF writing = "dtor" THEN Destroyed
                            ELSE UNCHANGED <<phase, valid, mode, path, value>>

\* The process dies at any point: killed from outside, in the middle of a
\* sync included, or, between two calls, by a NULL m_pGroup dereference.
\* The files keep what they hold, and the restarted program constructs a
\* new object.
Crash ==
    /\ Alive
    /\ Destroyed
    /\ writing' = "none"
    /\ UNCHANGED <<disk, durable>>

Modes == {"kReadOnly", "kReadWrite"}

\* The calls other than sync() return no sync result.
OtherStep ==
    \/ ConstructEmpty
    \/ \E t \in Texts : ConstructFromText(t)
    \/ \E f \in Files, m \in Modes : ConstructFromFile(f, m) \/ Open(f, m)
    \/ \E t \in Texts : Read(t)
    \/ Reset
    \/ \E g \in Groups : AddGroup(g) \/ DeleteGroup(g)
    \/ \E g \in Groups, v \in GroupVals : Merge(g, v) \/ Update(g, v)
    \/ Destroy
    \/ Crash

Next ==
    \/ OtherStep /\ syncResult' = "none"
    \/ Sync
    \/ SyncWrite

Spec == Init /\ [][Next]_statVars

-----------------------------------------------------------------------------
\* m_pGroup always points into the object m_Value holds: whatever open,
\* read, reset and the group operations are called in, a valid object
\* never has an undefined or non-object m_Value under its group.
GroupPointsIntoValue == valid => value \in Obj

\* A file is rewritten only by an object that loaded it: the object whose
\* sync() changes a file is valid (open() reported no error on it).
NoRewriteUnlessLoaded ==
    [][\A f \in Files : disk'[f] # disk[f] => valid]_statVars

\* A file whose last complete write left statistics in it (a JSON
\* object) gives them back: a successful open() of it loads that object.
\* sync() rewrites the file in place, so a crash of the program between
\* the ofstream's truncation and print must not make a later open()
\* accept a file that lost its statistics.
OpenLoadsLastCompleteWrite ==
    [][~valid /\ valid' /\ path' # NoPath /\ durable[path'] \in Obj
         => value' = durable[path']]_statVars

\* sync() tells its caller the truth: when an explicit sync() of a valid
\* read-write object returns true, the file at m_FilePath holds m_Value;
\* a sync that could not write it must return false.
SyncReturnsTruthfully ==
    [][syncResult' = "true" /\ valid' /\ mode' = "kReadWrite"
         => disk'[path'] = value']_statVars
=============================================================================
