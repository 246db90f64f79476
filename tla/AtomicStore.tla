------------------------------ MODULE AtomicStore ------------------------------
(***************************************************************************)
(* A data store as a workflow may think of it, and as the in-memory backend *)
(* of run-scoped stores is (runScope, executor/datastore.go: one mutex):    *)
(* every operation takes effect in one instant, or not at all.              *)
(*                                                                         *)
(* The content is the sequence of the operations it is made of: what was    *)
(* added to a counter or a text since it was last set, or the records of a  *)
(* collection in the order they were appended.  A value that is absent, or  *)
(* that json.Unmarshal cannot read, counts as nothing.                      *)
(***************************************************************************)
EXTENDS Integers, Sequences

CONSTANT DataOps  \* operations on one store

VARIABLES content,  \* what the store holds
          status,   \* operation -> "pending", "done" or "failed"
          note,     \* operation -> the content it knows of, once done
          shown     \* what an open canvas shows of the store

vars == <<content, status, note, shown>>

Init == /\ content = <<>> /\ shown = <<>>
        /\ status = [o \in DataOps |-> "pending"]
        /\ note = [o \in DataOps |-> <<>>]

\* The operation leaves this content, and answers with it or with something else.
Apply(o, new) == /\ status[o] = "pending"
                 /\ content' = new
                 /\ status' = [status EXCEPT ![o] = "done"]
                 /\ note' \in {note, [note EXCEPT ![o] = new]}
                 /\ UNCHANGED shown

Without(s, i) == SubSeq(s, 1, i - 1) \o SubSeq(s, i + 1, Len(s))

\* KVIncrement and TextAppend, and RecordAppend of a collection.
Add(o) == Apply(o, Append(content, o))
\* KVSet and TextSet, with something to add to, or with nothing such.
Set(o) == Apply(o, <<o>>) \/ Apply(o, <<>>)
\* KVDelete and RecordClear.
Empty(o) == Apply(o, <<>>)
RecordUpdate(o) == Apply(o, content)
RecordDelete(o) == \E i \in DOMAIN content : Apply(o, Without(content, i))

\* An operation that is refused or lost has no effect.
Refuse(o) == /\ status[o] = "pending"
             /\ status' = [status EXCEPT ![o] = "failed"]
             /\ UNCHANGED <<content, note, shown>>

RecordCount(o) == /\ status[o] = "done"
                  /\ note' = [note EXCEPT ![o] = content]
                  /\ UNCHANGED <<content, status, shown>>

\* A canvas is only told what an operation found once it had taken effect.
Show(o) == /\ status[o] = "done"
           /\ shown' = note[o]
           /\ UNCHANGED <<content, status, note>>

\* The store is deleted.
Wipe == content' = <<>> /\ UNCHANGED <<status, note, shown>>

Next == Wipe \/ \E o \in DataOps : \/ Add(o) \/ Set(o) \/ Empty(o) \/ RecordUpdate(o)
                                   \/ RecordDelete(o) \/ Refuse(o) \/ RecordCount(o) \/ Show(o)

Spec == Init /\ [][Next]_vars
=============================================================================
