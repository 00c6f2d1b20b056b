------------------------------- MODULE Store -------------------------------
(***************************************************************************)
(* One node's store (repository/rocksdb_repository.cpp): the records of    *)
(* one table in one partition, and the newest term the store remembers for *)
(* the partition.                                                          *)
(*                                                                         *)
(* Request threads write records; the reconciling thread takes in files    *)
(* other nodes exported (import_records) and drops what it gave up         *)
(* (clear_records).  All of them hold handle_mutex shared, so none keeps   *)
(* another out: a write holds the lock of its key's stripe and, where it   *)
(* raises the term, term_mutex; an import holds term_mutex while it raises *)
(* the terms; reads of the database, writes to it and the locks are a step *)
(* each.  Keys of one stripe are one key here.                             *)
(*                                                                         *)
(* A record is its version, which names the write that stamped it.  What   *)
(* is written to RocksDB survives the process; the locks, the calls under  *)
(* way and the terms in memory do not.                                     *)
(*                                                                         *)
(* The database may refuse any read.  Only write_record looks at why: its  *)
(* refused read throws, where a start takes the term for none written and  *)
(* an import or a clear takes the key for one the store does not hold.     *)
(***************************************************************************)
EXTENDS Naturals

CONSTANTS
    Thread,
    NoThread,   \* what a free lock is held by
    Key,        \* keys of the partition, in the order a file lists them
    Version,    \* the versions writes are stamped with
    File,       \* the files handed in: for each key a version, or NoRecord
    Ops         \* the operations called, a subset of OpKinds

OpKinds == {"write", "import", "clear"}

\* Nothing under a key.  Counts start at one (next_count), so that anything
\* stamped is newer.
NoRecord == [term |-> 0, count |-> 0]
Stored == Version \cup {NoRecord}

ASSUME StoreAssumption ==
    /\ NoThread \notin Thread
    /\ Key \subseteq Nat /\ Key # {}
    /\ Version # {} /\ Version \subseteq [term : Nat, count : Nat \ {0}]
    /\ File \subseteq [Key -> Stored]
    /\ Ops \subseteq OpKinds

VARIABLES
    \* on disk
    records,    \* what each key holds
    remembered, \* the term written under TERM
    \* in memory
    terms,      \* the term as the process knows it
    stripe,     \* the thread holding each key's stripe of write_locks
    raising,    \* the thread holding term_mutex
    at,         \* where each thread is
    work,       \* what its call was handed and what it has found so far
    \* history
    lost        \* the newest term a start could not read, and took for none

disk == <<records, remembered>>
vars == <<records, remembered, terms, stripe, raising, at, work, lost>>

At == {"idle", "put", "raise", "batch", "raised",
       "walk", "terms", "termsWritten", "sift", "ingest", "clear"}

Work == [key : Key, stamp : Version,    \* a write's record
         file : [Key -> Stored],        \* an import's or a clear's file
         todo : SUBSET Key,             \* what its iterator has yet to reach
         term : Nat,                    \* the newest term it carries so far
         held : SUBSET Key,             \* what the store holds of it so far
         batch : SUBSET Key]            \* what is to be taken in or deleted

TypeOK ==
    /\ records \in [Key -> Stored]
    /\ remembered \in Nat
    /\ terms \in Nat
    /\ stripe \in [Key -> Thread \cup {NoThread}]
    /\ raising \in Thread \cup {NoThread}
    /\ at \in [Thread -> At]
    /\ work \in [Thread -> Work]
    /\ lost \in Nat

NoWork == [key |-> CHOOSE k \in Key : TRUE, stamp |-> CHOOSE v \in Version : TRUE,
           file |-> [k \in Key |-> NoRecord], todo |-> {}, term |-> 0,
           held |-> {}, batch |-> {}]

Init ==
    /\ records = [k \in Key |-> NoRecord]
    /\ remembered = 0
    /\ terms = 0
    /\ stripe = [k \in Key |-> NoThread]
    /\ raising = NoThread
    /\ at = [t \in Thread |-> "idle"]
    /\ work = [t \in Thread |-> NoWork]
    /\ lost = 0

\* is_newer: the versions compared as their bytes sort, term first.
IsNewer(v, than) ==
    \/ v.term > than.term
    \/ v.term = than.term /\ v.count > than.count

\* The keys a file carries, and the one its iterator is at.
KeysOf(file) == {k \in Key : file[k] # NoRecord}
Reached(todo, k) == k \in todo /\ \A j \in todo : k <= j

\* What an import or a clear may find under a key: a read that is refused is a
\* key the store does not hold.
Found(k) == {records[k], NoRecord}

\* The call returns, or throws: its locks are let go as they were taken.
Return(t) ==
    /\ at' = [at EXCEPT ![t] = "idle"]
    /\ work' = [work EXCEPT ![t] = NoWork]
    /\ stripe' = [k \in Key |-> IF stripe[k] = t THEN NoThread ELSE stripe[k]]
    /\ raising' = IF raising = t THEN NoThread ELSE raising

Go(t, place) == at' = [at EXCEPT ![t] = place]
-----------------------------------------------------------------------------
(* write_record *)

\* The stripe is locked and the key read; a record held at a later version
\* stands and the call is over, which changes nothing.  The term in memory says
\* whether it has to be raised with the record.
WriteBegin(t, k, v) ==
    /\ "write" \in Ops
    /\ at[t] = "idle"
    /\ stripe[k] = NoThread
    /\ ~IsNewer(records[k], v)
    /\ stripe' = [stripe EXCEPT ![k] = t]
    /\ work' = [work EXCEPT ![t] = [NoWork EXCEPT !.key = k, !.stamp = v]]
    /\ Go(t, IF v.term <= terms THEN "put" ELSE "raise")
    /\ UNCHANGED <<disk, terms, raising>>

\* The term is one the store remembers.
WritePut(t) ==
    /\ at[t] = "put"
    /\ records' = [records EXCEPT ![work[t].key] = work[t].stamp]
    /\ Return(t)
    /\ UNCHANGED <<remembered, terms>>

\* term_mutex is locked.  The term is compared again under it, and it keeps
\* the one in memory as it is until the call lets it go.
WriteRaise(t) ==
    /\ at[t] = "raise"
    /\ raising = NoThread
    /\ raising' = t
    /\ Go(t, "batch")
    /\ UNCHANGED <<disk, terms, stripe, work>>

\* Mutant of WriteBatch: the term is left out of the batch.
WriteRecordAlone(t) ==
    /\ at[t] = "batch"
    /\ records' = [records EXCEPT ![work[t].key] = work[t].stamp]
    /\ Go(t, "raised")
    /\ UNCHANGED <<remembered, terms, stripe, raising, work>>

\* The record, and a term that is higher with it, in one batch.
WriteBatch(t) ==
    /\ at[t] = "batch"
    /\ records' = [records EXCEPT ![work[t].key] = work[t].stamp]
    /\ remembered' = IF work[t].stamp.term > terms
                     THEN work[t].stamp.term ELSE remembered
    /\ Go(t, "raised")
    /\ UNCHANGED <<terms, stripe, raising, work>>

WriteRaised(t) ==
    /\ at[t] = "raised"
    /\ terms' = IF work[t].stamp.term > terms THEN work[t].stamp.term ELSE terms
    /\ Return(t)
    /\ UNCHANGED disk
-----------------------------------------------------------------------------
(* import_records *)

ImportBegin(t, file) ==
    /\ "import" \in Ops
    /\ at[t] = "idle"
    /\ KeysOf(file) # {}
    /\ work' = [work EXCEPT ![t] = [NoWork EXCEPT !.file = file,
                                                  !.todo = KeysOf(file)]]
    /\ Go(t, "walk")
    /\ UNCHANGED <<disk, terms, stripe, raising>>

\* The first walk: the newest term carried, which of the keys the store holds,
\* and which the file has later.
ImportWalk(t, k) ==
    /\ at[t] = "walk"
    /\ Reached(work[t].todo, k)
    /\ \E found \in Found(k) :
         LET v == work[t].file[k]
         IN  work' = [work EXCEPT
                        ![t].todo = @ \ {k},
                        ![t].term = IF v.term > @ THEN v.term ELSE @,
                        ![t].held = IF found # NoRecord
                                    THEN @ \cup {k} ELSE @,
                        ![t].batch = IF IsNewer(v, found)
                                     THEN @ \cup {k} ELSE @]
    /\ UNCHANGED <<disk, terms, stripe, raising, at>>

\* raise_terms, under term_mutex: written first, and known after.
ImportTerms(t) ==
    /\ at[t] = "walk"
    /\ work[t].todo = {}
    /\ raising = NoThread
    /\ raising' = t
    /\ Go(t, "terms")
    /\ UNCHANGED <<disk, terms, stripe, work>>

\* Mutant of ImportTermsWrite: the term is left to the memory.
ImportTermsUnwritten(t) ==
    /\ at[t] = "terms"
    /\ Go(t, "termsWritten")
    /\ UNCHANGED <<disk, terms, stripe, raising, work>>

ImportTermsWrite(t) ==
    /\ at[t] = "terms"
    /\ remembered' = IF work[t].term > terms THEN work[t].term ELSE remembered
    /\ Go(t, "termsWritten")
    /\ UNCHANGED <<records, terms, stripe, raising, work>>

\* Nothing to take: the call is over.  Nothing held: the file goes in as it is.
\* Otherwise it is walked again.
ImportTermsRaised(t) ==
    /\ at[t] = "termsWritten"
    /\ terms' = IF work[t].term > terms THEN work[t].term ELSE terms
    /\ \/ /\ work[t].batch = {}
          /\ Return(t)
       \/ /\ work[t].batch # {} /\ work[t].held = {}
          /\ raising' = NoThread
          /\ Go(t, "ingest")
          /\ UNCHANGED <<stripe, work>>
       \/ /\ work[t].batch # {} /\ work[t].held # {}
          /\ raising' = NoThread
          /\ work' = [work EXCEPT ![t].todo = KeysOf(work[t].file),
                                  ![t].batch = {}]
          /\ Go(t, "sift")
          /\ UNCHANGED stripe
    /\ UNCHANGED disk

\* The second walk keeps what is later than the store's.
ImportSift(t, k) ==
    /\ at[t] = "sift"
    /\ Reached(work[t].todo, k)
    /\ \E found \in Found(k) :
         work' = [work EXCEPT
                    ![t].todo = @ \ {k},
                    ![t].batch = IF IsNewer(work[t].file[k], found)
                                 THEN @ \cup {k} ELSE @]
    /\ Go(t, IF work[t].todo = {k} THEN "ingest" ELSE "sift")
    /\ UNCHANGED <<disk, terms, stripe, raising>>

\* The file goes in above whatever the store holds by now.
ImportIngest(t) ==
    /\ at[t] = "ingest"
    /\ records' = [k \in Key |-> IF k \in work[t].batch
                                 THEN work[t].file[k] ELSE records[k]]
    /\ Return(t)
    /\ UNCHANGED <<remembered, terms>>
-----------------------------------------------------------------------------
(* clear_records *)

ClearBegin(t, file) ==
    /\ "clear" \in Ops
    /\ at[t] = "idle"
    /\ KeysOf(file) # {}
    /\ work' = [work EXCEPT ![t] = [NoWork EXCEPT !.file = file,
                                                  !.todo = KeysOf(file)]]
    /\ Go(t, "clear")
    /\ UNCHANGED <<disk, terms, stripe, raising>>

\* A key goes unless the store holds nothing for it or something later.
ClearWalk(t, k) ==
    /\ at[t] = "clear"
    /\ Reached(work[t].todo, k)
    /\ \E found \in Found(k) :
         work' = [work EXCEPT
                    ![t].todo = @ \ {k},
                    ![t].batch = IF found # NoRecord
                                    /\ ~IsNewer(found, work[t].file[k])
                                 THEN @ \cup {k} ELSE @]
    /\ UNCHANGED <<disk, terms, stripe, raising, at>>

ClearDelete(t) ==
    /\ at[t] = "clear"
    /\ work[t].todo = {}
    /\ records' = [k \in Key |-> IF k \in work[t].batch
                                 THEN NoRecord ELSE records[k]]
    /\ Return(t)
    /\ UNCHANGED <<remembered, terms>>
-----------------------------------------------------------------------------
\* The database refuses a write, or the read of a write or of a file (written,
\* check): the call throws where it is, with nothing of that write done.
Fail(t) ==
    /\ at[t] \in At \ {"idle", "raised", "termsWritten"}
    /\ Return(t)
    /\ UNCHANGED <<disk, terms>>

\* Mutant of LoadedTerm: the term before.
LoadedBefore == remembered - 1

\* load_terms, where the read is answered.
LoadedTerm == remembered

\* The process ends at any point and another opens the store, which comes by a
\* term.
Reopen(term) ==
    /\ terms' = term
    /\ stripe' = [k \in Key |-> NoThread]
    /\ raising' = NoThread
    /\ at' = [t \in Thread |-> "idle"]
    /\ work' = [t \in Thread |-> NoWork]
    /\ UNCHANGED disk

Crash == Reopen(LoadedTerm) /\ UNCHANGED lost

\* load_terms, where the read is refused: no term, like one never written.
CrashUnread ==
    /\ Reopen(0)
    /\ lost' = IF remembered > lost THEN remembered ELSE lost

Write(t) ==
    \/ \E k \in Key, v \in Version : WriteBegin(t, k, v)
    \/ WritePut(t) \/ WriteRaise(t) \/ WriteBatch(t) \/ WriteRaised(t)

Import(t) ==
    \/ \E file \in File : ImportBegin(t, file)
    \/ \E k \in Key : ImportWalk(t, k) \/ ImportSift(t, k)
    \/ ImportTerms(t) \/ ImportTermsWrite(t) \/ ImportTermsRaised(t)
    \/ ImportIngest(t)

Clear(t) ==
    \/ \E file \in File : ClearBegin(t, file)
    \/ \E k \in Key : ClearWalk(t, k)
    \/ ClearDelete(t)

Call(t) == (Write(t) \/ Import(t) \/ Clear(t) \/ Fail(t)) /\ UNCHANGED lost

Next == Crash \/ CrashUnread \/ \E t \in Thread : Call(t)

Spec == Init /\ [][Next]_vars
-----------------------------------------------------------------------------
\* "A record is never on disk in a term the store does not remember"
\* (write_record): so a process that starts on this store has a fence over
\* every record in it, whichever thread wrote it and wherever the last process
\* ended.  The comment does not say what it takes: that no start ever failed to
\* read the term.  One that did raises it anew from nothing, and writes what it
\* raises it to over what it could not read, so that a record may be left above
\* it; never one above the terms such starts lost.
TermRemembered ==
    \A k \in Key : records[k].term <= remembered \/ records[k].term <= lost

\* What read_terms answers never falls, through crashes too, but in a start
\* that cannot read it: a term is known in memory only once it is on disk.
TermNeverFalls == [][CrashUnread \/ terms' >= terms]_vars

\* What a key holds is never replaced by an older write: "leaves a record the
\* store holds at a later version where it is" (repository.h, write_record),
\* "a key this store holds at a later version is kept" (import_records).
KeepsLater == [][\A k \in Key : ~IsNewer(records[k], records'[k])]_vars
=============================================================================
