---------------------------- MODULE StoreProofs ----------------------------
(***************************************************************************)
(* What a store keeps, for any number of threads, keys, versions and       *)
(* files.                                                                  *)
(*                                                                         *)
(* That every record's term is remembered is not inductive by itself: a    *)
(* thread about to write relies on what it found out earlier.  LockInv     *)
(* says who holds the locks; TermInv says that the term in memory trails   *)
(* the one on disk only while the holder of term_mutex is between the two, *)
(* or where a start could not read the one on disk, which `lost' is then   *)
(* no lower than; and that whatever a thread is about to write is covered  *)
(* by one of them;                                                         *)
(* WriteInv, for writes alone, that what a thread found under its key      *)
(* still stands when it writes.                                            *)
(*                                                                         *)
(* The counts of the same store and its schema, which share nothing with   *)
(* its records, are at the end.                                            *)
(***************************************************************************)
EXTENDS Store, Schema, Counts, TLAPS

\* The locks a thread holds, by where it is.
LockInv ==
    \A t \in Thread :
        /\ at[t] \in {"put", "raise", "batch", "raised"} =>
             stripe[work[t].key] = t
        /\ at[t] \in {"batch", "raised", "terms", "termsWritten"} => raising = t

\* What is on disk is one of these terms, or one that a start has lost.
OnDisk(held) == remembered \in held \/ remembered <= lost

\* The terms in memory, on disk and in the hands of each thread.
TermInv ==
    /\ terms <= remembered
    /\ (\A t \in Thread : at[t] \notin {"raised", "termsWritten"}) =>
         OnDisk({terms})
    /\ \A t \in Thread :
         /\ at[t] = "put" => work[t].stamp.term <= terms
         /\ at[t] = "raised" =>
              /\ work[t].stamp.term <= remembered
              /\ OnDisk({terms, work[t].stamp.term})
         /\ at[t] = "termsWritten" =>
              /\ work[t].term <= remembered
              /\ OnDisk({terms, work[t].term})
         /\ at[t] \in {"terms", "termsWritten"} => work[t].todo = {}
         /\ at[t] \in {"walk", "terms", "termsWritten"} =>
              \A k \in Key \ work[t].todo : work[t].file[k].term <= work[t].term
         /\ at[t] \in {"sift", "ingest"} =>
              \A k \in Key : work[t].file[k].term <= terms

IInv == TypeOK /\ LockInv /\ TermInv /\ TermRemembered

\* With writes alone: what a thread is to write is no older than what is there.
WriteInv ==
    \A t \in Thread :
        /\ at[t] \in {"idle", "put", "raise", "batch", "raised"}
        /\ at[t] \in {"put", "raise", "batch"} =>
             ~IsNewer(records[work[t].key], work[t].stamp)
-----------------------------------------------------------------------------
(* Types. *)

\* Versions on disk are pairs of naturals, and no record is one of the values stored.
LEMMA StoredType ==
    /\ Stored \subseteq [term : Nat, count : Nat]
    /\ NoRecord \in Stored
BY StoreAssumption DEF Stored, NoRecord

\* A thread without work has the type of one.
LEMMA NoWorkType == NoWork \in Work
<1>1. (CHOOSE k \in Key : TRUE) \in Key
  BY StoreAssumption
<1>2. (CHOOSE v \in Version : TRUE) \in Version
  BY StoreAssumption
<1> QED
  BY <1>1, <1>2, StoredType DEF NoWork, Work

\* A call that returns leaves the locks and its place well typed.
LEMMA ReturnType ==
    ASSUME TypeOK, NEW t \in Thread, Return(t)
    PROVE  /\ stripe' \in [Key -> Thread \cup {NoThread}]
           /\ raising' \in Thread \cup {NoThread}
           /\ at' \in [Thread -> At]
           /\ work' \in [Thread -> Work]
BY NoWorkType DEF TypeOK, Return, At

\* The store begins with the right types.
LEMMA InitType == Init => TypeOK
BY NoWorkType, StoredType DEF Init, TypeOK, At

\* The steps of write_record keep the types.
LEMMA WriteType ==
    ASSUME TypeOK, NEW t \in Thread, Write(t), UNCHANGED lost
    PROVE  TypeOK'
<1>1. ASSUME NEW k \in Key, NEW v \in Version, WriteBegin(t, k, v)
      PROVE  TypeOK'
  <2>1. [NoWork EXCEPT !.key = k, !.stamp = v] \in Work
    BY NoWorkType DEF Work
  <2> QED
    BY <1>1, <2>1 DEF WriteBegin, TypeOK, Go, At, disk
<1>2. CASE WritePut(t)
  BY <1>2, ReturnType DEF WritePut, TypeOK, Work, Stored
<1>3. CASE WriteRaise(t)
  BY <1>3 DEF WriteRaise, TypeOK, Go, At, disk
<1>4. CASE WriteBatch(t)
  BY <1>4, StoreAssumption DEF WriteBatch, TypeOK, Go, At, Work, Stored
<1>5. CASE WriteRaised(t)
  BY <1>5, ReturnType, StoreAssumption DEF WriteRaised, TypeOK, Work, disk
<1> QED
  BY <1>1, <1>2, <1>3, <1>4, <1>5 DEF Write

\* The steps of import_records keep the types.
LEMMA ImportType ==
    ASSUME TypeOK, NEW t \in Thread, Import(t), UNCHANGED lost
    PROVE  TypeOK'
<1>1. ASSUME NEW file \in File, ImportBegin(t, file)
      PROVE  TypeOK'
  <2>1. [NoWork EXCEPT !.file = file, !.todo = KeysOf(file)] \in Work
    BY NoWorkType, StoreAssumption DEF Work, KeysOf
  <2> QED
    BY <1>1, <2>1 DEF ImportBegin, TypeOK, Go, At, disk
<1>2. ASSUME NEW k \in Key, ImportWalk(t, k)
      PROVE  TypeOK'
  <2>1. work[t] \in Work /\ work[t].file[k].term \in Nat
    BY StoredType DEF TypeOK, Work
  <2>2. PICK found \in Found(k) :
          work' = [work EXCEPT
                     ![t].todo = @ \ {k},
                     ![t].term = IF work[t].file[k].term > @
                                 THEN work[t].file[k].term ELSE @,
                     ![t].held = IF found # NoRecord THEN @ \cup {k} ELSE @,
                     ![t].batch = IF IsNewer(work[t].file[k], found)
                                  THEN @ \cup {k} ELSE @]
    BY <1>2 DEF ImportWalk
  <2>3. work'[t] \in Work
    BY ZenonT(60), <2>1, <2>2 DEF TypeOK, Work
  <2> QED
    BY <1>2, <2>2, <2>3 DEF ImportWalk, TypeOK, disk
<1>3. ASSUME NEW k \in Key, ImportSift(t, k)
      PROVE  TypeOK'
  <2>1. PICK found \in Found(k) :
          work' = [work EXCEPT
                     ![t].todo = @ \ {k},
                     ![t].batch = IF IsNewer(work[t].file[k], found)
                                  THEN @ \cup {k} ELSE @]
    BY <1>3 DEF ImportSift
  <2>2. work'[t] \in Work
    BY ZenonT(60), <2>1 DEF TypeOK, Work
  <2> QED
    BY <1>3, <2>1, <2>2 DEF ImportSift, TypeOK, Go, At, disk
<1>4. CASE ImportTerms(t)
  BY <1>4 DEF ImportTerms, TypeOK, Go, At, disk
<1>5. CASE ImportTermsWrite(t)
  BY <1>5 DEF ImportTermsWrite, TypeOK, Go, At, Work
<1>6. CASE ImportTermsRaised(t)
  <2>1. terms' \in Nat
    BY <1>6 DEF ImportTermsRaised, TypeOK, Work
  <2>2. CASE Return(t)
    BY <1>6, <2>1, <2>2, ReturnType DEF ImportTermsRaised, TypeOK, disk
  <2>3. CASE UNCHANGED work /\ UNCHANGED stripe /\ Go(t, "ingest") /\ raising' = NoThread
    BY <1>6, <2>1, <2>3 DEF ImportTermsRaised, TypeOK, disk, Go, At
  <2>4. CASE /\ work' = [work EXCEPT ![t].todo = KeysOf(work[t].file),
                                     ![t].batch = {}]
             /\ UNCHANGED stripe /\ Go(t, "sift") /\ raising' = NoThread
    <3>1. KeysOf(work[t].file) \in SUBSET Key
      BY DEF KeysOf
    <3>2. work'[t] \in Work
      BY ZenonT(60), <2>4, <3>1 DEF TypeOK, Work
    <3> QED
      BY <1>6, <2>1, <2>4, <3>2 DEF ImportTermsRaised, TypeOK, disk, Go, At
  <2> QED
    BY <1>6, <2>2, <2>3, <2>4 DEF ImportTermsRaised
<1>7. CASE ImportIngest(t)
  BY <1>7, ReturnType DEF ImportIngest, TypeOK, Work
<1> QED
  BY <1>1, <1>2, <1>3, <1>4, <1>5, <1>6, <1>7 DEF Import

\* The steps of clear_records keep the types.
LEMMA ClearType ==
    ASSUME TypeOK, NEW t \in Thread, Clear(t), UNCHANGED lost
    PROVE  TypeOK'
<1>1. ASSUME NEW file \in File, ClearBegin(t, file)
      PROVE  TypeOK'
  <2>1. [NoWork EXCEPT !.file = file, !.todo = KeysOf(file)] \in Work
    BY NoWorkType, StoreAssumption DEF Work, KeysOf
  <2> QED
    BY <1>1, <2>1 DEF ClearBegin, TypeOK, Go, At, disk
<1>2. ASSUME NEW k \in Key, ClearWalk(t, k)
      PROVE  TypeOK'
  <2>1. PICK found \in Found(k) :
          work' = [work EXCEPT
                     ![t].todo = @ \ {k},
                     ![t].batch = IF /\ found # NoRecord
                                     /\ ~IsNewer(found, work[t].file[k])
                                  THEN @ \cup {k} ELSE @]
    BY <1>2 DEF ClearWalk
  <2>2. work'[t] \in Work
    BY ZenonT(60), <2>1 DEF TypeOK, Work
  <2> QED
    BY <1>2, <2>1, <2>2 DEF ClearWalk, TypeOK, disk
<1>3. CASE ClearDelete(t)
  BY <1>3, ReturnType, StoredType DEF ClearDelete, TypeOK
<1> QED
  BY <1>1, <1>2, <1>3 DEF Clear

\* Every step keeps the types.
LEMMA StepType == TypeOK /\ [Next]_vars => TypeOK'
<1> SUFFICES ASSUME TypeOK, [Next]_vars
             PROVE  TypeOK'
  OBVIOUS
<1>1. CASE Crash \/ CrashUnread
  BY <1>1, NoWorkType DEF Crash, CrashUnread, Reopen, LoadedTerm, TypeOK, At, disk
<1>2. ASSUME NEW t \in Thread, Fail(t), UNCHANGED lost
      PROVE  TypeOK'
  BY <1>2, ReturnType DEF Fail, TypeOK, disk
<1>3. CASE UNCHANGED vars
  BY <1>3 DEF vars, TypeOK
<1> QED
  BY <1>1, <1>2, <1>3, WriteType, ImportType, ClearType DEF Next, Call

\* Types hold in every state the store's calls reach.
THEOREM StoreTypeCorrect == Spec => []TypeOK
BY InitType, StepType, PTL DEF Spec
-----------------------------------------------------------------------------
(* The inductive invariant. *)

\* The inductive invariant holds of an empty store.
LEMMA InitInv == Init => IInv
BY InitType, StoreAssumption
   DEF Init, IInv, LockInv, TermInv, OnDisk, TermRemembered, NoRecord

\* The numbers among it all.
LEMMA TermsAreNaturals ==
    ASSUME TypeOK
    PROVE  /\ remembered \in Nat /\ terms \in Nat /\ lost \in Nat
           /\ \A k \in Key : records[k].term \in Nat
           /\ \A t \in Thread :
                /\ work[t] \in Work
                /\ work[t].stamp.term \in Nat
                /\ work[t].term \in Nat
                /\ \A k \in Key : work[t].file[k].term \in Nat
BY StoreAssumption, StoredType DEF TypeOK, Work

\* The steps of write_record keep the inductive invariant.
LEMMA WriteKeepsInv ==
    ASSUME IInv, NEW t \in Thread, Write(t), UNCHANGED lost
    PROVE  IInv'
<1> USE StoreAssumption DEF IInv, OnDisk
<1>0. TypeOK'
  BY WriteType
<1>w. /\ \A k \in Key : records[k].term \in Nat
      /\ \A u \in Thread :
           /\ work[u] \in Work
           /\ work[u].stamp.term \in Nat
           /\ \A k \in Key : work[u].file[k].term \in Nat
  BY TermsAreNaturals
<1>1. ASSUME NEW k \in Key, NEW v \in Version, WriteBegin(t, k, v)
      PROVE  (LockInv /\ TermInv /\ TermRemembered)'
  <2>1. work'[t].key = k /\ work'[t].stamp = v
    BY <1>1, NoWorkType DEF WriteBegin, TypeOK, Work
  <2>2. /\ \A u \in Thread \ {t} : work'[u] = work[u] /\ at'[u] = at[u]
        /\ (at'[t] = "put" /\ v.term <= terms) \/ at'[t] = "raise"
        /\ at[t] = "idle"
    BY <1>1 DEF WriteBegin, Go, TypeOK
  <2>3. LockInv'
    BY <1>1, <2>1, <2>2 DEF WriteBegin, LockInv, TypeOK
  <2>4. TermInv'
    BY <1>1, <2>1, <2>2 DEF WriteBegin, TermInv, TypeOK, disk
  <2> QED
    BY <1>1, <2>3, <2>4 DEF WriteBegin, TermRemembered, disk
<1>2. CASE WritePut(t)
  <2>1. /\ \A u \in Thread \ {t} : work'[u] = work[u] /\ at'[u] = at[u]
        /\ at'[t] = "idle" /\ at[t] = "put"
    BY <1>2 DEF WritePut, Return, TypeOK
  <2>2. LockInv'
    BY <1>2, <2>1 DEF WritePut, Return, LockInv, TypeOK, Work
  <2>3. TermInv'
    BY <1>2, <2>1 DEF WritePut, TermInv, TypeOK
  <2>4. TermRemembered'
    BY <1>2, <1>w, <2>1, StoredType DEF WritePut, TermInv, TermRemembered, TypeOK
  <2> QED
    BY <1>0, <2>2, <2>3, <2>4
<1>3. CASE WriteRaise(t)
  <2>1. /\ \A u \in Thread \ {t} : at'[u] = at[u]
        /\ at'[t] = "batch" /\ at[t] = "raise"
        /\ UNCHANGED <<work, stripe, terms, records, remembered>>
    BY <1>3 DEF WriteRaise, Go, TypeOK, disk
  <2>2. raising = NoThread /\ raising' = t
    BY <1>3 DEF WriteRaise
  <2>3. LockInv'
    BY <2>1, <2>2 DEF LockInv
  <2>4. TermInv'
    BY <2>1 DEF TermInv
  <2> QED
    BY <1>0, <2>1, <2>3, <2>4 DEF TermRemembered
<1>4. CASE WriteBatch(t)
  <2>1. /\ \A u \in Thread \ {t} : at'[u] = at[u]
        /\ at'[t] = "raised" /\ at[t] = "batch"
        /\ UNCHANGED <<work, stripe, terms, raising>>
    BY <1>4 DEF WriteBatch, Go, TypeOK
  <2>2. \A u \in Thread \ {t} : at[u] \notin {"raised", "termsWritten"}
    BY <2>1 DEF LockInv
  <2>3. OnDisk({terms}) /\ terms <= remembered
    BY <2>1, <2>2 DEF TermInv
  <2>4. /\ work[t].stamp.term <= remembered' /\ terms <= remembered'
        /\ remembered <= remembered' \/ remembered <= lost
        /\ OnDisk({terms, work[t].stamp.term})'
    BY <1>4, <1>w, <2>1, <2>3, TermsAreNaturals DEF WriteBatch, OnDisk
  <2>5. LockInv'
    BY <2>1 DEF LockInv
  <2>6. TermInv'
    BY <2>1, <2>2, <2>3, <2>4 DEF TermInv, TypeOK
  <2>7. TermRemembered'
    <3>1. \A k \in Key : records'[k] = IF k = work[t].key THEN work[t].stamp
                                      ELSE records[k]
      BY <1>4 DEF WriteBatch, TypeOK
    <3> QED
      BY <1>w, <2>4, <3>1, TermsAreNaturals, <1>0 DEF TermRemembered, TypeOK
  <2> QED
    BY <1>0, <2>5, <2>6, <2>7
<1>5. CASE WriteRaised(t)
  <2>1. /\ \A u \in Thread \ {t} : work'[u] = work[u] /\ at'[u] = at[u]
        /\ at'[t] = "idle" /\ at[t] = "raised"
    BY <1>5 DEF WriteRaised, Return, TypeOK
  <2>2. \A u \in Thread \ {t} : at[u] \notin {"raised", "termsWritten"}
    BY <2>1 DEF LockInv
  <2>3. LockInv'
    BY <1>5, <2>1 DEF WriteRaised, Return, LockInv, TypeOK, Work
  <2>4. terms <= terms' /\ terms' <= remembered /\ OnDisk({terms'})
    \* The term in memory catches up: the disk is at this write's term, or at
    \* the term in memory.
    <3>1. work[t].stamp.term \in Nat /\ terms \in Nat /\ remembered \in Nat
      BY <1>w DEF TypeOK
    <3>2. /\ work[t].stamp.term <= remembered
          /\ OnDisk({terms, work[t].stamp.term})
          /\ terms <= remembered
      BY <2>1 DEF TermInv
    <3>3. terms' = IF work[t].stamp.term > terms THEN work[t].stamp.term ELSE terms
      BY <1>5 DEF WriteRaised
    <3> QED
      BY <3>1, <3>2, <3>3 DEF OnDisk
  <2>5. TermInv'
    BY <1>5, <1>w, <2>1, <2>2, <2>4 DEF WriteRaised, TermInv, OnDisk, TypeOK, disk
  <2> QED
    BY <1>0, <1>5, <2>3, <2>5 DEF WriteRaised, TermRemembered, disk
<1> QED
  BY <1>0, <1>1, <1>2, <1>3, <1>4, <1>5 DEF Write

\* The steps of import_records keep the inductive invariant.
LEMMA ImportKeepsInv ==
    ASSUME IInv, NEW t \in Thread, Import(t), UNCHANGED lost
    PROVE  IInv'
<1> USE StoreAssumption DEF IInv, OnDisk
<1>0. TypeOK'
  BY ImportType
<1>w. /\ \A k \in Key : records[k].term \in Nat
      /\ \A u \in Thread :
           /\ work[u] \in Work
           /\ work[u].stamp.term \in Nat
           /\ work[u].term \in Nat
           /\ \A k \in Key : work[u].file[k].term \in Nat
  BY TermsAreNaturals
<1>1. ASSUME NEW file \in File, ImportBegin(t, file)
      PROVE  IInv'
  <2>1. /\ work'[t].file = file /\ work'[t].todo = KeysOf(file)
        /\ work'[t].term = 0
    BY <1>1, NoWorkType DEF ImportBegin, TypeOK, Work, NoWork
  <2>2. /\ \A u \in Thread \ {t} : work'[u] = work[u] /\ at'[u] = at[u]
        /\ at'[t] = "walk" /\ at[t] = "idle"
        /\ UNCHANGED <<records, remembered, terms, stripe, raising>>
    BY <1>1 DEF ImportBegin, Go, TypeOK, disk
  <2>3. \A k \in Key \ work'[t].todo : work'[t].file[k].term <= work'[t].term
    BY <2>1 DEF KeysOf, NoRecord
  <2>4. LockInv'
    BY <2>2 DEF LockInv
  <2>5. TermInv'
    BY <2>2, <2>3 DEF TermInv
  <2> QED
    BY <1>0, <2>2, <2>4, <2>5 DEF TermRemembered
<1>2. ASSUME NEW k \in Key, ImportWalk(t, k)
      PROVE  IInv'
  <2>1. /\ \A u \in Thread \ {t} : work'[u] = work[u]
        /\ at[t] = "walk"
        /\ UNCHANGED <<records, remembered, terms, stripe, raising, at>>
    BY <1>2 DEF ImportWalk, TypeOK, disk
  <2>2. /\ work'[t].file = work[t].file
        /\ work'[t].todo = work[t].todo \ {k}
        /\ work'[t].term = IF work[t].file[k].term > work[t].term
                           THEN work[t].file[k].term ELSE work[t].term
    BY <1>2, <1>w DEF ImportWalk, TypeOK, Work
  <2>3. ASSUME NEW j \in Key \ work'[t].todo
        PROVE  work'[t].file[j].term <= work'[t].term
    <3>1. j # k => work[t].file[j].term <= work[t].term
      BY <2>1, <2>2 DEF TermInv
    <3> QED
      BY <1>w, <2>2, <3>1
  <2>4. LockInv'
    BY <2>1 DEF LockInv
  <2>5. TermInv'
    BY <2>1, <2>3 DEF TermInv
  <2> QED
    BY <1>0, <2>1, <2>4, <2>5 DEF TermRemembered
<1>3. ASSUME NEW k \in Key, ImportSift(t, k)
      PROVE  IInv'
  <2>1. /\ \A u \in Thread \ {t} : work'[u] = work[u] /\ at'[u] = at[u]
        /\ at[t] = "sift" /\ at'[t] \in {"sift", "ingest"}
        /\ UNCHANGED <<records, remembered, terms, stripe, raising>>
    BY <1>3 DEF ImportSift, Go, TypeOK, disk
  <2>2. work'[t].file = work[t].file
    BY <1>3, <1>w DEF ImportSift, TypeOK, Work
  <2>3. LockInv'
    BY <2>1 DEF LockInv
  <2>4. TermInv'
    BY <2>1, <2>2 DEF TermInv
  <2> QED
    BY <1>0, <2>1, <2>3, <2>4 DEF TermRemembered
<1>4. CASE ImportTerms(t)
  <2>1. /\ \A u \in Thread \ {t} : at'[u] = at[u]
        /\ at'[t] = "terms" /\ at[t] = "walk" /\ work[t].todo = {}
        /\ raising = NoThread /\ raising' = t
        /\ UNCHANGED <<work, stripe, terms, records, remembered>>
    BY <1>4 DEF ImportTerms, Go, TypeOK, disk
  <2>2. LockInv'
    BY <2>1 DEF LockInv
  <2>3. TermInv'
    BY <2>1 DEF TermInv
  <2> QED
    BY <1>0, <2>1, <2>2, <2>3 DEF TermRemembered
<1>5. CASE ImportTermsWrite(t)
  <2>1. /\ \A u \in Thread \ {t} : at'[u] = at[u]
        /\ at'[t] = "termsWritten" /\ at[t] = "terms"
        /\ UNCHANGED <<work, stripe, terms, raising, records>>
    BY <1>5 DEF ImportTermsWrite, Go, TypeOK
  <2>2. \A u \in Thread \ {t} : at[u] \notin {"raised", "termsWritten"}
    BY <2>1 DEF LockInv
  <2>3. OnDisk({terms}) /\ terms <= remembered
    BY <2>1, <2>2 DEF TermInv
  <2>4. /\ work[t].term <= remembered' /\ terms <= remembered'
        /\ remembered <= remembered' \/ remembered <= lost
        /\ OnDisk({terms, work[t].term})'
    BY <1>5, <1>w, <2>1, <2>3, TermsAreNaturals DEF ImportTermsWrite, OnDisk
  <2>5. LockInv'
    BY <2>1 DEF LockInv
  <2>6. TermInv'
    BY <2>1, <2>2, <2>3, <2>4 DEF TermInv, TypeOK
  <2>7. TermRemembered'
    BY <1>0, <1>w, <2>1, <2>4, TermsAreNaturals DEF TermRemembered, TypeOK
  <2> QED
    BY <1>0, <2>5, <2>6, <2>7
<1>6. CASE ImportTermsRaised(t)
  <2>1. /\ \A u \in Thread \ {t} : work'[u] = work[u] /\ at'[u] = at[u]
        /\ at[t] = "termsWritten" /\ at'[t] \in {"idle", "ingest", "sift"}
        /\ UNCHANGED <<records, remembered>>
    BY <1>6 DEF ImportTermsRaised, Return, Go, TypeOK, disk
  <2>2. \A u \in Thread \ {t} :
          at[u] \notin {"batch", "raised", "terms", "termsWritten"}
    BY <2>1 DEF LockInv
  <2>3. /\ terms <= terms' /\ terms' <= remembered /\ work[t].term <= terms'
        /\ OnDisk({terms'})
    <3>1. terms' = IF work[t].term > terms THEN work[t].term ELSE terms
      BY <1>6 DEF ImportTermsRaised
    <3>2. /\ terms <= remembered /\ work[t].term <= remembered
          /\ OnDisk({terms, work[t].term})
      BY <2>1 DEF TermInv
    <3>3. terms \in Nat /\ remembered \in Nat /\ work[t].term \in Nat
      BY <1>w DEF TypeOK, Work
    <3> QED
      BY <3>1, <3>2, <3>3 DEF OnDisk
  <2>4. at'[t] # "idle" => work'[t].file = work[t].file
    BY <1>6, <1>w, <2>1 DEF ImportTermsRaised, Return, TypeOK, Work
  <2>5. \A u \in Thread \ {t}, k \in Key : stripe[k] = u => stripe'[k] = u
    BY <1>6 DEF ImportTermsRaised, Return, TypeOK
  <2>6. LockInv'
    <3> SUFFICES ASSUME NEW u \in Thread \ {t},
                        at'[u] \in {"put", "raise", "batch", "raised"}
                 PROVE  stripe'[work'[u].key] = u
      BY <2>1, <2>2 DEF LockInv
    <3>1. work[u].key \in Key
      BY <1>w DEF Work
    <3>2. work'[u] = work[u] /\ at'[u] = at[u]
      BY <2>1
    <3>3. stripe[work[u].key] = u
      BY <3>2 DEF LockInv
    <3> QED
      BY <2>5, <3>1, <3>2, <3>3
  <2>7. \A k \in Key : work[t].file[k].term <= terms'
    BY <1>0, <1>w, <2>1, <2>3 DEF TermInv, TypeOK
  <2>8. TermInv'
    BY <1>0, <1>w, <2>1, <2>2, <2>3, <2>4, <2>7 DEF TermInv, OnDisk, TypeOK
  <2> QED
    BY <1>0, <2>1, <2>6, <2>8 DEF TermRemembered
<1>7. CASE ImportIngest(t)
  <2>1. /\ \A u \in Thread \ {t} : work'[u] = work[u] /\ at'[u] = at[u]
        /\ at'[t] = "idle" /\ at[t] = "ingest"
        /\ UNCHANGED <<remembered, terms>>
    BY <1>7 DEF ImportIngest, Return, TypeOK
  <2>2. LockInv'
    BY <1>7, <1>w, <2>1 DEF ImportIngest, Return, LockInv, TypeOK, Work
  <2>3. TermInv'
    BY <2>1 DEF TermInv
  <2>4. TermRemembered'
    BY <1>7, <1>w, <2>1 DEF ImportIngest, TermInv, TermRemembered, TypeOK
  <2> QED
    BY <1>0, <2>2, <2>3, <2>4
<1> QED
  BY <1>1, <1>2, <1>3, <1>4, <1>5, <1>6, <1>7 DEF Import

\* The steps of clear_records keep the inductive invariant.
LEMMA ClearKeepsInv ==
    ASSUME IInv, NEW t \in Thread, Clear(t), UNCHANGED lost
    PROVE  IInv'
<1> USE StoreAssumption DEF IInv, OnDisk
<1>0. TypeOK'
  BY ClearType
<1>w. \A u \in Thread : work[u] \in Work
  BY TermsAreNaturals
<1>1. CASE (\E file \in File : ClearBegin(t, file)) \/ (\E k \in Key : ClearWalk(t, k))
  <2>1. /\ \A u \in Thread \ {t} : work'[u] = work[u] /\ at'[u] = at[u]
        /\ at[t] \in {"idle", "clear"} /\ at'[t] = "clear"
        /\ UNCHANGED <<records, remembered, terms, stripe, raising>>
    BY <1>1 DEF ClearBegin, ClearWalk, Go, TypeOK, disk
  <2>2. LockInv'
    BY <2>1 DEF LockInv
  <2>3. TermInv'
    BY <2>1 DEF TermInv
  <2> QED
    BY <1>0, <2>1, <2>2, <2>3 DEF TermRemembered
<1>2. CASE ClearDelete(t)
  <2>1. /\ \A u \in Thread \ {t} : work'[u] = work[u] /\ at'[u] = at[u]
        /\ at'[t] = "idle" /\ at[t] = "clear"
        /\ UNCHANGED <<remembered, terms>>
    BY <1>2 DEF ClearDelete, Return, TypeOK
  <2>2. LockInv'
    BY <1>2, <1>w, <2>1 DEF ClearDelete, Return, LockInv, TypeOK, Work
  <2>3. TermInv'
    BY <2>1 DEF TermInv
  <2>4. TermRemembered'
    BY <1>2, <2>1 DEF ClearDelete, TermRemembered, TypeOK, NoRecord
  <2> QED
    BY <1>0, <2>2, <2>3, <2>4
<1> QED
  BY <1>1, <1>2 DEF Clear

\* Every step of every thread, and the end of a process, keeps the invariant.
LEMMA StepInv == IInv /\ [Next]_vars => IInv'
<1> SUFFICES ASSUME IInv, [Next]_vars
             PROVE  IInv'
  OBVIOUS
<1> USE StoreAssumption DEF IInv, OnDisk
<1>0. TypeOK'
  BY StepType
<1>1. CASE Crash \/ CrashUnread
  <2>1. /\ UNCHANGED <<records, remembered>>
        /\ \A u \in Thread : at'[u] = "idle"
        /\ lost <= lost'
        /\ terms' = remembered \/ (terms' = 0 /\ remembered <= lost')
    <3>1. remembered \in Nat /\ lost \in Nat
      BY TermsAreNaturals
    <3>2. UNCHANGED <<records, remembered>> /\ \A u \in Thread : at'[u] = "idle"
      BY <1>1 DEF Crash, CrashUnread, Reopen, disk
    <3>3. \/ terms' = remembered /\ lost' = lost
          \/ terms' = 0 /\ lost' = IF remembered > lost THEN remembered ELSE lost
      BY <1>1 DEF Crash, CrashUnread, Reopen, LoadedTerm
    <3>4. /\ lost <= lost'
          /\ terms' = remembered \/ (terms' = 0 /\ remembered <= lost')
      BY <3>1, <3>3
    <3> QED
      BY <3>2, <3>4
  <2>2. LockInv' /\ TermInv'
    BY <2>1, TermsAreNaturals DEF LockInv, TermInv, OnDisk
  <2>3. TermRemembered'
    BY <1>0, <2>1, TermsAreNaturals DEF TermRemembered, TypeOK
  <2> QED
    BY <1>0, <2>2, <2>3
<1>2. ASSUME NEW t \in Thread, Fail(t), UNCHANGED lost
      PROVE  IInv'
  <2>1. /\ \A u \in Thread \ {t} : work'[u] = work[u] /\ at'[u] = at[u]
        /\ at'[t] = "idle" /\ at[t] \notin {"raised", "termsWritten"}
        /\ UNCHANGED <<records, remembered, terms, lost>>
    BY <1>2 DEF Fail, Return, TypeOK, disk
  <2>2. LockInv'
    BY <1>2, <2>1, TermsAreNaturals DEF Fail, Return, LockInv, TypeOK, Work
  <2>3. TermInv'
    BY <2>1 DEF TermInv
  <2> QED
    BY <1>0, <2>1, <2>2, <2>3 DEF TermRemembered
<1>3. CASE UNCHANGED vars
  <2>1. LockInv' /\ TermInv' /\ TermRemembered'
    BY <1>3 DEF vars, LockInv, TermInv, OnDisk, TermRemembered
  <2> QED
    BY <1>0, <2>1
<1> QED
  BY <1>1, <1>2, <1>3, WriteKeepsInv, ImportKeepsInv, ClearKeepsInv DEF Next, Call

\* write_record and import_records never leave a record on disk in a term the
\* store does not remember, wherever the process ends and whatever the database
\* refuses, but below the terms that starts could not read (load_terms).
THEOREM RecordsAreFenced == Spec => []TermRemembered
<1>1. IInv => TermRemembered
  BY DEF IInv
<1> QED
  BY <1>1, InitInv, StepInv, PTL DEF Spec

\* What read_terms answers never falls, through any number of restarts, but in
\* one that cannot read it (load_terms).
THEOREM TermsOnlyRise == Spec => TermNeverFalls
<1>1. ASSUME IInv, [Next]_vars
      PROVE  [CrashUnread \/ terms' >= terms]_vars
  <2> USE DEF IInv
  <2>1. CASE Crash
    BY <1>1, <2>1 DEF Crash, Reopen, LoadedTerm, TermInv, TypeOK
  <2>2. ASSUME NEW t \in Thread, Write(t) \/ Import(t) \/ Clear(t) \/ Fail(t)
        PROVE  terms' >= terms
    <3>1. CASE WriteRaised(t)
      BY <1>1, <3>1, TermsAreNaturals DEF WriteRaised, TypeOK
    <3>2. CASE ImportTermsRaised(t)
      BY <1>1, <3>2, TermsAreNaturals DEF ImportTermsRaised, TypeOK
    <3>3. CASE UNCHANGED terms
      BY <1>1, <3>3 DEF TypeOK
    <3> QED
      BY <2>2, <3>1, <3>2, <3>3
         DEF Write, WriteBegin, WritePut, WriteRaise, WriteBatch, Import,
             ImportBegin, ImportWalk, ImportSift, ImportTerms, ImportTermsWrite,
             ImportIngest, Clear, ClearBegin, ClearWalk, ClearDelete, Fail
  <2> QED
    BY <1>1, <2>1, <2>2 DEF Next, Call
<1> QED
  BY <1>1, InitInv, StepInv, PTL DEF Spec, TermNeverFalls

\* With no import and no clear under way, a key never goes back to an older
\* write, however many threads write it (write_record's stripe locks).  With an
\* import beside them it does: TLC refutes it in a few steps.
THEOREM WritesKeepLater ==
    ASSUME Ops = {"write"}
    PROVE  Spec => KeepsLater
<1> USE StoreAssumption
<1> DEFINE Passes ==    \* a step that writes no record and begins no write
             /\ UNCHANGED records
             /\ \A u \in Thread :
                  \/ at'[u] = "idle"
                  \/ at'[u] = at[u] /\ work'[u] = work[u]
                  \/ at[u] = "raise" /\ at'[u] = "batch" /\ work'[u] = work[u]
<1>1. Init => WriteInv
  BY DEF Init, WriteInv
<1>2. ASSUME IInv, WriteInv, [Next]_vars
      PROVE  WriteInv' /\ [\A k \in Key : ~IsNewer(records[k], records'[k])]_vars
  <2> USE DEF IInv
  <2>w. /\ \A k \in Key : records[k].term \in Nat /\ records[k].count \in Nat
        /\ \A u \in Thread : /\ work[u].key \in Key
                             /\ work[u].stamp.term \in Nat
                             /\ work[u].stamp.count \in Nat
    BY <1>2, StoredType DEF TypeOK, Work
  <2>1. CASE Passes
    BY <1>2, <2>1, <2>w DEF WriteInv, IsNewer
  <2>2. CASE Crash \/ CrashUnread
    BY <1>2, <2>1, <2>2 DEF Crash, CrashUnread, Reopen, TypeOK, disk
  <2>3. CASE UNCHANGED vars
    BY <1>2, <2>1, <2>3 DEF vars
  <2>4. ASSUME NEW t \in Thread, Fail(t)
        PROVE  Passes
    BY <1>2, <2>4 DEF Fail, Return, TypeOK, disk
  <2>5. ASSUME NEW t \in Thread, Import(t) \/ Clear(t)
        PROVE  FALSE
    BY <1>2, <2>5 DEF Import, Clear, ImportBegin, ImportWalk, ImportSift,
       ImportTerms, ImportTermsWrite, ImportTermsRaised, ImportIngest,
       ClearBegin, ClearWalk, ClearDelete, WriteInv
  <2>6. ASSUME NEW t \in Thread, Write(t)
        PROVE  WriteInv' /\ \A k \in Key : ~IsNewer(records[k], records'[k])
    <3>1. ASSUME NEW k \in Key, NEW v \in Version, WriteBegin(t, k, v)
          PROVE  WriteInv' /\ UNCHANGED records
      <4>1. work'[t].key = k /\ work'[t].stamp = v
        BY <1>2, <3>1, NoWorkType DEF WriteBegin, TypeOK, Work
      <4> QED
        BY <1>2, <3>1, <4>1 DEF WriteBegin, Go, TypeOK, WriteInv, disk
    <3>2. CASE WritePut(t) \/ WriteBatch(t)
      <4>1. /\ at[t] \in {"put", "batch"} /\ at'[t] \in {"idle", "raised"}
            /\ \A u \in Thread \ {t} : work'[u] = work[u] /\ at'[u] = at[u]
            /\ records' = [records EXCEPT ![work[t].key] = work[t].stamp]
        BY <1>2, <3>2 DEF WritePut, WriteBatch, Return, Go, TypeOK
      <4>2. \A u \in Thread \ {t} :
              at[u] \in {"put", "raise", "batch"} => work[u].key # work[t].key
        \* Two threads do not hold one stripe.
        BY <1>2, <4>1 DEF LockInv
      <4>3. \A k \in Key : k # work[t].key => records'[k] = records[k]
        BY <1>2, <4>1 DEF TypeOK
      <4>4. WriteInv'
        BY <1>2, <2>w, <4>1, <4>2, <4>3 DEF WriteInv
      <4>5. records'[work[t].key] = work[t].stamp
        BY <1>2, <2>w, <4>1 DEF TypeOK
      <4>6. ~IsNewer(records[work[t].key], work[t].stamp)
        BY <1>2, <4>1 DEF WriteInv
      <4> QED
        BY <2>w, <4>3, <4>4, <4>5, <4>6 DEF IsNewer
    <3>3. CASE WriteRaise(t) \/ WriteRaised(t)
      <4>1. Passes
        BY <1>2, <3>3 DEF WriteRaise, WriteRaised, Return, Go, TypeOK, disk
      <4>2. WriteInv'
        BY <1>2, <4>1 DEF WriteInv
      <4> QED
        BY <2>w, <4>1, <4>2 DEF IsNewer
    <3> QED
      BY <2>6, <2>w, <3>1, <3>2, <3>3 DEF Write, IsNewer
  <2> QED
    BY <1>2, <2>1, <2>2, <2>3, <2>4, <2>5, <2>6 DEF Next, Call
<1> QED
  BY <1>1, <1>2, InitInv, StepInv, PTL DEF Spec, KeepsLater
-----------------------------------------------------------------------------
(* The counts a store hands out are never handed out twice, for every size  *)
(* of block, but below the end of a block that could not be read.  Above    *)
(* that, what is on disk is never behind what was handed out, and a block   *)
(* that is in memory has been handed out exactly as far as counts says.     *)

\* The part of the inductive invariant about a block under way.
BlockInv ==
    /\ counts <= reserved
    /\ highest <= written \/ highest <= forgotten
    /\ counts # reserved =>
         /\ reserved <= written
         /\ highest <= counts \/ highest <= forgotten
    /\ stage = "reserving" =>
         /\ Block <= written
         /\ highest + Block <= written \/ highest <= forgotten
         /\ counts = reserved

CountsInv == CountsTypeOK /\ BlockInv

\* What is known of counts holds before the first is handed out.
LEMMA InitCounts == CountsInit => CountsInv
BY DEF CountsInit, CountsInv, CountsTypeOK, BlockInv

\* Every step keeps the invariant.
LEMMA StepCounts ==
    CountsInv /\ [CountsNext]_countsVars => CountsInv'
<1> SUFFICES ASSUME CountsInv, [CountsNext]_countsVars
             PROVE  CountsInv'
  OBVIOUS
<1> USE CountsAssumption DEF CountsInv, CountsTypeOK, BlockInv, AtLeast
<1>1. CASE NextCount
  BY <1>1 DEF NextCount, BlockSpent
<1>2. CASE ReserveCounts \/ ReserveUnread
  BY <1>2 DEF ReserveCounts, ReserveUnread, Reserve, BlockSpent
<1>3. CASE NextOfBlock
  BY <1>3 DEF NextOfBlock
<1>4. CASE ProcessEnds
  BY <1>4 DEF ProcessEnds
<1>5. CASE UNCHANGED countsVars
  BY <1>5 DEF countsVars
<1> QED
  BY <1>1, <1>2, <1>3, <1>4, <1>5 DEF CountsNext

\* Types hold in every reachable state of next_count and reserve_counts.
THEOREM CountsTypeCorrect == CountsSpec => []CountsTypeOK
<1>1. CountsInv => CountsTypeOK
  BY DEF CountsInv
<1> QED
  BY <1>1, InitCounts, StepCounts, PTL DEF CountsSpec

\* next_count hands out rising counts, whatever the size of a block and
\* wherever processes end, and repeats one only below the end of a block that
\* reserve_counts could not read.
THEOREM CountsNeverRepeat == CountsSpec => CountsRise
<1>1. ASSUME CountsInv, [CountsNext]_countsVars
      PROVE  [NextCount \/ NextOfBlock =>
                counts' > highest \/ counts' <= forgotten]_countsVars
  <2> USE CountsAssumption DEF CountsInv, CountsTypeOK, BlockInv
  <2>1. ASSUME NextCount
        PROVE  counts' > highest \/ counts' <= forgotten
    BY <1>1, <2>1 DEF NextCount, BlockSpent
  <2>2. ASSUME NextOfBlock
        PROVE  counts' > highest \/ counts' <= forgotten
    BY <1>1, <2>2 DEF NextOfBlock
  <2> QED
    BY <2>1, <2>2
<1> QED
  BY <1>1, InitCounts, StepCounts, PTL DEF CountsSpec, CountsRise
-----------------------------------------------------------------------------
(* The schema: nodes that hold a name at one version hold the same of it,  *)
(* for any nodes and operations.  OneLeader says that a term is one node's *)
(* and StampInv that a count is one operation's, so a stamp names one      *)
(* operation; EntriesInv, that whatever is in memory, on disk or read by a *)
(* pass is the entry of an operation that was stamped.                     *)

\* schema_stamp has made the operation's version.
Stamped(w) == op[w].count # 0

\* A term is one node's: whoever leads in it or ordered in it.
OneLeader ==
    /\ \A n \in Node : lead[n] <= newest
    /\ \A n, m \in Node : lead[n] = lead[m] /\ lead[n] # 0 => n = m
    /\ \A w \in Op : op[w].at # "new" =>
         /\ op[w].term # 0
         /\ op[w].term <= newest
         /\ \A n \in Node : lead[n] = op[w].term => n = op[w].by
         /\ \A v \in Op : op[v].at # "new" /\ op[v].term = op[w].term
                            => op[v].by = op[w].by

\* An operation is stamped when its leader looks, and only then, with a count no
\* other operation of that node has.
StampInv ==
    /\ \A w \in Op :
         /\ op[w].at \in {"new", "led"} => ~Stamped(w)
         /\ op[w].at \in {"looked", "sent"} => Stamped(w)
         /\ op[w].count <= count[op[w].by]
         /\ \A n \in Node : leg[w][n] # "none" => Stamped(w)
    /\ \A w, v \in Op :
         Stamped(w) /\ op[w].by = op[v].by /\ op[w].count = op[v].count => w = v

\* Whatever a node has under the name is some operation's entry.
Known(e) == e = NoEntry \/ \E w \in Op : Stamped(w) /\ e = EntryOf(w)

EntriesInv ==
    \A n \in Node : Known(entry[n]) /\ Known(saved[n]) /\ \A e \in fetched[n] : Known(e)

\* What op[w] and leg[w][n] may be.
OpType == [at : {"new", "led", "looked", "sent", "ok", "refused"},
           by : Node, term : 0 .. MaxTerm, count : Nat,
           found : Doc \cup {NoTable}, asked : Doc \cup {NoTable}]

LegType == {"none", "sent", "accepted", "looked", "done", "refused"}

SchemaInv == SchemaTypeOK /\ OneLeader /\ StampInv /\ EntriesInv
-----------------------------------------------------------------------------
\* An operation's entry has the type of one, and so has that of a new name.
LEMMA EntryTypes ==
    ASSUME SchemaTypeOK
    PROVE  /\ NoEntry \in Entries
           /\ \A w \in Op : EntryOf(w) \in Entries
           /\ \A e \in Entries : e.table \in Doc \cup {NoTable} /\ e.term \in Nat
           /\ op \in [Op -> OpType]
           /\ leg \in [Op -> [Node -> LegType]]
  <1> USE SchemaAssumption
  <1>1. NoEntry \in Entries
    BY DEF NoEntry, Entries
  <1>2. op \in [Op -> OpType] /\ leg \in [Op -> [Node -> LegType]]
    BY DEF SchemaTypeOK, OpType, LegType
  <1>3. ASSUME NEW w \in Op PROVE EntryOf(w) \in Entries
    <2>1. op[w] \in OpType
      BY <1>2
    <2> QED BY <2>1 DEF EntryOf, Entries, OpType
  <1> QED BY <1>1, <1>2, <1>3 DEF Entries

\* A step that orders and stamps nothing, and stores entries that are known.
LEMMA OpsMove ==
    ASSUME SchemaInv, count' = count, newest' = newest,
           \A n \in Node : lead'[n] \in {lead[n], 0},
           \A w \in Op :
               /\ op'[w].term = op[w].term /\ op'[w].by = op[w].by
               /\ op'[w].count = op[w].count /\ op'[w].asked = op[w].asked
               /\ \/ op'[w].at = op[w].at
                  \/ op[w].at # "new" /\ op'[w].at \in {"ok", "refused"}
                  \/ op[w].at # "new" /\ op'[w].at = "sent" /\ Stamped(w),
           \A w \in Op, n \in Node : leg'[w][n] # "none" => leg[w][n] # "none" \/ Stamped(w),
           \A n \in Node : /\ Known(entry'[n]) /\ Known(saved'[n])
                           /\ \A e \in fetched'[n] : Known(e)
    PROVE  OneLeader' /\ StampInv' /\ EntriesInv'
  <1> USE DEF SchemaInv
  <1>1. \A w \in Op : Stamped(w)' <=> Stamped(w)
    BY DEF Stamped
  <1>2. \A w \in Op : EntryOf(w)' = EntryOf(w)
    BY DEF EntryOf
  <1>3. \A w \in Op : (op'[w].at # "new") <=> (op[w].at # "new")
    OBVIOUS
  <1>4. OneLeader'
    <2>1. \A n \in Node : lead'[n] <= newest
      <3>1. newest \in Nat
        BY SchemaAssumption DEF SchemaTypeOK
      <3> QED BY <3>1 DEF OneLeader
    <2>2. \A n, m \in Node : lead'[n] = lead'[m] /\ lead'[n] # 0 => n = m
      BY DEF OneLeader
    <2>3. ASSUME NEW u \in Op, op'[u].at # "new"
          PROVE  /\ op'[u].term # 0
                 /\ op'[u].term <= newest
                 /\ \A m \in Node : lead'[m] = op'[u].term => m = op'[u].by
                 /\ \A v \in Op : op'[v].at # "new" /\ op'[v].term = op'[u].term
                                    => op'[v].by = op'[u].by
      <3>1. op[u].at # "new"
        BY <1>3, <2>3
      <3> QED BY <1>3, <3>1 DEF OneLeader
    <2> QED BY <2>1, <2>2, <2>3 DEF OneLeader
  <1>5. StampInv'
    <2>1. ASSUME NEW w \in Op
          PROVE  /\ op'[w].at \in {"new", "led"} => ~Stamped(w)'
                 /\ op'[w].at \in {"looked", "sent"} => Stamped(w)'
                 /\ op'[w].count <= count[op'[w].by]
                 /\ \A n \in Node : leg'[w][n] # "none" => Stamped(w)'
      BY <1>1 DEF StampInv
    <2>2. \A w, v \in Op :
            Stamped(w)' /\ op'[w].by = op'[v].by /\ op'[w].count = op'[v].count => w = v
      BY <1>1 DEF StampInv
    <2> QED BY <2>1, <2>2 DEF StampInv
  <1>6. EntriesInv'
    BY <1>1, <1>2 DEF EntriesInv, Known
  <1> QED BY <1>4, <1>5, <1>6

\* An operation moves on.
LEMMA OpAt ==
    ASSUME SchemaTypeOK, NEW w \in Op, NEW a \in {"sent", "ok", "refused"},
           op' = [op EXCEPT ![w].at = a]
    PROVE  /\ op' \in [Op -> OpType]
           /\ op'[w].at = a
           /\ \A v \in Op : v # w => op'[v] = op[v]
           /\ \A v \in Op :
                /\ op'[v].term = op[v].term /\ op'[v].by = op[v].by
                /\ op'[v].count = op[v].count /\ op'[v].asked = op[v].asked
  <1>1. op \in [Op -> OpType] /\ op[w] \in OpType
    BY EntryTypes
  <1>2. op'[w] = [op[w] EXCEPT !.at = a]
    BY <1>1
  <1>3. op'[w] \in OpType
    BY <1>1, <1>2 DEF OpType
  <1> QED BY <1>1, <1>2, <1>3 DEF OpType

-----------------------------------------------------------------------------
\* Claims and the end of a leadership: a term that is claimed is new.
LEMMA ClaimKeeps ==
    ASSUME SchemaInv, NEW n \in Node, Claim(n) \/ Raise(n) \/ Unlead(n)
    PROVE  SchemaInv'
  <1> USE SchemaAssumption DEF SchemaInv
  <1>1. /\ UNCHANGED <<count, entry, saved, family, op, leg, fetched>>
    BY DEF Claim, Raise, Unlead, store
  <1>2. SchemaTypeOK'
    <2>1. CASE Claim(n)
      <3>1. newest + 1 \in 0 .. MaxTerm
        BY <2>1 DEF Claim, SchemaTypeOK
      <3> QED BY <1>1, <2>1, <3>1 DEF Claim, TermWon, SchemaTypeOK
    <2>2. CASE Raise(n) \/ Unlead(n)
      BY <1>1, <2>2 DEF Raise, Unlead, SchemaTypeOK
    <2> QED BY <2>1, <2>2
  <1>3. OneLeader'
    <2>1. CASE Claim(n)
      <3>1. /\ newest \in Nat /\ newest' = newest + 1
            /\ \A m \in Node : lead[m] \in Nat
            /\ \A m \in Node : lead'[m] = IF m = n THEN newest + 1 ELSE lead[m]
            /\ \A w \in Op : op[w].term \in Nat
        BY <2>1 DEF Claim, TermWon, SchemaTypeOK
      <3> QED BY <1>1, <3>1 DEF OneLeader
    <2>2. CASE Unlead(n)
      <3>1. /\ newest' = newest
            /\ \A m \in Node : lead'[m] = IF m = n THEN 0 ELSE lead[m]
            /\ newest \in Nat
        BY <2>2 DEF Unlead, SchemaTypeOK
      <3> QED BY <1>1, <3>1 DEF OneLeader
    <2>3. CASE Raise(n)
      <3>1. UNCHANGED <<newest, lead>>
        BY <2>3 DEF Raise
      <3> QED BY <1>1, <3>1 DEF OneLeader
    <2> QED BY <2>1, <2>2, <2>3
  <1>4. StampInv' /\ EntriesInv'
    BY <1>1 DEF StampInv, EntriesInv, Known, Stamped, EntryOf
  <1> QED BY <1>2, <1>3, <1>4

\* An operation is ordered by the leader of a term.
LEMMA OrderKeeps ==
    ASSUME SchemaInv, NEW w \in Op, NEW n \in Node, Order(w, n)
    PROVE  SchemaInv'
  <1> USE SchemaAssumption DEF SchemaInv
  <1>1. /\ UNCHANGED <<newest, lead, fence, count, entry, saved, family, leg, fetched>>
        /\ op[w].at = "new" /\ lead[n] # 0
        /\ op' = [op EXCEPT ![w].at = "led", ![w].by = n, ![w].term = lead[n]]
    BY DEF Order, store
  <1>2. op \in [Op -> OpType] /\ lead[n] \in 0 .. MaxTerm /\ count[n] \in Nat
    BY EntryTypes DEF SchemaTypeOK
  <1>3. op' \in [Op -> OpType]
    <2>1. op'[w] = [op[w] EXCEPT !.at = "led", !.by = n, !.term = lead[n]]
      BY <1>1, <1>2
    <2>2. op'[w] \in OpType
      BY ZenonT(60), <1>2, <2>1 DEF OpType
    <2> QED BY <1>1, <1>2, <2>1, <2>2
  <1>4. SchemaTypeOK'
    BY <1>1, <1>3 DEF SchemaTypeOK, OpType
  <1>5. /\ op'[w].at = "led" /\ op'[w].by = n /\ op'[w].term = lead[n]
        /\ op'[w].count = op[w].count
        /\ \A v \in Op : v # w => op'[v] = op[v]
    BY <1>1, <1>2 DEF OpType
  <1>6. OneLeader'
    BY <1>1, <1>2, <1>5 DEF OneLeader
  <1>7. op[w].count = 0
    BY <1>1 DEF StampInv, Stamped
  <1>8. \A v \in Op : Stamped(v)' <=> Stamped(v)
    BY <1>5 DEF Stamped
  <1>9. StampInv'
    <2>1. \A v \in Op : op'[v].count <= count[op'[v].by]
      BY <1>2, <1>5, <1>7 DEF StampInv
    <2>2. \A v, u \in Op :
            Stamped(v)' /\ op'[v].by = op'[u].by /\ op'[v].count = op'[u].count => v = u
      <3> SUFFICES ASSUME NEW v \in Op, NEW u \in Op, Stamped(v)',
                          op'[v].by = op'[u].by, op'[v].count = op'[u].count
                   PROVE  v = u
        OBVIOUS
      <3>1. v # w /\ u # w
        BY <1>5, <1>7 DEF Stamped
      <3> QED BY <1>5, <1>8, <3>1 DEF StampInv
    <2>3. \A v \in Op : \A m \in Node : leg'[v][m] # "none" => Stamped(v)'
      BY <1>1, <1>8 DEF StampInv
    <2>4. \A v \in Op : /\ op'[v].at \in {"new", "led"} => ~Stamped(v)'
                        /\ op'[v].at \in {"looked", "sent"} => Stamped(v)'
      BY <1>5, <1>7, <1>8 DEF StampInv, Stamped
    <2> QED BY <1>1, <2>1, <2>2, <2>3, <2>4 DEF StampInv
  <1>10. EntriesInv'
    <2>1. \A v \in Op : Stamped(v) => EntryOf(v)' = EntryOf(v)
      BY <1>5, <1>7 DEF Stamped, EntryOf
    <2> QED BY <1>1, <1>8, <2>1 DEF EntriesInv, Known
  <1> QED BY <1>4, <1>6, <1>9, <1>10

\* And stamped with the next count of its node.
LEMMA LookKeeps ==
    ASSUME SchemaInv, NEW w \in Op, Look(w)
    PROVE  SchemaInv'
  <1> USE SchemaAssumption DEF SchemaInv
  <1> DEFINE n == op[w].by
  <1>0. op \in [Op -> OpType] /\ op[w] \in OpType /\ n \in Node
    BY EntryTypes DEF OpType
  <1>1. /\ UNCHANGED <<newest, lead, fence, entry, saved, family, leg, fetched>>
        /\ op[w].at = "led"
        /\ count' = [count EXCEPT ![n] = count[n] + 1]
        /\ op' = [op EXCEPT ![w].at = "looked", ![w].count = count[n] + 1,
                            ![w].found = entry[n].table]
    BY DEF Look, store, StampCount
  <1>2. count[n] \in Nat /\ entry[n].table \in Doc \cup {NoTable}
    BY <1>0, EntryTypes DEF SchemaTypeOK
  <1>3. /\ op' \in [Op -> OpType]
        /\ op'[w].at = "looked" /\ op'[w].by = n /\ op'[w].term = op[w].term
        /\ op'[w].count = count[n] + 1
        /\ \A v \in Op : v # w => op'[v] = op[v]
    <2> HIDE DEF n
    <2>1. op'[w] = [op[w] EXCEPT !.at = "looked", !.count = count[n] + 1,
                                 !.found = entry[n].table]
      BY <1>0, <1>1
    <2>2. op'[w] \in OpType
      <3>1. op'[w] = [at |-> "looked", by |-> op[w].by, term |-> op[w].term,
                      count |-> count[n] + 1, found |-> entry[n].table,
                      asked |-> op[w].asked]
        BY <1>0, <2>1 DEF OpType
      <3> QED BY <1>0, <1>2, <3>1 DEF OpType
    <2>3. op' \in [Op -> OpType]
      BY <1>0, <1>1, <2>1, <2>2
    <2> QED BY ZenonT(60), <1>0, <1>1, <2>1, <2>3 DEF OpType, n
  <1>4. SchemaTypeOK'
    <2>1. count' \in [Node -> Nat]
      BY <1>0, <1>1, <1>2 DEF SchemaTypeOK
    <2> QED BY <1>1, <1>3, <2>1 DEF SchemaTypeOK, OpType
  <1>5. OneLeader'
    <2>1. \A v \in Op : /\ op'[v].term = op[v].term /\ op'[v].by = op[v].by
                        /\ (op'[v].at = "new") <=> (op[v].at = "new")
      BY <1>1, <1>3
    <2>2. newest' = newest /\ lead' = lead
      BY <1>1
    <2>3. ASSUME NEW u \in Op, op'[u].at # "new"
          PROVE  /\ op'[u].term # 0
                 /\ op'[u].term <= newest
                 /\ \A m \in Node : lead[m] = op'[u].term => m = op'[u].by
                 /\ \A v \in Op : op'[v].at # "new" /\ op'[v].term = op'[u].term
                                    => op'[v].by = op'[u].by
      <3>1. op[u].at # "new"
        BY <2>1, <2>3
      <3> QED BY <2>1, <3>1 DEF OneLeader
    <2> QED BY <2>2, <2>3 DEF OneLeader
  <1>6. op[w].count = 0
    BY <1>1 DEF StampInv, Stamped
  <1>7. /\ \A v \in Op : v # w => (Stamped(v)' <=> Stamped(v))
        /\ Stamped(w)' /\ ~Stamped(w)
    BY <1>2, <1>3, <1>6 DEF Stamped
  <1>8. StampInv'
    <2>1. \A m \in Node : count[m] \in Nat /\ count'[m] = IF m = n THEN count[n] + 1 ELSE count[m]
      BY <1>0, <1>1 DEF SchemaTypeOK
    <2>2. \A v \in Op : op[v].count \in Nat /\ op[v].by \in Node
      BY <1>0 DEF OpType
    <2>3. \A v \in Op : op'[v].count <= count'[op'[v].by]
      BY <1>3, <2>1, <2>2 DEF StampInv
    <2>4. \A v \in Op : v # w /\ op[v].by = n => op[v].count <= count[n]
      BY DEF StampInv
    <2>5. \A v, u \in Op :
            Stamped(v)' /\ op'[v].by = op'[u].by /\ op'[v].count = op'[u].count => v = u
      <3> SUFFICES ASSUME NEW v \in Op, NEW u \in Op, Stamped(v)', v # u,
                          op'[v].by = op'[u].by, op'[v].count = op'[u].count
                   PROVE  FALSE
        OBVIOUS
      <3>1. CASE v # w /\ u # w
        BY <1>3, <1>7, <3>1 DEF StampInv
      <3>2. CASE v = w
        BY <1>2, <1>3, <2>2, <2>4, <3>2
      <3>3. CASE u = w
        BY <1>2, <1>3, <2>2, <2>4, <3>3
      <3> QED BY <3>1, <3>2, <3>3
    <2>6. \A v \in Op : \A m \in Node : leg'[v][m] # "none" => Stamped(v)'
      BY <1>1, <1>7 DEF StampInv
    <2> QED BY <1>1, <1>3, <1>7, <2>3, <2>5, <2>6 DEF StampInv
  <1>9. EntriesInv'
    <2>1. \A v \in Op : Stamped(v) => EntryOf(v)' = EntryOf(v) /\ Stamped(v)'
      BY <1>3, <1>7 DEF EntryOf
    <2> QED BY <1>1, <2>1 DEF EntriesInv, Known
  <1> QED BY <1>4, <1>5, <1>8, <1>9

-----------------------------------------------------------------------------
\* What the store makes of an entry that is known.
LEMMA StoreKeeps ==
    ASSUME SchemaInv, NEW n \in Node, NEW e \in Entries, Known(e),
           StoreEntry(n, e) \/ StoreThrows(n, e)
    PROVE  /\ family' \in [Node -> BOOLEAN]
           /\ entry' \in [Node -> Entries] /\ saved' \in [Node -> Entries]
           /\ \A m \in Node : Known(entry'[m]) /\ Known(saved'[m])
  <1> USE DEF SchemaInv
  <1>1. /\ \A m \in Node : Known(entry[m]) /\ Known(saved[m])
        /\ entry \in [Node -> Entries] /\ saved \in [Node -> Entries]
        /\ family \in [Node -> BOOLEAN]
    BY DEF EntriesInv, SchemaTypeOK
  <1>2. CASE StoreEntry(n, e)
    BY <1>1, <1>2 DEF StoreEntry
  <1>3. CASE StoreThrows(n, e)
    BY <1>1, <1>3 DEF StoreThrows, store
  <1> QED BY <1>2, <1>3

\* The leader acts, carries and answers.
LEMMA LeadingKeeps ==
    ASSUME SchemaInv, NEW w \in Op,
           RefuseHere(w) \/ Act(w) \/ Answer(w) \/ GiveUp(w)
    PROVE  SchemaInv'
  <1> USE SchemaAssumption DEF SchemaInv
  <1>0. op[w].by \in Node /\ op[w].at # "new"
    BY EntryTypes DEF OpType, RefuseHere, Act, Answer, GiveUp
  <1>1. UNCHANGED <<newest, lead, fence, count, fetched>>
    BY DEF RefuseHere, Act, Answer, GiveUp
  <1>2. /\ family' \in [Node -> BOOLEAN]
        /\ entry' \in [Node -> Entries] /\ saved' \in [Node -> Entries]
        /\ \A m \in Node : Known(entry'[m]) /\ Known(saved'[m])
    <2>1. CASE UNCHANGED store
      BY <2>1 DEF store, EntriesInv, SchemaTypeOK
    <2>2. CASE Act(w) /\ (\/ StoreEntry(op[w].by, EntryOf(w))
                          \/ StoreThrows(op[w].by, EntryOf(w)))
      <3>1. Known(EntryOf(w)) /\ EntryOf(w) \in Entries
        BY <2>2, EntryTypes DEF Act, Known, StampInv
      <3> QED BY <1>0, <2>2, <3>1, StoreKeeps
    <2> QED BY <2>1, <2>2 DEF RefuseHere, Act, Answer, GiveUp
  <1>3. PICK a \in {"sent", "ok", "refused"} :
          /\ op' = [op EXCEPT ![w].at = a]
          /\ a = "sent" => op[w].at = "looked"
          /\ \/ UNCHANGED leg
             \/ /\ op[w].at = "looked"
                /\ leg' = [leg EXCEPT ![w] =
                             [c \in Node |-> IF c = op[w].by THEN "none" ELSE "sent"]]
    BY DEF RefuseHere, Act, Answer, GiveUp, Send, End
  <1>4. /\ op' \in [Op -> OpType]
        /\ op'[w].at = a
        /\ \A v \in Op : v # w => op'[v] = op[v]
        /\ \A v \in Op :
             /\ op'[v].term = op[v].term /\ op'[v].by = op[v].by
             /\ op'[v].count = op[v].count /\ op'[v].asked = op[v].asked
    BY <1>3, OpAt
  <1>5. /\ leg' \in [Op -> [Node -> LegType]]
        /\ \A v \in Op, n \in Node : leg'[v][n] # "none" => leg[v][n] # "none" \/ Stamped(v)
    <2>1. leg \in [Op -> [Node -> LegType]]
      BY EntryTypes
    <2>2. CASE UNCHANGED leg
      BY <2>1, <2>2
    <2>3. CASE /\ op[w].at = "looked"
               /\ leg' = [leg EXCEPT ![w] =
                            [c \in Node |-> IF c = op[w].by THEN "none" ELSE "sent"]]
      <3>1. Stamped(w)
        BY <2>3 DEF StampInv
      <3>2. [c \in Node |-> IF c = op[w].by THEN "none" ELSE "sent"] \in [Node -> LegType]
        BY DEF LegType
      <3> QED BY <2>1, <2>3, <3>1, <3>2
    <2> QED BY <1>3, <2>2, <2>3
  <1>6. SchemaTypeOK'
    BY <1>1, <1>2, <1>4, <1>5 DEF SchemaTypeOK, OpType, LegType
  <1>7. \A v \in Op : \/ op'[v].at = op[v].at
                      \/ op[v].at # "new" /\ op'[v].at \in {"ok", "refused"}
                      \/ op[v].at # "new" /\ op'[v].at = "sent" /\ Stamped(v)
    BY <1>0, <1>3, <1>4 DEF StampInv
  <1>8. \A n \in Node : \A e \in fetched'[n] : Known(e)
    BY <1>1 DEF EntriesInv
  <1>9. OneLeader' /\ StampInv' /\ EntriesInv'
    BY <1>1, <1>2, <1>4, <1>5, <1>7, <1>8, OpsMove
  <1> QED BY <1>6, <1>9

\* A node it is carried to accepts it, looks and acts.
LEMMA CarriedKeeps ==
    ASSUME SchemaInv, NEW w \in Op, NEW c \in Node, Accept(w, c) \/ Carried(w, c)
    PROVE  SchemaInv'
  <1> USE SchemaAssumption DEF SchemaInv
  <1>0. leg \in [Op -> [Node -> LegType]] /\ op \in [Op -> OpType]
    BY EntryTypes
  <1>1. /\ UNCHANGED <<newest, lead, count, op, fetched>>
        /\ leg[w][c] # "none"
    BY DEF Accept, Carried, LookCarried, ActCarried
  <1>2. PICK a \in LegType : leg' = [leg EXCEPT ![w][c] = a]
    <2>1. CASE Accept(w, c)
      BY <2>1 DEF Accept, LegType
    <2>2. CASE LookCarried(w, c)
      BY <2>2 DEF LookCarried, LegType
    <2>3. CASE ActCarried(w, c)
      BY <2>3 DEF ActCarried, LegType
    <2> QED BY <2>1, <2>2, <2>3 DEF Carried
  <1>3. /\ leg' \in [Op -> [Node -> LegType]]
        /\ \A v \in Op, n \in Node : leg'[v][n] # "none" => leg[v][n] # "none"
    BY <1>0, <1>1, <1>2
  <1>4. fence' \in [Node -> 0 .. MaxTerm]
    <2>1. op[w].term \in 0 .. MaxTerm /\ fence \in [Node -> 0 .. MaxTerm]
      BY <1>0 DEF OpType, SchemaTypeOK
    <2> QED BY <2>1 DEF Accept, Carried, LookCarried, ActCarried
  <1>5. /\ family' \in [Node -> BOOLEAN]
        /\ entry' \in [Node -> Entries] /\ saved' \in [Node -> Entries]
        /\ \A m \in Node : Known(entry'[m]) /\ Known(saved'[m])
    <2>1. CASE UNCHANGED store
      BY <2>1 DEF store, EntriesInv, SchemaTypeOK
    <2>2. CASE ActCarried(w, c)
      <3>1. Known(EntryOf(w)) /\ EntryOf(w) \in Entries
        BY <1>1, EntryTypes DEF Known, StampInv
      <3> QED BY <2>2, <3>1, StoreKeeps DEF ActCarried
    <2> QED BY <2>1, <2>2 DEF Accept, Carried, LookCarried
  <1>6. SchemaTypeOK'
    BY <1>1, <1>3, <1>4, <1>5 DEF SchemaTypeOK, LegType
  <1>7. \A n \in Node : \A e \in fetched'[n] : Known(e)
    BY <1>1 DEF EntriesInv
  <1>8. OneLeader' /\ StampInv' /\ EntriesInv'
    BY <1>1, <1>3, <1>5, <1>7, OpsMove
  <1> QED BY <1>6, <1>8

\* A pass reads a schema and merges it.
LEMMA MergingKeeps ==
    ASSUME SchemaInv, NEW n \in Node,
           MergeSchema(n) \/ \E m \in Node : ReadSchema(n, m)
    PROVE  SchemaInv'
  <1> USE SchemaAssumption DEF SchemaInv
  <1>1. UNCHANGED <<newest, lead, fence, count, op, leg>>
    BY DEF MergeSchema, ReadSchema
  <1>2. /\ \A m \in Node : Known(entry[m]) /\ Known(saved[m])
        /\ entry \in [Node -> Entries] /\ saved \in [Node -> Entries]
        /\ family \in [Node -> BOOLEAN] /\ fetched \in [Node -> SUBSET Entries]
        /\ \A m \in Node : \A e \in fetched[m] : Known(e)
    BY DEF EntriesInv, SchemaTypeOK
  <1>3. /\ family' \in [Node -> BOOLEAN] /\ fetched' \in [Node -> SUBSET Entries]
        /\ entry' \in [Node -> Entries] /\ saved' \in [Node -> Entries]
        /\ \A m \in Node : Known(entry'[m]) /\ Known(saved'[m])
        /\ \A m \in Node : \A e \in fetched'[m] : Known(e)
    <2>1. CASE MergeSchema(n)
      <3>1. fetched' = [fetched EXCEPT ![n] = {}]
        BY <2>1 DEF MergeSchema
      <3>2. PICK e \in fetched[n] :
              \/ IsNewerEntry(e, entry[n]) /\ Merge(n, e)
              \/ /\ ~IsNewerEntry(e, entry[n])
                 /\ saved' = [saved EXCEPT ![n] = entry[n]]
                 /\ UNCHANGED <<entry, family>>
        BY <2>1 DEF MergeSchema
      <3>3. e \in Entries /\ Known(e)
        BY <1>2
      <3>4. CASE Merge(n, e)
        <4>1. MergedFamily(n, e) \in BOOLEAN
          BY <1>2 DEF MergedFamily
        <4>2. /\ entry' = [entry EXCEPT ![n] = e]
              /\ saved' = [saved EXCEPT ![n] = e] \/ saved' = saved
              /\ family' = [family EXCEPT ![n] = MergedFamily(n, e)] \/ family' = family
          BY <3>4 DEF Merge
        <4> QED BY <1>2, <3>1, <3>3, <4>1, <4>2
      <3> QED BY <1>2, <3>1, <3>2, <3>4
    <2>2. CASE \E m \in Node : ReadSchema(n, m)
      BY <1>2, <2>2 DEF ReadSchema, store
    <2> QED BY <2>1, <2>2
  <1>4. SchemaTypeOK'
    BY <1>1, <1>3 DEF SchemaTypeOK
  <1>5. OneLeader' /\ StampInv' /\ EntriesInv'
    BY <1>1, <1>3, OpsMove
  <1> QED BY <1>4, <1>5

\* A process starts again on what was saved.
LEMMA RestartKeeps ==
    ASSUME SchemaInv, NEW n \in Node, Restart(n)
    PROVE  SchemaInv'
  <1> USE SchemaAssumption DEF SchemaInv
  <1>0. leg \in [Op -> [Node -> LegType]] /\ op \in [Op -> OpType]
    BY EntryTypes
  <1>1. UNCHANGED <<newest, count, saved>>
    BY DEF Restart
  <1>2. \A w \in Op : op'[w] = IF op[w].by = n /\ op[w].at \in {"led", "looked", "sent"}
                               THEN [op[w] EXCEPT !.at = "refused"] ELSE op[w]
    BY DEF Restart
  <1>3. ASSUME NEW w \in Op
        PROVE  /\ op'[w] \in OpType
               /\ op'[w].term = op[w].term /\ op'[w].by = op[w].by
               /\ op'[w].count = op[w].count /\ op'[w].asked = op[w].asked
               /\ \/ op'[w].at = op[w].at
                  \/ op[w].at # "new" /\ op'[w].at \in {"ok", "refused"}
    <2>1. op[w] \in OpType
      BY <1>0
    <2>2. CASE op[w].by = n /\ op[w].at \in {"led", "looked", "sent"}
      <3>1. op'[w] = [op[w] EXCEPT !.at = "refused"]
        BY <1>2, <2>2
      <3> QED BY <2>1, <2>2, <3>1 DEF OpType
    <2>3. CASE ~(op[w].by = n /\ op[w].at \in {"led", "looked", "sent"})
      <3>1. op'[w] = op[w]
        BY <1>2, <2>3
      <3> QED BY <2>1, <3>1
    <2> QED BY <2>2, <2>3
  <1>4. op' \in [Op -> OpType]
    <2>1. op' = [w \in Op |-> op'[w]]
      BY DEF Restart
    <2> QED BY <1>3, <2>1
  <1>5. /\ leg' \in [Op -> [Node -> LegType]]
        /\ \A v \in Op, m \in Node : leg'[v][m] # "none" => leg[v][m] # "none"
    <2>1. leg' = [w \in Op |-> IF leg[w][n] \in {"accepted", "looked"}
                               THEN [leg[w] EXCEPT ![n] = "refused"] ELSE leg[w]]
      BY DEF Restart
    <2>2. ASSUME NEW v \in Op
          PROVE  /\ leg'[v] \in [Node -> LegType]
                 /\ \A m \in Node : leg'[v][m] # "none" => leg[v][m] # "none"
      <3>1. leg[v] \in [Node -> LegType]
        BY <1>0
      <3>2. CASE leg[v][n] \in {"accepted", "looked"}
        <4>1. leg'[v] = [leg[v] EXCEPT ![n] = "refused"]
          BY <2>1, <3>2
        <4> QED BY <3>1, <3>2, <4>1 DEF LegType
      <3>3. CASE leg[v][n] \notin {"accepted", "looked"}
        <4>1. leg'[v] = leg[v]
          BY <2>1, <3>3
        <4> QED BY <3>1, <4>1
      <3> QED BY <3>2, <3>3
    <2> QED BY <2>1, <2>2
  <1>6. /\ lead' = [lead EXCEPT ![n] = 0]
        /\ fetched' = [fetched EXCEPT ![n] = {}]
    BY DEF Restart
  <1>e. PICK e \in {saved[n], NoEntry} :
          /\ fence' = [fence EXCEPT ![n] = RestoredFence(e)]
          /\ entry' = [entry EXCEPT ![n] = e]
          /\ family' = [family EXCEPT ![n] = e.table # NoTable]
    BY DEF Restart, Read
  <1>k. Known(e) /\ e \in Entries
    BY EntryTypes DEF EntriesInv, Known, SchemaTypeOK
  <1>7. RestoredFence(e) \in 0 .. MaxTerm
    <2>1. CASE e = NoEntry
      BY <2>1 DEF RestoredFence, NoEntry
    <2>2. ASSUME NEW w \in Op, e = EntryOf(w) PROVE e.term \in 0 .. MaxTerm
      BY <1>0, <2>2 DEF EntryOf, OpType
    <2> QED BY <1>k, <2>1, <2>2 DEF Known, RestoredFence
  <1>8. SchemaTypeOK'
    <2>1. /\ lead' \in [Node -> 0 .. MaxTerm] /\ fence' \in [Node -> 0 .. MaxTerm]
      BY <1>6, <1>e, <1>7 DEF SchemaTypeOK
    <2>2. /\ entry' \in [Node -> Entries] /\ family' \in [Node -> BOOLEAN]
          /\ fetched' \in [Node -> SUBSET Entries]
      BY <1>6, <1>e, <1>k DEF SchemaTypeOK
    <2> QED BY <1>1, <1>4, <1>5, <2>1, <2>2 DEF SchemaTypeOK, OpType, LegType
  <1>9. \A m \in Node : /\ Known(entry'[m]) /\ Known(saved'[m])
                        /\ \A f \in fetched'[m] : Known(f)
    BY <1>1, <1>6, <1>e, <1>k DEF EntriesInv, SchemaTypeOK
  <1>10. \A m \in Node : lead'[m] \in {lead[m], 0}
    BY <1>6 DEF SchemaTypeOK
  <1>11. OneLeader' /\ StampInv' /\ EntriesInv'
    BY <1>1, <1>3, <1>5, <1>9, <1>10, OpsMove
  <1> QED BY <1>8, <1>11
-----------------------------------------------------------------------------
\* Every step keeps it.
LEMMA SchemaStep == SchemaInv /\ [SchemaNext]_schemaVars => SchemaInv'
  <1> SUFFICES ASSUME SchemaInv, [SchemaNext]_schemaVars PROVE SchemaInv'
    OBVIOUS
  <1>1. CASE UNCHANGED schemaVars
    BY <1>1 DEF schemaVars, SchemaInv, SchemaTypeOK, OneLeader, StampInv, EntriesInv, Known,
                Stamped, EntryOf
  <1>2. ASSUME NEW n \in Node,
               Claim(n) \/ Raise(n) \/ Unlead(n) \/ MergeSchema(n) \/ Restart(n)
        PROVE  SchemaInv'
    BY <1>2, ClaimKeeps, MergingKeeps, RestartKeeps
  <1>3. ASSUME NEW n \in Node, NEW m \in Node, ReadSchema(n, m) PROVE SchemaInv'
    BY <1>3, MergingKeeps
  <1>4. ASSUME NEW w \in Op, Leading(w) PROVE SchemaInv'
    BY <1>4, LookKeeps, LeadingKeeps DEF Leading
  <1>5. ASSUME NEW w \in Op, NEW n \in Node, Order(w, n) \/ Accept(w, n) \/ Carried(w, n)
        PROVE  SchemaInv'
    BY <1>5, OrderKeeps, CarriedKeeps
  <1> QED BY <1>1, <1>2, <1>3, <1>4, <1>5 DEF SchemaNext

\* So it holds throughout.
LEMMA SchemaInvariant == SchemaSpec => []SchemaInv
  <1> USE SchemaAssumption
  <1>1. SchemaInit => SchemaInv
    <2> SUFFICES ASSUME SchemaInit PROVE SchemaInv
      OBVIOUS
    <2>1. PICK r \in Requests :
            op = [w \in Op |-> [at |-> "new", by |-> CHOOSE n \in Node : TRUE,
                               term |-> 0, count |-> 0, found |-> NoTable,
                               asked |-> r[w]]]
      BY DEF SchemaInit
    <2>2. (CHOOSE n \in Node : TRUE) \in Node
      OBVIOUS
    <2>3. \A w \in Op : op[w].at = "new" /\ op[w].count = 0 /\ op[w].by \in Node
      BY <2>1, <2>2
    <2>4. SchemaTypeOK
      <3>1. \A w \in Op : r[w] \in Doc \cup {NoTable}
        BY <2>1
      <3>2. op \in [Op -> OpType]
        <4>1. ASSUME NEW w \in Op, NEW k \in Node
              PROVE  [at |-> "new", by |-> k, term |-> 0, count |-> 0,
                      found |-> NoTable, asked |-> r[w]] \in OpType
          BY <3>1 DEF OpType
        <4> QED BY <2>1, <2>2, <4>1
      <3>3. NoEntry \in Entries
        BY DEF NoEntry, Entries
      <3>4. leg \in [Op -> [Node -> LegType]]
        BY DEF SchemaInit, LegType
      <3>5. /\ entry \in [Node -> Entries] /\ saved \in [Node -> Entries]
            /\ fetched \in [Node -> SUBSET Entries]
        BY <3>3 DEF SchemaInit
      <3>6. 0 \in 0 .. MaxTerm
        OBVIOUS
      <3>7. /\ lead \in [Node -> 0 .. MaxTerm] /\ fence \in [Node -> 0 .. MaxTerm]
            /\ count \in [Node -> Nat] /\ newest \in 0 .. MaxTerm
            /\ family \in [Node -> BOOLEAN]
        BY <3>6 DEF SchemaInit
      <3> QED BY <3>2, <3>4, <3>5, <3>7 DEF SchemaTypeOK, OpType, LegType
    <2>5. OneLeader
      <3>1. newest = 0 /\ \A n \in Node : lead[n] = 0
        BY DEF SchemaInit
      <3> QED BY <2>3, <3>1 DEF OneLeader
    <2>6. StampInv
      <3>1. /\ \A n \in Node : count[n] = 0
            /\ \A w \in Op, n \in Node : leg[w][n] = "none"
        BY DEF SchemaInit
      <3> QED BY <2>3, <3>1 DEF StampInv, Stamped
    <2>7. EntriesInv
      BY DEF SchemaInit, EntriesInv, Known
    <2> QED BY <2>4, <2>5, <2>6, <2>7 DEF SchemaInv
  <1> QED BY <1>1, SchemaStep, PTL DEF SchemaSpec

\* The schemas, the operations and what is carried of them keep their types.
THEOREM SchemaTypeCorrect == SchemaSpec => []SchemaTypeOK
  BY SchemaInvariant, PTL DEF SchemaInv

\* Two nodes that hold the name at one version hold the same of it, for any nodes
\* and operations, through lost and late deliveries, merges, refusals of the
\* database and restarts (router.cpp, schema_stamp; schema.cpp, merge).
THEOREM StampsNameOneEntry == SchemaSpec => []StampNamesOneEntry
  <1>1. SchemaInv => StampNamesOneEntry
    <2> SUFFICES ASSUME SchemaInv, NEW n \in Node, NEW m \in Node,
                        entry[n].term = entry[m].term, entry[n].count = entry[m].count
                 PROVE  entry[n] = entry[m]
      BY DEF StampNamesOneEntry
    <2> USE DEF SchemaInv
    <2>1. Known(entry[n]) /\ Known(entry[m])
      BY DEF EntriesInv
    <2>2. \A w \in Op : EntryOf(w).count = op[w].count /\ EntryOf(w).term = op[w].term
      BY DEF EntryOf
    <2>3. NoEntry.count = 0
      BY DEF NoEntry
    <2>4. CASE entry[n].count = 0
      BY <2>1, <2>2, <2>3, <2>4 DEF Known, Stamped
    <2>5. CASE entry[n].count # 0
      <3>1. PICK w \in Op : Stamped(w) /\ entry[n] = EntryOf(w)
        BY <2>1, <2>3, <2>5 DEF Known
      <3>2. PICK v \in Op : Stamped(v) /\ entry[m] = EntryOf(v)
        BY <2>1, <2>3, <2>5 DEF Known
      <3>3. op[w].term = op[v].term /\ op[w].count = op[v].count
        BY <2>2, <3>1, <3>2
      <3>4. op[w].at # "new" /\ op[v].at # "new"
        BY <3>1, <3>2 DEF StampInv
      <3>5. op[w].by = op[v].by
        BY <3>3, <3>4 DEF OneLeader
      <3>6. w = v
        BY <3>1, <3>3, <3>5 DEF StampInv
      <3> QED BY <3>1, <3>2, <3>6
    <2> QED BY <2>4, <2>5
  <1> QED BY <1>1, SchemaInvariant, PTL
=============================================================================
