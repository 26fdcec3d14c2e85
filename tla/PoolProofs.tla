------------------------------ MODULE PoolProofs ------------------------------
(***************************************************************************)
(* Proofs about the pool, for any tags and types.  The invariant says that *)
(* pointers never outlive the block stored under their tag, that a tag is  *)
(* valid once it is produced, and that a valid block has a producer as     *)
(* long as no exception was thrown.                                        *)
(***************************************************************************)
EXTENDS Pool, TLAPS

\* A block is not Absent: its address is not null.
LEMMA ContentIsNotAbsent == \A c \in Contents : c # Absent
  BY DEF Contents, Absent

\* create() under a tag nothing has leaves the other tags alone.
LEMMA Created ==
  ASSUME TypeOK, NEW tag \in Tags, NEW type \in Types, NEW valid \in BOOLEAN, Create(tag, type, valid)
  PROVE  /\ allocated' \in Nat
         /\ storage' \in [Tags -> Contents \cup {Absent}]
         /\ storage'[tag] # Absent
         /\ storage'[tag].cell = allocated + 1
         /\ storage'[tag].type = type
         /\ storage'[tag].valid = valid
         /\ \A t \in Tags : t # tag => storage'[t] = storage[t]
  <1> DEFINE c == [cell |-> allocated + 1, type |-> type, valid |-> valid]
  <1>1. c \in Contents
    BY DEF Contents, TypeOK
  <1>2. c # Absent
    BY <1>1, ContentIsNotAbsent
  <1>3. storage' = [storage EXCEPT ![tag] = c] /\ allocated' = allocated + 1
    BY DEF Create
  <1>4. storage'[tag] = c /\ \A t \in Tags : t # tag => storage'[t] = storage[t]
    BY <1>3 DEF TypeOK
  <1>5. storage' \in [Tags -> Contents \cup {Absent}] /\ allocated' \in Nat
    BY <1>1, <1>3 DEF TypeOK
  <1> QED
    BY <1>2, <1>4, <1>5

\* The initial state.
LEMMA InvariantInit == Init => IInv
  <1> SUFFICES ASSUME Init PROVE IInv
    OBVIOUS
  <1>1. TypeOK
    BY DEF Init, TypeOK, Errors
  <1>2. \A tag \in Tags : ~Valid(tag)
    BY DEF Init, Valid, Stored
  <1>3. OneBlockPerTag /\ FrozenIsProduced
    BY DEF Init, OneBlockPerTag, FrozenIsProduced
  <1>4. \A tag \in Tags : produced[tag] = 0
    BY DEF Init
  <1>5. 0 <= 1
    OBVIOUS
  <1>6. ProducedIsValid
    BY <1>4, <1>5, Zenon DEF ProducedIsValid
  <1>7. ValidIsWritten
    BY <1>2, Zenon DEF ValidIsWritten
  <1> QED
    BY <1>1, <1>3, <1>6, <1>7 DEF IInv

-----------------------------------------------------------------------------
(* What the steps of several actions have in common.                       *)

\* An exception that changes no block keeps the invariant.
LEMMA ThrowKeepsIInv ==
  ASSUME IInv, NEW e \in Errors \ {"none"}, Usable, Throw(e), UNCHANGED storage
  PROVE  IInv'
  <1>1. TypeOK'
    BY DEF IInv, TypeOK, Throw, written
  <1>2. OneBlockPerTag'
    BY DEF IInv, OneBlockPerTag, Stored, Throw, written
  <1>3. ProducedIsValid'
    BY DEF IInv, ProducedIsValid, Valid, Stored, Throw, written
  <1>4. ~Constructing'
    BY DEF Constructing, Throw
  <1>5. ValidIsWritten'
    BY <1>4, Zenon DEF ValidIsWritten
  <1>6. frozen => error # "invalid_state"
    BY DEF Usable, Constructing
  <1>7. FrozenIsProduced'
    BY <1>6 DEF IInv, FrozenIsProduced, Throw, written
  <1> QED
    BY <1>1, <1>2, <1>3, <1>5, <1>7 DEF IInv

\* Pointers to blocks are not disturbed by a block stored under a new tag.
LEMMA StoreKeepsPointers ==
  ASSUME OneBlockPerTag, NEW tag \in Tags, ~Stored(tag), TypeOK,
         \A t \in Tags : t # tag => storage'[t] = storage[t]
  PROVE  \A h \in readers \cup writers :
             Stored(h.tag)' /\ storage'[h.tag].cell = h.cell /\ storage'[h.tag].type = h.type
  <1> SUFFICES ASSUME NEW h \in readers \cup writers
               PROVE  Stored(h.tag)' /\ storage'[h.tag].cell = h.cell /\ storage'[h.tag].type = h.type
    OBVIOUS
  <1>1. Stored(h.tag) /\ storage[h.tag].cell = h.cell /\ storage[h.tag].type = h.type
    BY Zenon DEF OneBlockPerTag
  <1>2. h.tag \in Tags
    BY SMT DEF TypeOK
  <1>3. storage'[h.tag] = storage[h.tag]
    BY <1>1, <1>2
  <1> QED
    BY <1>1, <1>3 DEF Stored

-----------------------------------------------------------------------------
(* get()                                                                   *)

LEMMA GetFirstKeepsIInv ==
  ASSUME IInv, NEW tag \in Tags, NEW type \in Types, GetFirst(tag, type)
  PROVE  IInv'
  <1> DEFINE r == [tag |-> tag, type |-> type, cell |-> allocated + 1, late |-> frozen]
  <1>0. TypeOK /\ OneBlockPerTag /\ ProducedIsValid /\ ValidIsWritten /\ FrozenIsProduced
    BY DEF IInv
  <1>1. /\ Usable /\ ~Stored(tag) /\ Create(tag, type, FALSE)
        /\ readers' = readers \cup {r}
        /\ frozen' = frozen /\ error' = error /\ writers' = writers /\ produced' = produced
    BY DEF GetFirst, Read, written
  <1>2. /\ allocated' \in Nat
        /\ storage' \in [Tags -> Contents \cup {Absent}]
        /\ storage'[tag] # Absent
        /\ storage'[tag].cell = allocated + 1
        /\ storage'[tag].type = type
        /\ storage'[tag].valid = FALSE
        /\ \A t \in Tags : t # tag => storage'[t] = storage[t]
    BY <1>0, <1>1, Created
  <1>3. TypeOK'
    BY <1>0, <1>1, <1>2 DEF TypeOK
  <1>4. OneBlockPerTag'
    <2>1. \A h \in readers \cup writers :
             Stored(h.tag)' /\ storage'[h.tag].cell = h.cell /\ storage'[h.tag].type = h.type
      BY <1>0, <1>1, <1>2, StoreKeepsPointers
    <2>2. Stored(r.tag)' /\ storage'[r.tag].cell = r.cell /\ storage'[r.tag].type = r.type
      BY <1>2 DEF Stored
    <2>3. readers' \cup writers' = (readers \cup writers) \cup {r}
      BY <1>1
    <2>4. ASSUME NEW h \in readers' \cup writers'
          PROVE  Stored(h.tag)' /\ storage'[h.tag].cell = h.cell /\ storage'[h.tag].type = h.type
      <3>1. CASE h = r
        BY <2>2, <3>1
      <3>2. CASE h \in readers \cup writers
        BY <2>1, <3>2
      <3> QED
        BY <2>3, <3>1, <3>2
    <2> QED
      BY <2>4, Zenon DEF OneBlockPerTag
  <1>5. \A t \in Tags : Valid(t)' = Valid(t)
    BY <1>1, <1>2 DEF Valid, Stored
  <1>6. ProducedIsValid'
    BY <1>0, <1>1, <1>5, Zenon DEF ProducedIsValid
  <1>7. ValidIsWritten'
    <2> SUFFICES ASSUME Constructing', NEW t \in Tags, Valid(t)'
                 PROVE  \E w \in writers' : w.cell = storage'[t].cell
      BY Zenon DEF ValidIsWritten
    <2>1. Constructing /\ Valid(t)
      BY <1>1, <1>5 DEF Constructing
    <2>2. storage'[t] = storage[t]
      BY <1>1, <1>2, <2>1 DEF Valid
    <2>3. \E w \in writers : w.cell = storage[t].cell
      BY <1>0, <2>1, Zenon DEF ValidIsWritten
    <2> QED
      BY <1>1, <2>2, <2>3
  <1>8. FrozenIsProduced'
    BY <1>0, <1>1 DEF FrozenIsProduced
  <1> QED
    BY <1>3, <1>4, <1>6, <1>7, <1>8 DEF IInv

LEMMA GetKeepsIInv ==
  ASSUME IInv, NEW tag \in Tags, NEW type \in Types, Get(tag, type)
  PROVE  IInv'
  <1> DEFINE r == [tag |-> tag, type |-> type, cell |-> storage[tag].cell, late |-> frozen]
  <1>0. TypeOK /\ OneBlockPerTag /\ ProducedIsValid /\ ValidIsWritten /\ FrozenIsProduced
    BY DEF IInv
  <1>1. /\ Usable /\ Stored(tag) /\ storage[tag].type = type
        /\ readers' = readers \cup {r}
        /\ storage' = storage /\ frozen' = frozen /\ error' = error /\ allocated' = allocated
        /\ writers' = writers /\ produced' = produced
    BY DEF Get, Read, written
  <1>2. storage[tag].cell \in Nat
    BY <1>0, <1>1 DEF TypeOK, Contents, Stored
  <1>3. TypeOK'
    BY <1>0, <1>1, <1>2 DEF TypeOK
  <1>4. OneBlockPerTag'
    BY <1>0, <1>1 DEF OneBlockPerTag, Stored
  <1>5. ProducedIsValid'
    BY <1>0, <1>1 DEF ProducedIsValid, Valid, Stored
  <1>6. ValidIsWritten'
    BY <1>0, <1>1 DEF ValidIsWritten, Constructing, Valid, Stored
  <1>7. FrozenIsProduced'
    BY <1>0, <1>1 DEF FrozenIsProduced
  <1> QED
    BY <1>3, <1>4, <1>5, <1>6, <1>7 DEF IInv

-----------------------------------------------------------------------------
(* put()                                                                   *)

LEMMA PutFirstKeepsIInv ==
  ASSUME IInv, NEW tag \in Tags, NEW type \in Types, NEW args \in BOOLEAN, PutFirst(tag, type, args)
  PROVE  IInv'
  <1> DEFINE w == [tag |-> tag, type |-> type, cell |-> allocated + 1]
  <1>0. TypeOK /\ OneBlockPerTag /\ ProducedIsValid /\ ValidIsWritten /\ FrozenIsProduced
    BY DEF IInv
  <1>1. /\ Constructing /\ ~Stored(tag) /\ Create(tag, type, TRUE)
        /\ writers' = writers \cup {w}
        /\ produced' = [produced EXCEPT ![tag] = @ + 1]
        /\ frozen' = frozen /\ error' = error /\ readers' = readers
    BY DEF PutFirst, Written
  <1>2. /\ allocated' \in Nat
        /\ storage' \in [Tags -> Contents \cup {Absent}]
        /\ storage'[tag] # Absent
        /\ storage'[tag].cell = allocated + 1
        /\ storage'[tag].type = type
        /\ storage'[tag].valid = TRUE
        /\ \A t \in Tags : t # tag => storage'[t] = storage[t]
    BY <1>0, <1>1, Created
  <1>3. TypeOK'
    <2>1. w \in [tag: Tags, type: Types, cell: Nat]
      BY <1>0 DEF TypeOK
    <2>2. produced' \in [Tags -> Nat]
      BY <1>0, <1>1 DEF TypeOK
    <2> QED
      BY <1>0, <1>1, <1>2, <2>1, <2>2 DEF TypeOK
  <1>4. OneBlockPerTag'
    <2>1. \A h \in readers \cup writers :
             Stored(h.tag)' /\ storage'[h.tag].cell = h.cell /\ storage'[h.tag].type = h.type
      BY <1>0, <1>1, <1>2, StoreKeepsPointers
    <2>2. Stored(w.tag)' /\ storage'[w.tag].cell = w.cell /\ storage'[w.tag].type = w.type
      BY <1>2 DEF Stored
    <2>3. readers' \cup writers' = (readers \cup writers) \cup {w}
      BY <1>1
    <2>4. ASSUME NEW h \in readers' \cup writers'
          PROVE  Stored(h.tag)' /\ storage'[h.tag].cell = h.cell /\ storage'[h.tag].type = h.type
      <3>1. CASE h = w
        BY <2>2, <3>1
      <3>2. CASE h \in readers \cup writers
        BY <2>1, <3>2
      <3> QED
        BY <2>3, <3>1, <3>2
    <2> QED
      BY <2>4, Zenon DEF OneBlockPerTag
  <1>5. \A t \in Tags : t # tag => Valid(t)' = Valid(t) /\ produced'[t] = produced[t]
    BY <1>0, <1>1, <1>2 DEF Valid, Stored, TypeOK
  <1>6. ProducedIsValid'
    <2>1. produced[tag] = 0
      BY <1>0, <1>1 DEF ProducedIsValid, Valid
    <2>2. produced'[tag] = 1
      BY <1>0, <1>1, <2>1 DEF TypeOK
    <2>3. Valid(tag)'
      BY <1>2 DEF Valid, Stored
    <2>4. 1 <= 1
      OBVIOUS
    <2> SUFFICES ASSUME NEW t \in Tags
                 PROVE  produced'[t] <= 1 /\ (produced'[t] = 0 \/ Valid(t)')
      BY Zenon DEF ProducedIsValid
    <2>5. CASE t = tag
      BY <2>2, <2>3, <2>4, <2>5, Zenon
    <2>6. CASE t # tag
      <3>1. produced[t] <= 1 /\ (produced[t] = 0 \/ Valid(t))
        BY <1>0, Zenon DEF ProducedIsValid
      <3> QED
        BY <1>5, <2>6, <3>1, Zenon
    <2> QED
      BY <2>5, <2>6
  <1>7. ValidIsWritten'
    <2> SUFFICES ASSUME NEW t \in Tags, Valid(t)'
                 PROVE  \E v \in writers' : v.cell = storage'[t].cell
      BY Zenon DEF ValidIsWritten
    <2>1. CASE t = tag
      <3>1. w \in writers' /\ w.cell = storage'[tag].cell
        BY <1>1, <1>2
      <3> QED
        BY <2>1, <3>1, Zenon
    <2>2. CASE t # tag
      <3>1. \E v \in writers : v.cell = storage[t].cell
        BY <1>0, <1>1, <1>5, <2>2, Zenon DEF ValidIsWritten
      <3> QED
        BY <1>1, <1>2, <2>2, <3>1
    <2> QED
      BY <2>1, <2>2
  <1>8. FrozenIsProduced'
    BY <1>1 DEF FrozenIsProduced, Constructing
  <1> QED
    BY <1>3, <1>4, <1>6, <1>7, <1>8 DEF IInv

\* What put() does to a block that a reader has: it becomes valid.
LEMMA Validated ==
  ASSUME TypeOK, NEW tag \in Tags, Stored(tag), storage' = [storage EXCEPT ![tag].valid = TRUE]
  PROVE  /\ storage' \in [Tags -> Contents \cup {Absent}]
         /\ Valid(tag)'
         /\ \A t \in Tags : t # tag => storage'[t] = storage[t]
         /\ \A t \in Tags : Stored(t) => /\ Stored(t)'
                                         /\ storage'[t].cell = storage[t].cell
                                         /\ storage'[t].type = storage[t].type
  <1> DEFINE c == [storage[tag] EXCEPT !.valid = TRUE]
  <1>1. storage[tag] \in Contents
    BY DEF TypeOK, Stored
  <1>2. c \in Contents /\ c.cell = storage[tag].cell /\ c.type = storage[tag].type /\ c.valid = TRUE
    BY <1>1 DEF Contents
  <1>3. c # Absent
    BY <1>2, ContentIsNotAbsent
  <1>4. storage'[tag] = c /\ \A t \in Tags : t # tag => storage'[t] = storage[t]
    BY DEF TypeOK
  <1>5. storage' \in [Tags -> Contents \cup {Absent}]
    BY <1>2 DEF TypeOK
  <1> HIDE DEF c
  <1>6. Valid(tag)'
    BY <1>2, <1>3, <1>4 DEF Valid, Stored
  <1>7. ASSUME NEW t \in Tags, Stored(t)
        PROVE  Stored(t)' /\ storage'[t].cell = storage[t].cell /\ storage'[t].type = storage[t].type
    BY <1>2, <1>3, <1>4, <1>7 DEF Stored
  <1> QED
    BY <1>4, <1>5, <1>6, <1>7, Zenon

LEMMA PutAfterGetKeepsIInv ==
  ASSUME IInv, NEW tag \in Tags, NEW type \in Types, NEW args \in BOOLEAN, PutAfterGet(tag, type, args)
  PROVE  IInv'
  <1> DEFINE w == [tag |-> tag, type |-> type, cell |-> storage[tag].cell]
  <1>0. TypeOK /\ OneBlockPerTag /\ ProducedIsValid /\ ValidIsWritten /\ FrozenIsProduced
    BY DEF IInv
  <1>1. /\ Constructing /\ Stored(tag) /\ ~Valid(tag)
        /\ storage' = [storage EXCEPT ![tag].valid = TRUE]
    BY DEF PutAfterGet, Valid
  <1>2. /\ storage' \in [Tags -> Contents \cup {Absent}]
        /\ Valid(tag)'
        /\ \A t \in Tags : t # tag => storage'[t] = storage[t]
        /\ \A t \in Tags : Stored(t) => /\ Stored(t)'
                                        /\ storage'[t].cell = storage[t].cell
                                        /\ storage'[t].type = storage[t].type
    BY <1>0, <1>1, Validated
  <1>3. \A h \in readers \cup writers :
            Stored(h.tag)' /\ storage'[h.tag].cell = h.cell /\ storage'[h.tag].type = h.type
    <2> SUFFICES ASSUME NEW h \in readers \cup writers
                 PROVE  Stored(h.tag)' /\ storage'[h.tag].cell = h.cell /\ storage'[h.tag].type = h.type
      OBVIOUS
    <2>1. Stored(h.tag) /\ storage[h.tag].cell = h.cell /\ storage[h.tag].type = h.type
      BY <1>0, Zenon DEF OneBlockPerTag
    <2>2. h.tag \in Tags
      BY <1>0 DEF TypeOK
    <2> QED
      BY <1>2, <2>1, <2>2
  <1>4. \A t \in Tags : t # tag => Valid(t)' = Valid(t)
    BY <1>2 DEF Valid, Stored
  <1>5. produced[tag] = 0
    BY <1>0, <1>1, Zenon DEF ProducedIsValid
  <1>6. CASE storage[tag].type = type
    <2>1. /\ writers' = writers \cup {w}
          /\ produced' = [produced EXCEPT ![tag] = @ + 1]
          /\ frozen' = frozen /\ error' = error /\ allocated' = allocated /\ readers' = readers
      BY <1>6 DEF PutAfterGet, Written
    <2>2. w \in [tag: Tags, type: Types, cell: Nat]
      BY <1>0, <1>1 DEF TypeOK, Stored, Contents
    <2>3. produced' \in [Tags -> Nat]
      BY <1>0, <2>1 DEF TypeOK
    <2>4. TypeOK'
      BY <1>0, <1>2, <2>1, <2>2, <2>3 DEF TypeOK
    <2>5. OneBlockPerTag'
      <3>1. Stored(w.tag)' /\ storage'[w.tag].cell = w.cell /\ storage'[w.tag].type = w.type
        BY <1>1, <1>2, <1>6
      <3>2. readers' \cup writers' = (readers \cup writers) \cup {w}
        BY <2>1
      <3>3. ASSUME NEW h \in readers' \cup writers'
            PROVE  Stored(h.tag)' /\ storage'[h.tag].cell = h.cell /\ storage'[h.tag].type = h.type
        <4>1. CASE h = w
          BY <3>1, <4>1
        <4>2. CASE h \in readers \cup writers
          BY <1>3, <4>2
        <4> QED
          BY <3>2, <4>1, <4>2
      <3> QED
        BY <3>3, Zenon DEF OneBlockPerTag
    <2>6. ProducedIsValid'
      <3>1. produced'[tag] = 1 /\ \A t \in Tags : t # tag => produced'[t] = produced[t]
        BY <1>0, <1>5, <2>1 DEF TypeOK
      <3>2. 1 <= 1
        OBVIOUS
      <3> SUFFICES ASSUME NEW t \in Tags
                   PROVE  produced'[t] <= 1 /\ (produced'[t] = 0 \/ Valid(t)')
        BY Zenon DEF ProducedIsValid
      <3>3. CASE t = tag
        BY <1>2, <3>1, <3>2, <3>3, Zenon
      <3>4. CASE t # tag
        <4>1. produced[t] <= 1 /\ (produced[t] = 0 \/ Valid(t))
          BY <1>0, Zenon DEF ProducedIsValid
        <4> QED
          BY <1>4, <3>1, <3>4, <4>1, Zenon
      <3> QED
        BY <3>3, <3>4
    <2>7. ValidIsWritten'
      <3> SUFFICES ASSUME NEW t \in Tags, Valid(t)'
                   PROVE  \E v \in writers' : v.cell = storage'[t].cell
        BY Zenon DEF ValidIsWritten
      <3>1. CASE t = tag
        <4>1. w \in writers' /\ w.cell = storage'[tag].cell
          BY <1>1, <1>2, <2>1
        <4> QED
          BY <3>1, <4>1, Zenon
      <3>2. CASE t # tag
        <4>1. \E v \in writers : v.cell = storage[t].cell
          BY <1>0, <1>1, <1>4, <3>2, Zenon DEF ValidIsWritten
        <4> QED
          BY <1>2, <2>1, <3>2, <4>1
      <3> QED
        BY <3>1, <3>2
    <2>8. FrozenIsProduced'
      BY <1>1, <2>1 DEF FrozenIsProduced, Constructing
    <2> QED
      BY <2>4, <2>5, <2>6, <2>7, <2>8 DEF IInv
  <1>7. CASE storage[tag].type # type
    <2>1. /\ error' = "bad_any_cast" /\ frozen' = frozen /\ allocated' = allocated
          /\ readers' = readers /\ writers' = writers /\ produced' = produced
      BY <1>7 DEF PutAfterGet, Throw, written
    <2>2. TypeOK'
      BY <1>0, <1>2, <2>1 DEF TypeOK, Errors
    <2>3. OneBlockPerTag'
      BY <1>3, <2>1, Zenon DEF OneBlockPerTag
    <2>4. ProducedIsValid'
      <3> SUFFICES ASSUME NEW t \in Tags
                   PROVE  produced'[t] <= 1 /\ (produced'[t] = 0 \/ Valid(t)')
        BY Zenon DEF ProducedIsValid
      <3>1. produced[t] <= 1 /\ (produced[t] = 0 \/ Valid(t))
        BY <1>0, Zenon DEF ProducedIsValid
      <3> QED
        BY <1>2, <1>4, <2>1, <3>1, Zenon
    <2>5. ValidIsWritten'
      BY <2>1 DEF ValidIsWritten, Constructing
    <2>6. FrozenIsProduced'
      BY <1>1, <2>1 DEF FrozenIsProduced, Constructing
    <2> QED
      BY <2>2, <2>3, <2>4, <2>5, <2>6 DEF IInv
  <1> QED
    BY <1>6, <1>7

-----------------------------------------------------------------------------
(* alias() and freeze()                                                    *)

LEMMA AliasKeepsIInv ==
  ASSUME IInv, NEW from \in Tags, NEW to \in Tags, Alias(from, to)
  PROVE  IInv'
  <1>0. TypeOK /\ OneBlockPerTag /\ ProducedIsValid /\ ValidIsWritten /\ FrozenIsProduced
    BY DEF IInv
  <1>1. /\ Constructing /\ Stored(from) /\ ~Stored(to)
        /\ storage' = [storage EXCEPT ![to] = storage[from]]
        /\ frozen' = frozen /\ error' = error /\ allocated' = allocated
        /\ readers' = readers /\ writers' = writers /\ produced' = produced
    BY DEF Alias, written
  <1>2. storage'[to] = storage[from] /\ \A t \in Tags : t # to => storage'[t] = storage[t]
    BY <1>0, <1>1 DEF TypeOK
  <1>3. TypeOK'
    BY <1>0, <1>1 DEF TypeOK
  <1>4. OneBlockPerTag'
    <2>1. \A h \in readers \cup writers :
             Stored(h.tag)' /\ storage'[h.tag].cell = h.cell /\ storage'[h.tag].type = h.type
      BY <1>0, <1>1, <1>2, StoreKeepsPointers
    <2> QED
      BY <1>1, <2>1, Zenon DEF OneBlockPerTag
  <1>5. Valid(to)' = Valid(from) /\ \A t \in Tags : t # to => Valid(t)' = Valid(t)
    BY <1>2 DEF Valid, Stored
  <1>6. ProducedIsValid'
    <2> SUFFICES ASSUME NEW t \in Tags
                 PROVE  produced[t] <= 1 /\ (produced[t] = 0 \/ Valid(t)')
      BY <1>1, Zenon DEF ProducedIsValid
    <2>1. produced[t] <= 1 /\ (produced[t] = 0 \/ Valid(t))
      BY <1>0, Zenon DEF ProducedIsValid
    <2>2. ~Valid(to)
      BY <1>1 DEF Valid
    <2> QED
      BY <1>5, <2>1, <2>2, Zenon
  <1>7. ValidIsWritten'
    <2> SUFFICES ASSUME NEW t \in Tags, Valid(t)'
                 PROVE  \E w \in writers : w.cell = storage'[t].cell
      BY <1>1, Zenon DEF ValidIsWritten
    <2>1. \A s \in Tags : Valid(s) => \E w \in writers : w.cell = storage[s].cell
      BY <1>0, <1>1, Zenon DEF ValidIsWritten
    <2> QED
      BY <1>2, <1>5, <2>1
  <1>8. FrozenIsProduced'
    BY <1>0, <1>1 DEF FrozenIsProduced
  <1> QED
    BY <1>3, <1>4, <1>6, <1>7, <1>8 DEF IInv

\* Every block being valid, what the readers have has a producer.
LEMMA FreezeKeepsIInv == IInv /\ Freeze => IInv'
  <1> SUFFICES ASSUME IInv, Freeze PROVE IInv'
    OBVIOUS
  <1>0. TypeOK /\ OneBlockPerTag /\ ProducedIsValid /\ ValidIsWritten /\ FrozenIsProduced
    BY DEF IInv
  <1>1. /\ Constructing /\ \A tag \in Tags : Stored(tag) => Valid(tag)
        /\ frozen' = TRUE
        /\ storage' = storage /\ error' = error /\ allocated' = allocated
        /\ readers' = readers /\ writers' = writers /\ produced' = produced
    BY DEF Freeze, written
  <1>2. TypeOK' /\ OneBlockPerTag'
    BY <1>0, <1>1 DEF TypeOK, OneBlockPerTag, Stored
  <1>3. ProducedIsValid'
    BY <1>0, <1>1 DEF ProducedIsValid, Valid, Stored
  <1>4. ValidIsWritten'
    BY <1>1 DEF ValidIsWritten, Constructing
  <1>5. ASSUME NEW r \in readers
        PROVE  \E w \in writers : w.cell = r.cell
    <2>1. r.tag \in Tags
      BY <1>0 DEF TypeOK
    <2>2. Stored(r.tag) /\ storage[r.tag].cell = r.cell
      BY <1>0, <1>5, Zenon DEF OneBlockPerTag
    <2>3. Valid(r.tag)
      BY <1>1, <2>1, <2>2
    <2>4. \E w \in writers : w.cell = storage[r.tag].cell
      BY <1>0, <1>1, <2>1, <2>3, Zenon DEF ValidIsWritten
    <2> QED
      BY <2>2, <2>4
  <1>6. FrozenIsProduced'
    BY <1>1, <1>5 DEF FrozenIsProduced
  <1> QED
    BY <1>2, <1>3, <1>4, <1>6 DEF IInv

LEMMA FreezeFailsKeepsIInv == IInv /\ FreezeFails => IInv'
  <1> SUFFICES ASSUME IInv, FreezeFails PROVE IInv'
    OBVIOUS
  <1>1. /\ frozen' = TRUE /\ error' = "invalid_state"
        /\ storage' = storage /\ allocated' = allocated
        /\ readers' = readers /\ writers' = writers /\ produced' = produced
    BY DEF FreezeFails, written
  <1>2. TypeOK' /\ OneBlockPerTag'
    BY <1>1 DEF IInv, TypeOK, OneBlockPerTag, Stored, Errors
  <1>3. ProducedIsValid'
    BY <1>1 DEF IInv, ProducedIsValid, Valid, Stored
  <1>4. ValidIsWritten' /\ FrozenIsProduced'
    BY <1>1 DEF ValidIsWritten, FrozenIsProduced, Constructing
  <1> QED
    BY <1>2, <1>3, <1>4 DEF IInv

-----------------------------------------------------------------------------
LEMMA InvariantNext == IInv /\ [Next]_vars => IInv'
  <1> SUFFICES ASSUME IInv, [Next]_vars PROVE IInv'
    OBVIOUS
  <1>1. ASSUME NEW tag \in Tags, NEW type \in Types, GetFirst(tag, type) PROVE IInv'
    BY <1>1, GetFirstKeepsIInv
  <1>2. ASSUME NEW tag \in Tags, NEW type \in Types, Get(tag, type) PROVE IInv'
    BY <1>2, GetKeepsIInv
  <1>3. ASSUME NEW tag \in Tags, NEW type \in Types, GetOfOtherType(tag, type) PROVE IInv'
    BY <1>3, ThrowKeepsIInv DEF GetOfOtherType, Errors
  <1>4. ASSUME NEW tag \in Tags, NEW type \in Types, NEW args \in BOOLEAN, PutFirst(tag, type, args)
        PROVE  IInv'
    BY <1>4, PutFirstKeepsIInv
  <1>5. ASSUME NEW tag \in Tags, NEW type \in Types, NEW args \in BOOLEAN, PutAfterGet(tag, type, args)
        PROVE  IInv'
    BY <1>5, PutAfterGetKeepsIInv
  <1>6. ASSUME NEW tag \in Tags, NEW args \in BOOLEAN, PutRefused(tag, args) PROVE IInv'
    <2> DEFINE e == IF Valid(tag) THEN "duplicated_tag" ELSE "constructor_tag"
    <2>1. e \in Errors \ {"none"}
      BY DEF Errors
    <2>2. Usable /\ Throw(e) /\ UNCHANGED storage
      BY <1>6 DEF PutRefused, Usable
    <2> QED
      BY <2>1, <2>2, ThrowKeepsIInv
  <1>7. ASSUME NEW from \in Tags, NEW to \in Tags, Alias(from, to) PROVE IInv'
    BY <1>7, AliasKeepsIInv
  <1>8. ASSUME NEW from \in Tags, NEW to \in Tags, AliasRefused(from, to) PROVE IInv'
    <2> DEFINE e == IF ~Stored(from) THEN "tag_not_found" ELSE "duplicated_tag"
    <2>1. e \in Errors \ {"none"}
      BY DEF Errors
    <2>2. Usable /\ Throw(e) /\ UNCHANGED storage
      BY <1>8 DEF AliasRefused, Usable
    <2> QED
      BY <2>1, <2>2, ThrowKeepsIInv
  <1>9. CASE UNCHANGED vars
    <2>1. /\ frozen' = frozen /\ error' = error /\ storage' = storage /\ allocated' = allocated
          /\ readers' = readers /\ writers' = writers /\ produced' = produced
      BY <1>9 DEF vars, written
    <2>2. TypeOK' /\ OneBlockPerTag'
      BY <2>1 DEF IInv, TypeOK, OneBlockPerTag, Stored
    <2>3. ProducedIsValid'
      BY <2>1 DEF IInv, ProducedIsValid, Valid, Stored
    <2>4. ValidIsWritten' /\ FrozenIsProduced'
      BY <2>1 DEF IInv, ValidIsWritten, FrozenIsProduced, Constructing, Valid, Stored
    <2> QED
      BY <2>2, <2>3, <2>4 DEF IInv
  <1> QED
    BY <1>1, <1>2, <1>3, <1>4, <1>5, <1>6, <1>7, <1>8, <1>9,
       FreezeKeepsIInv, FreezeFailsKeepsIInv, Zenon DEF Next

\* The invariant holds for any tags and types, whatever modules call get(),
\* put() and alias() in whatever order.
THEOREM Invariant == Spec => []IInv
  BY InvariantInit, InvariantNext, PTL DEF Spec

\* The blocks, and what is handed out of them, keep their type.
THEOREM TypeCorrect == Spec => []TypeOK
  <1>1. IInv => TypeOK
    BY DEF IInv
  <1> QED
    BY <1>1, Invariant, PTL

\* All who have a pointer for a tag share its block, with its type.
THEOREM PointersAgree == Spec => []OneBlockPerTag
  <1>1. IInv => OneBlockPerTag
    BY DEF IInv
  <1> QED
    BY <1>1, Invariant, PTL

\* Nothing is produced twice under one tag.
THEOREM ProducedOnce == Spec => []OneProducerPerTag
  <1>1. IInv => OneProducerPerTag
    BY Zenon DEF IInv, ProducedIsValid, OneProducerPerTag
  <1> QED
    BY <1>1, Invariant, PTL

\* After freeze() returned, what modules read is produced.
THEOREM FrozenPoolIsProduced == Spec => []FrozenIsProduced
  <1>1. IInv => FrozenIsProduced
    BY DEF IInv
  <1> QED
    BY <1>1, Invariant, PTL
===============================================================================
