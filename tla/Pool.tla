--------------------------------- MODULE Pool ---------------------------------
(***************************************************************************)
(* The memory pool.  While MoMEMta is constructed, modules ask for blocks  *)
(* to read (get) and for the ones they produce (put), in the order they    *)
(* are instantiated in: a block may be asked for before it is produced.    *)
(* freeze() ends the construction.  Afterwards the user, who has a const   *)
(* reference, may still call get().                                        *)
(*                                                                         *)
(* A tag stands for the module and the parameter of an InputTag: its index *)
(* does not take part in equality, it only makes get<T>() ask for a        *)
(* vector<T>.  A type here is the type of a block, vectors included.       *)
(* remove(), remove_if_invalid() and reserve() are private and never       *)
(* called, so no block is ever empty.                                      *)
(***************************************************************************)
EXTENDS Naturals

CONSTANTS
    Tags,       \* module and parameter of the InputTags
    Types       \* types of the blocks

VARIABLES
    storage,    \* m_storage: for each tag its block, or Absent
    frozen,     \* m_frozen
    error,      \* the exception that was thrown last, or "none"
    allocated,  \* history: number of blocks allocated so far
    readers,    \* history: the Values returned by get()
    writers,    \* history: the pointers returned by put()
    produced    \* history: for each tag the number of pointers returned by put()

written == <<writers, produced>>
vars == <<storage, frozen, error, allocated, readers, written>>

Absent == [cell |-> 0]

\* PoolContent: ptr points to the block, of some type, allocated cell-th.
Contents == [cell: Nat \ {0}, type: Types, valid: BOOLEAN]

Errors == {"none", "duplicated_tag", "constructor_tag", "bad_any_cast", "tag_not_found", "invalid_state"}

Stored(tag) == storage[tag] # Absent

Valid(tag) == Stored(tag) /\ storage[tag].valid = TRUE

Init ==
    /\ storage = [tag \in Tags |-> Absent]
    /\ frozen = FALSE
    /\ error = "none"
    /\ allocated = 0
    /\ readers = {}
    /\ writers = {}
    /\ produced = [tag \in Tags |-> 0]

\* An exception leaves the constructor of MoMEMta; freeze() is the last call of
\* a construction that succeeds.
Constructing == ~frozen /\ error = "none"

\* Once MoMEMta is constructed its user has the pool.
Usable == Constructing \/ (frozen /\ error # "invalid_state")

Throw(e) == error' = e /\ UNCHANGED <<frozen, allocated, readers, written>>

\* create(): a new block.
Create(tag, type, valid) ==
    /\ allocated' = allocated + 1
    /\ storage' = [storage EXCEPT ![tag] = [cell |-> allocated + 1, type |-> type, valid |-> valid]]

Read(tag, type, cell) == readers' = readers \cup {[tag |-> tag, type |-> type, cell |-> cell, late |-> frozen]}

Written(tag, type, cell) ==
    /\ writers' = writers \cup {[tag |-> tag, type |-> type, cell |-> cell]}
    /\ produced' = [produced EXCEPT ![tag] = @ + 1]

-----------------------------------------------------------------------------
\* get(): the block is created, invalid, if nothing has the tag yet.
GetFirst(tag, type) ==
    /\ Usable
    /\ ~Stored(tag)
    /\ Create(tag, type, FALSE)
    /\ Read(tag, type, allocated + 1)
    /\ UNCHANGED <<frozen, error, written>>

\* raw_get(): the block that is there, whatever its validity.
Get(tag, type) ==
    /\ Usable
    /\ Stored(tag) /\ storage[tag].type = type
    /\ Read(tag, type, storage[tag].cell)
    /\ UNCHANGED <<storage, frozen, error, allocated, written>>

\* raw_get() of another type than the block's.
GetOfOtherType(tag, type) ==
    /\ Usable
    /\ Stored(tag) /\ storage[tag].type # type
    /\ Throw("bad_any_cast")
    /\ UNCHANGED storage

-----------------------------------------------------------------------------
\* put() of a tag nothing has: a valid block, constructed with the arguments.
PutFirst(tag, type, args) ==
    /\ Constructing
    /\ ~Stored(tag)
    /\ Create(tag, type, TRUE)
    /\ Written(tag, type, allocated + 1)
    /\ UNCHANGED <<frozen, error, readers>>

\* Mutant: the block a reader already has is replaced by a new one.
PutNewBlock(tag, type, args) ==
    /\ Constructing
    /\ Stored(tag) /\ ~Valid(tag) /\ ~args
    /\ Create(tag, type, TRUE)
    /\ Written(tag, type, allocated + 1)
    /\ UNCHANGED <<frozen, error, readers>>

\* Mutant: the validity is not looked at.
PutAgain(tag, type, args) ==
    /\ Constructing
    /\ Stored(tag) /\ ~args
    /\ storage' = [storage EXCEPT ![tag].valid = TRUE]
    /\ IF storage[tag].type = type
       THEN /\ Written(tag, type, storage[tag].cell)
            /\ UNCHANGED <<frozen, error, allocated, readers>>
       ELSE Throw("bad_any_cast")

\* put() of a tag that was read before: the block becomes valid, before the
\* any_cast to the type of the producer.
PutAfterGet(tag, type, args) ==
    /\ Constructing
    /\ Stored(tag) /\ ~Valid(tag) /\ ~args
    /\ storage' = [storage EXCEPT ![tag].valid = TRUE]
    /\ IF storage[tag].type = type
       THEN /\ Written(tag, type, storage[tag].cell)
            /\ UNCHANGED <<frozen, error, allocated, readers>>
       ELSE Throw("bad_any_cast")

\* put() of a tag that is produced, or that needs a constructor too late.
PutRefused(tag, args) ==
    /\ Constructing
    /\ Stored(tag) /\ (Valid(tag) \/ args)
    /\ Throw(IF Valid(tag) THEN "duplicated_tag" ELSE "constructor_tag")
    /\ UNCHANGED storage

-----------------------------------------------------------------------------
\* alias(), of tags without an index: to gets the block and the validity that
\* from has now.
Alias(from, to) ==
    /\ Constructing
    /\ Stored(from) /\ ~Stored(to)
    /\ storage' = [storage EXCEPT ![to] = storage[from]]
    /\ UNCHANGED <<frozen, error, allocated, readers, written>>

AliasRefused(from, to) ==
    /\ Constructing
    /\ ~Stored(from) \/ Stored(to)
    /\ Throw(IF ~Stored(from) THEN "tag_not_found" ELSE "duplicated_tag")
    /\ UNCHANGED storage

\* Mutant: an invalid block is only logged.
FreezeUnchecked ==
    /\ Constructing
    /\ frozen' = TRUE
    /\ UNCHANGED <<storage, error, allocated, readers, written>>

\* freeze(), when all blocks are valid.
Freeze ==
    /\ Constructing
    /\ \A tag \in Tags : Stored(tag) => Valid(tag)
    /\ frozen' = TRUE
    /\ UNCHANGED <<storage, error, allocated, readers, written>>

\* freeze() with an invalid block: frozen is set all the same.
FreezeFails ==
    /\ Constructing
    /\ \E tag \in Tags : Stored(tag) /\ ~Valid(tag)
    /\ frozen' = TRUE
    /\ error' = "invalid_state"
    /\ UNCHANGED <<storage, allocated, readers, written>>

-----------------------------------------------------------------------------
Next ==
    \/ \E tag \in Tags, type \in Types : GetFirst(tag, type)
    \/ \E tag \in Tags, type \in Types : Get(tag, type)
    \/ \E tag \in Tags, type \in Types : GetOfOtherType(tag, type)
    \/ \E tag \in Tags, type \in Types, args \in BOOLEAN : PutFirst(tag, type, args)
    \/ \E tag \in Tags, type \in Types, args \in BOOLEAN : PutAfterGet(tag, type, args)
    \/ \E tag \in Tags, args \in BOOLEAN : PutRefused(tag, args)
    \/ \E from, to \in Tags : Alias(from, to)
    \/ \E from, to \in Tags : AliasRefused(from, to)
    \/ Freeze
    \/ FreezeFails
    \/ ~Usable /\ UNCHANGED vars

Spec == Init /\ [][Next]_vars

-----------------------------------------------------------------------------
(* Properties                                                              *)

\* The state has its type.
TypeOK ==
    /\ storage \in [Tags -> Contents \cup {Absent}]
    /\ frozen \in BOOLEAN
    /\ error \in Errors
    /\ allocated \in Nat
    /\ readers \subseteq [tag: Tags, type: Types, cell: Nat, late: BOOLEAN]
    /\ writers \subseteq [tag: Tags, type: Types, cell: Nat]
    /\ produced \in [Tags -> Nat]

\* In whatever order get() and put() come, everybody who has a pointer for a
\* tag has the block now stored under it, and takes it for what it is: what the
\* producer writes is what all readers see.
OneBlockPerTag ==
    \A h \in readers \cup writers :
        Stored(h.tag) /\ storage[h.tag].cell = h.cell /\ storage[h.tag].type = h.type

\* A tag is produced once: after put() returned for it, no other module gets a
\* pointer to write there under this tag, reads in between notwithstanding.
OneProducerPerTag == \A tag \in Tags : produced[tag] <= 1

\* In a pool that was frozen, whatever was read during the construction has a
\* producer that writes to it: no module reads a block nobody fills.
FrozenIsProduced ==
    frozen /\ error # "invalid_state" =>
        \A r \in readers : r.late \/ \E w \in writers : w.cell = r.cell

\* A tag was produced once at most, and then it is valid.
ProducedIsValid == \A tag \in Tags : produced[tag] <= 1 /\ (produced[tag] = 0 \/ Valid(tag))

\* As long as no exception was thrown a valid block has a producer.
ValidIsWritten ==
    Constructing =>
        \A tag \in Tags : Valid(tag) => \E w \in writers : w.cell = storage[tag].cell

\* What makes all this inductive: a pointer is to the block stored under its tag,
\* and a block is valid only if some module has a pointer to write to it.
IInv == TypeOK /\ OneBlockPerTag /\ ProducedIsValid /\ ValidIsWritten /\ FrozenIsProduced
=============================================================================
