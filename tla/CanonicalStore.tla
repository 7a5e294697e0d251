--------------------------- MODULE CanonicalStore ---------------------------
(***************************************************************************)
(* CanonicalStore of crates/tidas-import/src/store.rs: the spool of an     *)
(* import.  One file per entity, one order file per entity type, one       *)
(* pointer file per external id and one file of exchanges per process.     *)
(*                                                                         *)
(* The store is a value and its methods are operators on it: an import is  *)
(* one thread, an error ends it, and the directory goes with it, so that   *)
(* no one sees a method half done.  A key is a sequence of words; SHA-256  *)
(* is taken to be injective, so that a file is named by its key.           *)
(***************************************************************************)
EXTENDS Lists

CONSTANTS
  EntityTypes,  \* the entity types
  Nothing,      \* None
  BadKeys       \* keys with a control character, or longer than 4096 bytes

\* A file system directory: a function from the names of its files.
Written(files, name, content) ==
  [n \in DOMAIN files \cup {name} |-> IF n = name THEN content ELSE files[n]]
Removed(files, name) == [n \in DOMAIN files \ {name} |-> files[n]]
NoFiles == [n \in {} |-> Nothing]

\* An entity: its type, internal id, external id and the rest.
Entity(type, id, ext, raw) == [type |-> type, id |-> id, ext |-> ext, raw |-> raw]

\* CanonicalStore::create.
EmptyStore ==
  [entities  |-> NoFiles,                          \* <<type, id>> to entity
   order     |-> [t \in EntityTypes |-> <<>>],     \* lines of internal ids
   pointers  |-> NoFiles,                          \* <<type, ext>> to id
   counts    |-> [t \in EntityTypes |-> 0],
   exchanges |-> NoFiles,                          \* process id to lines
   ok        |-> TRUE]                             \* no method has failed

\* validate_key, validate_file_key.
ValidKey(key) == key # <<>> /\ key \notin BadKeys

Failed(store) == [store EXCEPT !.ok = FALSE]

Has(store, type, id) == <<type, id>> \in DOMAIN store.entities

\* The pointer of the former external id is removed, whatever it leads to.
WithoutStalePointer(store, e) ==
  IF ~Has(store, e.type, e.id) THEN store.pointers
  ELSE LET former == store.entities[<<e.type, e.id>>].ext IN
       IF former \in {Nothing, e.ext} THEN store.pointers
       ELSE Removed(store.pointers, <<e.type, former>>)

\* Mutant: the pointer of the former external id stays.
AddKeepingPointer(store, e) ==
  IF ~store.ok \/ ~ValidKey(e.id) \/ (e.ext # Nothing /\ ~ValidKey(e.ext))
  THEN Failed(store)
  ELSE [store EXCEPT
         !.entities = Written(@, <<e.type, e.id>>, e),
         !.order[e.type] = IF Has(store, e.type, e.id) THEN @ ELSE Append(@, e.id),
         !.pointers = IF e.ext = Nothing THEN @ ELSE Written(@, <<e.type, e.ext>>, e.id),
         !.counts[e.type] = IF Has(store, e.type, e.id) THEN @ ELSE @ + 1]

\* CanonicalStore::add: write the entity, append it to the order if it is
\* new, remove the stale pointer, write the pointer, count it if it is new.
\* The key of the external id is looked at late, but an error ends the import.
Add(store, e) ==
  IF ~store.ok \/ ~ValidKey(e.id) \/ (e.ext # Nothing /\ ~ValidKey(e.ext))
  THEN Failed(store)
  ELSE LET pointers == WithoutStalePointer(store, e) IN
       [store EXCEPT
         !.entities = Written(@, <<e.type, e.id>>, e),
         !.order[e.type] = IF Has(store, e.type, e.id) THEN @ ELSE Append(@, e.id),
         !.pointers = IF e.ext = Nothing THEN pointers
                      ELSE Written(pointers, <<e.type, e.ext>>, e.id),
         !.counts[e.type] = IF Has(store, e.type, e.id) THEN @ ELSE @ + 1]

\* CanonicalStore::get.
Get(store, type, id) ==
  IF Has(store, type, id) THEN store.entities[<<type, id>>] ELSE Nothing

\* CanonicalStore::get_by_external_id; Nothing is not asked for, and a key that
\* is not valid is an error, on which the caller fails.
GetByExternal(store, type, ext) ==
  IF <<type, ext>> \in DOMAIN store.pointers
  THEN Get(store, type, store.pointers[<<type, ext>>])
  ELSE Nothing

\* CanonicalStore::remove_type.
RemoveType(store, type) ==
  [store EXCEPT
    !.entities = [k \in {n \in DOMAIN @ : n[1] # type} |-> store.entities[k]],
    !.pointers = [k \in {n \in DOMAIN @ : n[1] # type} |-> store.pointers[k]],
    !.order[type] = <<>>,
    !.counts[type] = 0]

\* CanonicalStore::iter_type: the entities in the order of their ids.
IterType(store, type) ==
  [i \in 1 .. Len(store.order[type]) |-> Get(store, type, store.order[type][i])]

\* begin_process_exchanges: the file is made, or made empty.
BeginExchanges(store, process) ==
  IF ~store.ok \/ ~ValidKey(process) THEN Failed(store)
  ELSE [store EXCEPT !.exchanges = Written(@, process, <<>>)]

\* iter_process_exchanges: no file, no exchanges.
Exchanges(store, process) ==
  IF process \in DOMAIN store.exchanges THEN store.exchanges[process] ELSE <<>>

\* add_process_exchange: the file is made if it is not there.
AddExchange(store, process, exchange) ==
  IF ~store.ok \/ ~ValidKey(process) THEN Failed(store)
  ELSE [store EXCEPT
         !.exchanges = Written(@, process, Append(Exchanges(store, process), exchange))]

\* rewrite_process_exchanges: through a temporary file, then replaced.
RewriteExchanges(store, process, Transform(_)) ==
  IF ~store.ok \/ ~ValidKey(process) THEN Failed(store)
  ELSE [store EXCEPT !.exchanges = Written(@, process,
         [i \in 1 .. Len(Exchanges(store, process)) |->
            Transform(Exchanges(store, process)[i])])]
-----------------------------------------------------------------------------
(* What every import relies on *)

\* Every entity file is listed once in its order file, every line of which has
\* its entity file (no MissingOrderedEntity, 271-284), and counts agree.
OrderListsEntities(store) ==
  \A t \in EntityTypes :
    /\ \A i, j \in 1 .. Len(store.order[t]) :
         store.order[t][i] = store.order[t][j] => i = j
    /\ \A i \in 1 .. Len(store.order[t]) : Has(store, t, store.order[t][i])
    /\ \A k \in DOMAIN store.entities :
         k[1] = t => \E i \in 1 .. Len(store.order[t]) : store.order[t][i] = k[2]
    /\ store.counts[t] = Len(store.order[t])

\* A pointer leads to an entity that has that external id (48-73).
PointersLead(store) ==
  \A k \in DOMAIN store.pointers :
    /\ Has(store, k[1], store.pointers[k])
    /\ store.entities[<<k[1], store.pointers[k]>>].ext = k[2]
=============================================================================
