--------------------------- MODULE InstalledState ---------------------------
(***************************************************************************)
(* The installed state that HistoryManager keeps in LMDB                   *)
(* (ecosystem/history/history_manager_store.cpp): one entry for each       *)
(* installed package, with the owners that need it.  Every operator is one *)
(* write transaction.                                                      *)
(*                                                                         *)
(* A store is a function from package names to entries: a package is       *)
(* installed in one version at a time, so an entry is found by its name.   *)
(***************************************************************************)
EXTENDS Naturals

CONSTANTS Names,    \* packages
          Systems,  \* package systems, each served by one plugin
          System    \* the system a package belongs to

ASSUME SystemAssumption == System \in [Names -> Systems]

\* The version of an entry that was written from a request without one.
AnyVersion == 0

\* installed_root_owner_id: the user asked for the package.
Root(n) == <<"root", n>>

\* installed_package_owner_id: package n needs it, whatever its version.
Pkg(n) == <<"pkg", n>>

Owners == {Root(n) : n \in Names} \cup {Pkg(n) : n \in Names}

Entries == [version : Nat, owners : SUBSET Owners]

IsStore(store) ==
    /\ DOMAIN store \subseteq Names
    /\ store \in [DOMAIN store -> Entries]

OfSystem(s) == {n \in Names : System[n] = s}

\* ReplaceSystem that enters what is listed anew.
ReplaceSystemAnew(store, s, listing) ==
    [n \in (DOMAIN store \ OfSystem(s)) \cup DOMAIN listing |->
        IF n \notin DOMAIN listing THEN store[n]
        ELSE [version |-> listing[n], owners |-> {}]]

\* replace_installed_state_database: the entries of a system become what its
\* plugin lists.  An entry of the same identity, or the only one of the same name,
\* passes its owners on.
ReplaceSystem(store, s, listing) ==
    [n \in (DOMAIN store \ OfSystem(s)) \cup DOMAIN listing |->
        IF n \notin DOMAIN listing THEN store[n]
        ELSE [version |-> listing[n],
              owners |-> IF n \in DOMAIN store THEN store[n].owners ELSE {}]]

\* upsert_installed_state_database writes an entry without owners.
UpsertEntry(store, n) ==
    [m \in DOMAIN store \cup {n} |->
        IF m = n THEN [version |-> AnyVersion, owners |-> {}] ELSE store[m]]

\* remove_installed_state_database
RemoveEntry(store, n) == [m \in DOMAIN store \ {n} |-> store[m]]

\* merge_installed_ownership_database: nothing happens without an entry.
MergeOwners(store, n, owners) ==
    IF n \in DOMAIN store THEN [store EXCEPT ![n].owners = @ \cup owners] ELSE store

\* subtract_installed_ownership_database
SubtractOwners(store, n, owners) ==
    IF n \in DOMAIN store THEN [store EXCEPT ![n].owners = @ \ owners] ELSE store
=============================================================================
