------------------------------- MODULE VariableMap -------------------------------
(***************************************************************************)
(* VariableMap<T>: values by scoped identifier, and the identifiers that   *)
(* were changed since the flags were reset.  A ScopedIdentifier is an      *)
(* object: a scope and a name.  The two hash tables compare objects by the *)
(* scope's name, which is that of the node that opened it, and so do not   *)
(* tell apart two Scopes of one node (those of two visitors, or the two    *)
(* that a second walk of one visitor makes); has() compares Scopes.        *)
(*                                                                         *)
(* get, at, erase and insert_or_assign look for an object with the same    *)
(* Scope when the table has none that is equal.  Such an object would be   *)
(* equal, so the loop finds nothing and is not seen here.                  *)
(*                                                                         *)
(* Names that ScopedVisitor has, too, begin with Map or Variable here: the *)
(* theorems about both are in one module.                                  *)
(***************************************************************************)
EXTENDS Naturals

CONSTANTS Scopes,   \* Scope objects
          Nodes,    \* the unique ids of the nodes that open them
          OpenedBy, \* the name of each Scope
          VariableIds,
          Values,
          None,     \* no entry
          Maps      \* VariableMap objects

ASSUME ScopesAssumption == OpenedBy \in [Scopes -> Nodes]
ASSUME NoneAssumption == None \notin Values

Keys == [scope : Scopes, id : VariableIds]

VARIABLES map,       \* the value stored under each object
          changed,   \* the objects in the set of changed entries
          baseline,  \* the value of each identifier when the flags were reset (or
                     \* the map was made)
          checked,   \* the objects has() was true of, with nothing in between
                     \* that takes an equal entry away
          broken     \* a missing entry was read or erased

mapVars == <<map, changed, baseline, checked, broken>>

---------------------------------------------------------------------------
\* std::equal_to<ScopedIdentifier>
Equal(s, t) == s.id = t.id /\ OpenedBy[s.scope] = OpenedBy[t.scope]

Stored(m) == {k \in Keys : map[m][k] # None}
EntriesOf(m, s) == {k \in Stored(m) : Equal(k, s)}
\* The object whose entry s selects: the one in the table, or else s itself.
Entry(m, s) == IF EntriesOf(m, s) = {} THEN s ELSE CHOOSE k \in EntriesOf(m, s) : TRUE

Empty == [k \in Keys |-> None]
NoValues == [name \in Nodes \X VariableIds |-> None]
Name(s) == <<OpenedBy[s.scope], s.id>>
\* The values of the identifiers in the entries f.
ValuesOf(f) == [name \in Nodes \X VariableIds |->
  LET stored == {k \in Keys : Name(k) = name /\ f[k] # None}
  IN IF stored = {} THEN None ELSE f[CHOOSE k \in stored : TRUE]]
Put(m, k, v) == map' = [map EXCEPT ![m] = [@ EXCEPT ![k] = v]]

\* Mutant of Mark: only an entry that is new is marked.
MarkNew(m, s) == changed' = [changed EXCEPT ![m] =
                   IF EntriesOf(m, s) # {} THEN @ ELSE @ \cup {s}]

\* changed.insert(s)
Mark(m, s) == changed' = [changed EXCEPT ![m] =
                IF \E k \in changed[m] : Equal(k, s) THEN @ ELSE @ \cup {s}]

MapInit == /\ map = [m \in Maps |-> Empty]
           /\ changed = [m \in Maps |-> {}]
           /\ baseline = [m \in Maps |-> NoValues]
           /\ checked = [m \in Maps |-> {}]
           /\ broken = FALSE

\* A value that is there is kept, but marked.
Add(m, s, v) == /\ IF EntriesOf(m, s) = {} THEN Put(m, s, v) ELSE UNCHANGED map
                /\ Mark(m, s)
                /\ UNCHANGED <<baseline, checked, broken>>

\* Mutant of InsertOrAssign: an equal entry is replaced, its object with it.
InsertAnew(m, s, v) ==
  /\ map' = [map EXCEPT ![m] = [k \in Keys |-> IF k = s THEN v
                                             ELSE IF Equal(k, s) THEN None ELSE @[k]]]
  /\ Mark(m, s)
  /\ UNCHANGED <<baseline, checked, broken>>

InsertOrAssign(m, s, v) == /\ Put(m, Entry(m, s), v)
                           /\ Mark(m, s)
                           /\ UNCHANGED <<baseline, checked, broken>>

\* Without an entry it throws and nothing happens.
Update(m, s, v) == /\ EntriesOf(m, s) # {}
                   /\ Put(m, Entry(m, s), v)
                   /\ Mark(m, s)
                   /\ UNCHANGED <<baseline, checked, broken>>

\* Mutant of Erase: the mark is left.
EraseEntryOnly(m, s) ==
  /\ EntriesOf(m, s) # {}
  /\ Put(m, Entry(m, s), None)
  /\ checked' = [checked EXCEPT ![m] = {k \in @ : ~Equal(k, s)}]
  /\ UNCHANGED <<changed, baseline, broken>>

Erase(m, s) ==
  /\ EntriesOf(m, s) # {}
  /\ Put(m, Entry(m, s), None)
  /\ changed' = [changed EXCEPT ![m] = {k \in @ : ~Equal(k, s)}]
  /\ checked' = [checked EXCEPT ![m] = {k \in @ : ~Equal(k, s)}]
  /\ UNCHANGED <<baseline, broken>>

\* get, at and erase without an entry dereference the end of the table.
UseAbsent(m, s) == /\ EntriesOf(m, s) = {}
                   /\ broken' = TRUE
                   /\ UNCHANGED <<map, changed, baseline, checked>>

Has(m, s) == \E k \in Stored(m) : k.scope = s.scope /\ k.id = s.id

Check(m, s) == /\ Has(m, s)
               /\ checked' = [checked EXCEPT ![m] = @ \cup {s}]
               /\ UNCHANGED <<map, changed, baseline, broken>>

ResetChangeFlags(m) == /\ changed' = [changed EXCEPT ![m] = {}]
                       /\ baseline' = [baseline EXCEPT ![m] = ValuesOf(map[m])]
                       /\ UNCHANGED <<map, checked, broken>>

\* VariableMap(map): the entries it is made of are not marked.
Construct(m, s, v) == /\ map' = [map EXCEPT ![m] = [Empty EXCEPT ![s] = v]]
                      /\ changed' = [changed EXCEPT ![m] = {}]
                      /\ baseline' = [baseline EXCEPT ![m] = ValuesOf(map'[m])]
                      /\ checked' = [checked EXCEPT ![m] = {}]
                      /\ UNCHANGED broken

\* The defaulted copy and move operations; a map that was moved from is empty.
Copy(m, n) == /\ m # n
              /\ map' = [map EXCEPT ![m] = map[n]]
              /\ changed' = [changed EXCEPT ![m] = changed[n]]
              /\ baseline' = [baseline EXCEPT ![m] = baseline[n]]
              /\ checked' = [checked EXCEPT ![m] = {}]
              /\ UNCHANGED broken

Move(m, n) == /\ m # n
              /\ map' = [map EXCEPT ![m] = map[n], ![n] = Empty]
              /\ changed' = [changed EXCEPT ![m] = changed[n], ![n] = {}]
              /\ baseline' = [baseline EXCEPT ![m] = baseline[n], ![n] = NoValues]
              /\ checked' = [checked EXCEPT ![m] = {}, ![n] = {}]
              /\ UNCHANGED broken

MapNext == ~broken /\ \E m \in Maps :
  \/ \E s \in Keys : Erase(m, s) \/ UseAbsent(m, s) \/ Check(m, s)
  \/ \E s \in Keys, v \in Values :
       Add(m, s, v) \/ InsertOrAssign(m, s, v) \/ Update(m, s, v) \/ Construct(m, s, v)
  \/ ResetChangeFlags(m)
  \/ \E n \in Maps : Copy(m, n) \/ Move(m, n)

MapSpec == MapInit /\ [][MapNext]_mapVars

---------------------------------------------------------------------------
(* Properties *)

MapTypeOK == /\ map \in [Maps -> [Keys -> Values \cup {None}]]
             /\ changed \in [Maps -> SUBSET Keys]
             /\ baseline \in [Maps -> [Nodes \X VariableIds -> Values \cup {None}]]
             /\ checked \in [Maps -> SUBSET Keys]
             /\ broken \in BOOLEAN

\* Who walks the changed entries and gets the value of each never reads a missing
\* one, through whichever Scope of a node an entry was made, marked or erased; and
\* no entry is marked twice.
ChangedHaveEntries ==
  \A m \in Maps : \A s \in changed[m] :
    /\ EntriesOf(m, s) # {}
    /\ \A t \in changed[m] : Equal(s, t) => s = t

\* A value that is new, or another one than when the flags were reset, is marked
\* (an erased one leaves no mark), in copies too.
ChangesAreMarked ==
  \A m \in Maps : \A k \in Stored(m) :
    \/ baseline[m][Name(k)] = map[m][k]
    \/ \E s \in changed[m] : Equal(s, k)

\* What has() said of an identifier holds until an equal one is erased or the map
\* is assigned to, so that get() after it is defined: an entry keeps the object it
\* was made with, whatever assigns to it, and there is one entry per identifier.
CheckedStaysValid ==
  \A m \in Maps : \A s \in checked[m] : Has(m, s) /\ EntriesOf(m, s) = {s}
=============================================================================
