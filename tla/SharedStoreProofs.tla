------------------------- MODULE SharedStoreProofs -------------------------
(***************************************************************************)
(* Theorems about the sessions on one file: what waits for what, and what  *)
(* exactly a check before the write lock lets through.                     *)
(***************************************************************************)
EXTENDS SharedStore, SetFacts, SequenceTheorems, TLAPS

------------------------------------------------------------------------------
(* Edits of a file.                                                         *)

\* Rowids stop somewhere, so a free one exists.
Bounded(d) ==
    \E b \in Nat : /\ \A id \in UserIds(d) \cup HostIds(d) : id =< b
                   /\ \A i \in DOMAIN d.rows : i =< b

\* What every file is, committed or in a transaction.
Kept(d) == IsFile(d) /\ UniqueIds(d.users) /\ UniqueIds(d.hosts) /\ Bounded(d)

Dictionaries == [Keys -> Values \cup {None}]

\* The rowid SQLite gives to a new row is not in use.
LEMMA FreshId ==
  ASSUME NEW S, S \subseteq Ids, NEW b \in Nat, \A i \in S : i =< b
  PROVE  FreeId(S) \in Ids /\ \A i \in S : i < FreeId(S)
<1>1. CASE S = {}
  <2>1. FreeId(S) = 1
    BY <1>1 DEF FreeId
  <2> QED BY <1>1, <2>1 DEF Ids
<1>2. CASE S # {}
  <2>1. S \subseteq Nat
    BY DEF Ids
  <2>2. Max(S) \in S /\ \A i \in S : i =< Max(S)
    BY <1>2, <2>1, MaxIsGreatest
  <2>3. FreeId(S) = Max(S) + 1
    BY <1>2 DEF FreeId
  <2>4. Max(S) \in Nat /\ \A i \in S : i \in Nat
    BY <2>1, <2>2
  <2>5. \A i \in S : i < FreeId(S)
    BY <2>2, <2>3, <2>4
  <2>6. FreeId(S) \in Ids
    BY <2>3, <2>4 DEF Ids
  <2> QED BY <2>5, <2>6
<1> QED BY <1>1, <1>2

\* A file whose table is exchanged for a table with bounded rowids is a file.
LEMMA TableEdits ==
  ASSUME NEW d, Kept(d), NEW t, NEW b \in Nat
  PROVE  /\ /\ IsTable(t, UserNames, User) /\ UniqueIds(t)
            /\ \A u \in DOMAIN t : t[u].id =< b
            => Kept([d EXCEPT !.users = t])
         /\ /\ IsTable(t, HostNames, Host) /\ UniqueIds(t)
            /\ \A h \in DOMAIN t : t[h].id =< b
            => Kept([d EXCEPT !.hosts = t])
         /\ IsTable(t, Ids, Row) /\ (\A i \in DOMAIN t : i =< b)
            => Kept([d EXCEPT !.rows = t])
<1>1. PICK a \in Nat : /\ \A x \in UserIds(d) \cup HostIds(d) : x =< a
                       /\ \A i \in DOMAIN d.rows : i =< a
  BY DEF Kept, Bounded
<1>2. /\ \A u \in DOMAIN d.users : d.users[u].id \in Nat /\ d.users[u].id =< a
      /\ \A h \in DOMAIN d.hosts : d.hosts[h].id \in Nat /\ d.hosts[h].id =< a
      /\ \A i \in DOMAIN d.rows : i \in Nat /\ i =< a
  BY <1>1 DEF Kept, IsFile, IsTable, User, Host, Ids, UserIds, HostIds
<1>3. d = [users |-> d.users, hosts |-> d.hosts, rows |-> d.rows]
  BY DEF Kept, IsFile
<1>4. ASSUME NEW e, e = [users |-> e.users, hosts |-> e.hosts, rows |-> e.rows],
             IsTable(e.users, UserNames, User), UniqueIds(e.users),
             IsTable(e.hosts, HostNames, Host), UniqueIds(e.hosts), IsTable(e.rows, Ids, Row),
             \A u \in DOMAIN e.users : e.users[u].id =< a + b,
             \A h \in DOMAIN e.hosts : e.hosts[h].id =< a + b,
             \A i \in DOMAIN e.rows : i =< a + b
      PROVE  Kept(e)
  <2>1. a + b \in Nat
    OBVIOUS
  <2>2. Bounded(e)
    BY <1>4, <2>1 DEF Bounded, UserIds, HostIds
  <2> QED BY <1>4, <2>2 DEF Kept, IsFile
<1>5. ASSUME IsTable(t, UserNames, User), UniqueIds(t), \A u \in DOMAIN t : t[u].id =< b
      PROVE  Kept([d EXCEPT !.users = t])
  <2> DEFINE e == [d EXCEPT !.users = t]
  <2>1. e = [users |-> t, hosts |-> d.hosts, rows |-> d.rows]
    BY <1>3
  <2>2. \A u \in DOMAIN t : t[u].id \in Nat
    BY <1>5 DEF IsTable, User, Ids
  <2> HIDE DEF e
  <2>3. Kept(e)
    BY <1>2, <1>4, <1>5, <2>1, <2>2 DEF Kept, IsFile
  <2> QED BY <2>3 DEF e
<1>6. ASSUME IsTable(t, HostNames, Host), UniqueIds(t), \A h \in DOMAIN t : t[h].id =< b
      PROVE  Kept([d EXCEPT !.hosts = t])
  <2> DEFINE e == [d EXCEPT !.hosts = t]
  <2>1. e = [users |-> d.users, hosts |-> t, rows |-> d.rows]
    BY <1>3
  <2>2. \A h \in DOMAIN t : t[h].id \in Nat
    BY <1>6 DEF IsTable, Host, Ids
  <2> HIDE DEF e
  <2>3. Kept(e)
    BY <1>2, <1>4, <1>6, <2>1, <2>2 DEF Kept, IsFile
  <2> QED BY <2>3 DEF e
<1>7. ASSUME IsTable(t, Ids, Row), \A i \in DOMAIN t : i =< b
      PROVE  Kept([d EXCEPT !.rows = t])
  <2> DEFINE e == [d EXCEPT !.rows = t]
  <2>1. e = [users |-> d.users, hosts |-> d.hosts, rows |-> t]
    BY <1>3
  <2>2. \A i \in DOMAIN t : i \in Nat
    BY <1>7 DEF IsTable, Ids
  <2> HIDE DEF e
  <2>3. Kept(e)
    BY <1>2, <1>4, <1>7, <2>1, <2>2 DEF Kept, IsFile
  <2> QED BY <2>3 DEF e
<1> QED BY <1>5, <1>6, <1>7

\* An account that is deleted, changed or added leaves a file.
LEMMA UserEdits ==
  ASSUME NEW d, Kept(d)
  PROVE  /\ \A id : Kept(without_user(d, id))
         /\ \A id : \A kind \in UserKinds \ {"delete_user"} : Kept(with_user_changed(d, id, kind))
         /\ \A name \in UserNames \ DOMAIN d.users : \A admin \in BOOLEAN :
               Kept(with_user(d, name, admin))
<1>1. PICK a \in Nat : /\ \A x \in UserIds(d) \cup HostIds(d) : x =< a
                       /\ \A i \in DOMAIN d.rows : i =< a
  BY DEF Kept, Bounded
<1>2. \A u \in DOMAIN d.users : u \in UserNames /\ d.users[u] \in User /\ d.users[u].id =< a
  BY <1>1 DEF Kept, IsFile, IsTable, UserIds
<1>3. UniqueIds(d.users)
  BY DEF Kept
<1>4. ASSUME NEW id PROVE Kept(without_user(d, id))
  <2> DEFINE t == [u \in {v \in DOMAIN d.users : d.users[v].id # id} |-> d.users[u]]
  <2>1. IsTable(t, UserNames, User) /\ UniqueIds(t) /\ \A u \in DOMAIN t : t[u].id =< a
    BY <1>2, <1>3 DEF IsTable, UniqueIds
  <2> QED BY <2>1, TableEdits DEF without_user
<1>5. ASSUME NEW id, NEW kind \in UserKinds \ {"delete_user"} PROVE Kept(with_user_changed(d, id, kind))
  <2> DEFINE t == [u \in DOMAIN d.users |->
                      IF d.users[u].id = id THEN Changed(kind, d.users[u]) ELSE d.users[u]]
  <2>1. \A u \in DOMAIN d.users :
            Changed(kind, d.users[u]) \in User /\ Changed(kind, d.users[u]).id = d.users[u].id
    BY <1>2 DEF Changed, UserKinds, Guarded, User
  <2>2. \A u \in DOMAIN t : t[u] \in User /\ t[u].id = d.users[u].id
    BY <1>2, <2>1
  <2>3. IsTable(t, UserNames, User) /\ UniqueIds(t) /\ \A u \in DOMAIN t : t[u].id =< a
    BY <1>2, <1>3, <2>2 DEF IsTable, UniqueIds
  <2> QED BY <2>3, TableEdits DEF with_user_changed
<1>6. ASSUME NEW name \in UserNames \ DOMAIN d.users, NEW admin \in BOOLEAN
      PROVE  Kept(with_user(d, name, admin))
  <2> DEFINE row == [id |-> FreeId(UserIds(d)), admin |-> admin, active |-> TRUE]
             t == [u \in DOMAIN d.users \cup {name} |-> IF u = name THEN row ELSE d.users[u]]
             b == a + row.id
  <2>1. FreeId(UserIds(d)) \in Ids /\ \A u \in DOMAIN d.users : d.users[u].id < FreeId(UserIds(d))
    <3>1. UserIds(d) \subseteq Ids
      BY <1>2 DEF UserIds, User
    <3> QED BY <1>1, <3>1, FreshId DEF UserIds
  <2>2. row \in User /\ row.id = FreeId(UserIds(d))
    BY <2>1 DEF User
  <2> HIDE DEF row
  <2>3. IsTable(t, UserNames, User)
    BY <1>2, <2>2 DEF IsTable
  <2>4. UniqueIds(t)
    <3>1. \A u \in DOMAIN d.users : d.users[u].id \in Nat /\ d.users[u].id # row.id
      BY <1>2, <2>1, <2>2 DEF User, Ids
    <3> QED BY <1>3, <1>6, <3>1 DEF UniqueIds
  <2>5. \A u \in DOMAIN t : t[u].id =< b
    <3>1. \A u \in DOMAIN d.users : d.users[u].id \in Nat
      BY <1>2 DEF User, Ids
    <3> QED BY <1>2, <2>1, <2>2, <3>1 DEF Ids
  <2>6. b \in Nat
    BY <2>1, <2>2 DEF Ids
  <2>7. with_user(d, name, admin) = [d EXCEPT !.users = t]
    BY DEF with_user, row
  <2> HIDE DEF t, b
  <2>8. Kept([d EXCEPT !.users = t])
    BY <2>3, <2>4, <2>5, <2>6, TableEdits
  <2> QED BY <2>7, <2>8
<1> QED BY <1>4, <1>5, <1>6

\* So do a host whose fields change, that is deleted, or that is added.
LEMMA HostEdits ==
  ASSUME NEW d, Kept(d)
  PROVE  /\ \A id : \A fields \in Dictionaries : Kept(with_fields(d, id, fields))
         /\ \A id : Kept(without_host(d, id))
         /\ \A name \in HostNames \ DOMAIN d.hosts : Kept(with_host(d, name))
<1>1. PICK a \in Nat : /\ \A x \in UserIds(d) \cup HostIds(d) : x =< a
                       /\ \A i \in DOMAIN d.rows : i =< a
  BY DEF Kept, Bounded
<1>2. \A h \in DOMAIN d.hosts : h \in HostNames /\ d.hosts[h] \in Host /\ d.hosts[h].id =< a
  BY <1>1 DEF Kept, IsFile, IsTable, HostIds
<1>3. UniqueIds(d.hosts)
  BY DEF Kept
<1>4. ASSUME NEW id, NEW fields \in Dictionaries PROVE Kept(with_fields(d, id, fields))
  <2> DEFINE t == [h \in DOMAIN d.hosts |->
                     IF d.hosts[h].id = id THEN [d.hosts[h] EXCEPT !.fields = fields] ELSE d.hosts[h]]
  <2>1. \A h \in DOMAIN t : t[h] \in Host /\ t[h].id = d.hosts[h].id
    BY <1>2 DEF Host, Dictionaries
  <2>2. IsTable(t, HostNames, Host) /\ UniqueIds(t) /\ \A h \in DOMAIN t : t[h].id =< a
    BY <1>2, <1>3, <2>1 DEF IsTable, UniqueIds
  <2> QED BY <2>2, TableEdits DEF with_fields
<1>5. ASSUME NEW id PROVE Kept(without_host(d, id))
  <2> DEFINE t == [h \in {x \in DOMAIN d.hosts : d.hosts[x].id # id} |-> d.hosts[h]]
  <2>1. IsTable(t, HostNames, Host) /\ UniqueIds(t) /\ \A h \in DOMAIN t : t[h].id =< a
    BY <1>2, <1>3 DEF IsTable, UniqueIds
  <2> QED BY <2>1, TableEdits DEF without_host
<1>6. ASSUME NEW name \in HostNames \ DOMAIN d.hosts PROVE Kept(with_host(d, name))
  <2> DEFINE row == [id |-> FreeId(HostIds(d)), fields |-> NoFields]
             t == [h \in DOMAIN d.hosts \cup {name} |-> IF h = name THEN row ELSE d.hosts[h]]
             b == a + row.id
  <2>1. FreeId(HostIds(d)) \in Ids /\ \A h \in DOMAIN d.hosts : d.hosts[h].id < FreeId(HostIds(d))
    <3>1. HostIds(d) \subseteq Ids
      BY <1>2 DEF HostIds, Host
    <3> QED BY <1>1, <3>1, FreshId DEF HostIds
  <2>2. row \in Host /\ row.id = FreeId(HostIds(d))
    BY <2>1 DEF Host, NoFields
  <2> HIDE DEF row
  <2>3. IsTable(t, HostNames, Host)
    BY <1>2, <2>2 DEF IsTable
  <2>4. \A h \in DOMAIN d.hosts : d.hosts[h].id \in Nat /\ d.hosts[h].id # row.id
    BY <1>2, <2>1, <2>2 DEF Host, Ids
  <2>5. UniqueIds(t)
    BY <1>3, <1>6, <2>4 DEF UniqueIds
  <2>6. (\A h \in DOMAIN t : t[h].id =< b) /\ b \in Nat
    BY <1>2, <2>1, <2>2, <2>4 DEF Ids
  <2>7. with_host(d, name) = [d EXCEPT !.hosts = t]
    BY DEF with_host, row
  <2> HIDE DEF t, b
  <2>8. Kept([d EXCEPT !.hosts = t])
    BY <2>3, <2>5, <2>6, TableEdits
  <2> QED BY <2>7, <2>8
<1> QED BY <1>4, <1>5, <1>6

RowsIn(d) == {d.rows[i] : i \in DOMAIN d.rows}

\* And containers that are deleted or added; the new ones come beside the old.
LEMMA RowEdits ==
  ASSUME NEW d, Kept(d)
  PROVE  /\ \A gone : Kept(without_rows(d, gone))
         /\ \A added \in Seq(Row) :
            /\ Kept(with_rows(d, added))
            /\ RowsIn(with_rows(d, added)) = RowsIn(d) \cup {added[n] : n \in DOMAIN added}
         /\ with_rows(d, <<>>).rows = d.rows
<1>1. PICK a \in Nat : /\ \A x \in UserIds(d) \cup HostIds(d) : x =< a
                       /\ \A i \in DOMAIN d.rows : i =< a
  BY DEF Kept, Bounded
<1>2. \A i \in DOMAIN d.rows : i \in Ids /\ d.rows[i] \in Row
  BY DEF Kept, IsFile, IsTable
<1>3. ASSUME NEW gone PROVE Kept(without_rows(d, gone))
  <2> DEFINE t == [i \in DOMAIN d.rows \ gone |-> d.rows[i]]
  <2>1. IsTable(t, Ids, Row) /\ \A i \in DOMAIN t : i =< a
    BY <1>1, <1>2 DEF IsTable
  <2> QED BY <2>1, TableEdits DEF without_rows
<1>14. with_rows(d, <<>>).rows = d.rows
  <2>1. DOMAIN d.rows \cup {(FreeId(DOMAIN d.rows) - 1) + n : n \in DOMAIN <<>>} = DOMAIN d.rows
    OBVIOUS
  <2>2. with_rows(d, <<>>).rows = [i \in DOMAIN d.rows |-> d.rows[i]]
    BY <2>1 DEF with_rows, Kept, IsFile
  <2> QED BY <2>2 DEF Kept, IsFile, IsTable
<1> SUFFICES ASSUME NEW added \in Seq(Row)
             PROVE  /\ Kept(with_rows(d, added))
                    /\ RowsIn(with_rows(d, added)) = RowsIn(d) \cup {added[n] : n \in DOMAIN added}
  BY <1>3, <1>14
<1> DEFINE base == FreeId(DOMAIN d.rows) - 1
           t == [i \in DOMAIN d.rows \cup {base + n : n \in DOMAIN added} |->
                   IF i \in DOMAIN d.rows THEN d.rows[i] ELSE added[i - base]]
<1>4. with_rows(d, added) = [d EXCEPT !.rows = t]
  BY DEF with_rows
<1>5. base \in Nat /\ \A i \in DOMAIN d.rows : i =< base
  <2>1. DOMAIN d.rows \subseteq Ids
    BY <1>2
  <2>2. FreeId(DOMAIN d.rows) \in Ids /\ \A i \in DOMAIN d.rows : i < FreeId(DOMAIN d.rows)
    BY <1>1, <2>1, FreshId
  <2> QED BY <1>2, <2>2 DEF Ids
<1> HIDE DEF base
<1>6. \A n \in DOMAIN added : /\ n \in Nat /\ n > 0 /\ n =< Len(added) /\ added[n] \in Row
                              /\ base + n > base /\ (base + n) - base = n /\ base + n \in Ids
                              /\ base + n \notin DOMAIN d.rows
  <2>1. DOMAIN added = 1 .. Len(added) /\ Len(added) \in Nat
    OBVIOUS
  <2>2. \A n \in DOMAIN added : added[n] \in Row
    BY <2>1
  <2> QED BY <1>2, <1>5, <2>1, <2>2 DEF Ids
<1>7. ASSUME NEW n \in DOMAIN added PROVE t[base + n] = added[n]
  <2>1. base + n \in DOMAIN d.rows \cup {base + m : m \in DOMAIN added}
    OBVIOUS
  <2>2. base + n \notin DOMAIN d.rows /\ (base + n) - base = n
    BY <1>6
  <2>3. t[base + n] = added[(base + n) - base]
    BY <2>1, <2>2
  <2> QED BY <2>2, <2>3
<1>10. with_rows(d, added).rows = t
  BY <1>4 DEF Kept, IsFile
<1>11. \A i \in DOMAIN d.rows : t[i] = d.rows[i]
  OBVIOUS
<1>12. DOMAIN t = DOMAIN d.rows \cup {base + n : n \in DOMAIN added}
  OBVIOUS
<1>13. t = [i \in DOMAIN t |-> t[i]]
  OBVIOUS
<1> DEFINE last == base + Len(added)
<1> HIDE DEF t
<1>8. IsTable(t, Ids, Row) /\ (\A i \in DOMAIN t : i =< last) /\ last \in Nat
  <2>1. Len(added) \in Nat
    OBVIOUS
  <2>2. \A i \in DOMAIN d.rows : i \in Ids /\ t[i] \in Row /\ i =< last
    BY <1>2, <1>5, <1>11, <2>1 DEF Ids
  <2>3. \A n \in DOMAIN added : base + n \in Ids /\ t[base + n] \in Row /\ base + n =< last
    BY <1>5, <1>6, <1>7, <2>1
  <2>4. \A i \in DOMAIN t : i \in Ids /\ t[i] \in Row /\ i =< last
    BY <1>12, <2>2, <2>3
  <2> QED BY <1>5, <1>13, <2>1, <2>4 DEF IsTable
<1>9. Kept(with_rows(d, added))
  <2> HIDE DEF last
  <2>1. Kept([d EXCEPT !.rows = t])
    BY <1>8, TableEdits
  <2> QED BY <1>4, <2>1
<1>15. {t[i] : i \in DOMAIN t} = RowsIn(d) \cup {added[n] : n \in DOMAIN added}
  BY <1>7, <1>11, <1>12 DEF RowsIn
<1> QED BY <1>9, <1>10, <1>15 DEF RowsIn

\* A statement less, or a few in front: the others keep their order.
LEMMA Queues ==
  ASSUME NEW S, NEW todo \in Seq(S), todo # <<>>
  PROVE  /\ Tail(todo) \in Seq(S) /\ Len(Tail(todo)) = Len(todo) - 1
         /\ Tail(todo) = <<>> <=> Len(todo) = 1
         /\ \A i \in DOMAIN Tail(todo) : i + 1 \in DOMAIN todo /\ Tail(todo)[i] = todo[i + 1]
         /\ \A front \in Seq(S) :
               /\ front \o Tail(todo) \in Seq(S)
               /\ Len(front \o Tail(todo)) = Len(front) + (Len(todo) - 1)
               /\ \A i \in DOMAIN (front \o Tail(todo)) :
                     \/ i \in DOMAIN front /\ (front \o Tail(todo))[i] = front[i]
                     \/ /\ i > Len(front) /\ (i - Len(front)) + 1 \in DOMAIN todo
                        /\ (front \o Tail(todo))[i] = todo[(i - Len(front)) + 1]
<1>1. Len(todo) \in Nat /\ Len(todo) > 0
  OBVIOUS
<1>2. Tail(todo) \in Seq(S) /\ Len(Tail(todo)) = Len(todo) - 1
  BY <1>1
<1>3. \A i \in DOMAIN Tail(todo) : i + 1 \in DOMAIN todo /\ Tail(todo)[i] = todo[i + 1]
  BY <1>1, <1>2
<1>4. ASSUME NEW front \in Seq(S)
      PROVE  /\ front \o Tail(todo) \in Seq(S)
             /\ Len(front \o Tail(todo)) = Len(front) + (Len(todo) - 1)
             /\ \A i \in DOMAIN (front \o Tail(todo)) :
                     \/ i \in DOMAIN front /\ (front \o Tail(todo))[i] = front[i]
                     \/ /\ i > Len(front) /\ (i - Len(front)) + 1 \in DOMAIN todo
                        /\ (front \o Tail(todo))[i] = todo[(i - Len(front)) + 1]
  <2> DEFINE rest == Tail(todo)
  <2>1. rest \in Seq(S) /\ Len(rest) = Len(todo) - 1
    BY <1>2
  <2>2. \A i \in DOMAIN rest : i + 1 \in DOMAIN todo /\ rest[i] = todo[i + 1]
    BY <1>3
  <2> HIDE DEF rest
  <2>3. front \o rest \in Seq(S) /\ Len(front \o rest) = Len(front) + Len(rest) /\ Len(front) \in Nat
    BY <2>1
  <2>4. ASSUME NEW i \in DOMAIN (front \o rest)
        PROVE  \/ i \in DOMAIN front /\ (front \o rest)[i] = front[i]
               \/ /\ i > Len(front) /\ i - Len(front) \in DOMAIN rest
                  /\ (front \o rest)[i] = rest[i - Len(front)]
    BY <2>1, <2>3
  <2> QED BY <2>1, <2>2, <2>3, <2>4 DEF rest
<1>5. Tail(todo) = <<>> <=> Len(todo) = 1
  <2> DEFINE rest == Tail(todo)
  <2>1. rest \in Seq(S) /\ Len(rest) = Len(todo) - 1
    BY <1>2
  <2> HIDE DEF rest
  <2>2. (rest # <<>> => Len(rest) \in Nat \ {0}) /\ Len(<<>>) = 0
    BY <2>1, EmptySeq
  <2>3. rest = <<>> <=> Len(todo) = 1
    BY <1>1, <2>1, <2>2
  <2> QED BY <2>3 DEF rest
<1> QED BY <1>2, <1>3, <1>4, <1>5

\* The records before the one that raises are rows in the making.
LEMMA RowsRead ==
  ASSUME NEW listing \in Listings, NEW id \in Ids
  PROVE  /\ ReadUpTo(listing) \in Seq(Names)
         /\ Added(id, ReadUpTo(listing)) \in Seq(Row)
<1>1. listing \in Seq(Names \cup {NotADict})
  BY SharedStoreAssumption
<1>2. ReadUpTo(listing) \in Seq(Names)
  <2>1. CASE BrokenAt(listing) = {}
    BY <1>1, <2>1 DEF ReadUpTo, BrokenAt
  <2>2. CASE BrokenAt(listing) # {}
    <3>1. BrokenAt(listing) \subseteq Nat \ {0}
      BY <1>1 DEF BrokenAt
    <3> DEFINE m == Min(BrokenAt(listing))
    <3>2. m \in BrokenAt(listing) /\ \A i \in BrokenAt(listing) : m =< i
      BY <2>2, <3>1, MinIsLeast
    <3> HIDE DEF m
    <3>3. m \in 1 .. Len(listing) /\ Len(listing) \in Nat
      BY <1>1, <3>2 DEF BrokenAt
    <3>4. \A i \in 1 .. (m - 1) : listing[i] \in Names
      <4> SUFFICES ASSUME NEW i \in 1 .. (m - 1) PROVE listing[i] \in Names
        OBVIOUS
      <4>1. i \in DOMAIN listing /\ ~(m =< i)
        BY <1>1, <3>3
      <4>2. listing[i] # NotADict
        BY <3>2, <4>1 DEF BrokenAt
      <4> QED BY <1>1, <4>1, <4>2
    <3>5. ReadUpTo(listing) = SubSeq(listing, 1, m - 1)
      BY <2>2 DEF ReadUpTo, m
    <3>6. SubSeq(listing, 1, m - 1) = [i \in 1 .. (m - 1) |-> listing[i]]
      BY <3>3
    <3> QED BY <3>3, <3>4, <3>5, <3>6
  <2> QED BY <2>1, <2>2
<1> DEFINE names == ReadUpTo(listing)
<1>3. DOMAIN names = 1 .. Len(names) /\ Len(names) \in Nat /\ \A i \in DOMAIN names : names[i] \in Names
  BY <1>2
<1> HIDE DEF names
<1>4. Added(id, names) \in Seq(Row)
  BY <1>3 DEF Added, Row
<1> QED BY <1>2, <1>4 DEF names

------------------------------------------------------------------------------
(* What a session is like wherever a step may leave it.                     *)

\* A record in hand has its run's next record, or the log entry, behind it.
InHand == {"lookup", "replace", "find", "save"}
Started == {"replace", "save"}
Follows(a, b) ==
    /\ a.do \in {"lookup", "replace"} => b.do \in {"lookup", "log"}
    /\ a.do \in {"find", "save"} => b.do \in {"find", "log"}

\* Only the first statement is in the middle of something.
InOrder(todo) ==
    \A i \in DOMAIN todo :
        /\ todo[i].do \in Started => i = 1
        /\ todo[i].do \in InHand => i + 1 \in DOMAIN todo /\ Follows(todo[i], todo[i + 1])

\* A handler has read what it is about to use; a started statement has its
\* session, a DELETE its host, and only a docker run has rows pending.
Shape(s) ==
    /\ s.cmd.kind \in UserKinds => s.pc = "read" \/ (s.pc \in {"guard", "write"} /\ s.got \in User)
    /\ s.cmd.kind \in AddKinds => s.pc \in {"read", "create", "write"}
    /\ s.cmd.kind \in FieldKinds => s.pc = "read" \/ (s.pc \in {"write", "commit"} /\ s.got \in Sought)
    /\ s.cmd.kind = "delete_host" => s.pc = "read" \/ (s.pc = "write" /\ s.got \in Sought)
    /\ s.cmd.kind \in ImportKinds =>
          /\ (s.pc = "commit" /\ s.todo = <<>>) \/ (s.pc = "work" /\ s.todo # <<>>)
          /\ InOrder(s.todo)
          /\ s.got \in {None} \cup [id : Ids]
          /\ s.todo # <<>> /\ s.todo[1].do = "replace" => s.got # None
          /\ s.todo # <<>> /\ s.todo[1].do \in Started => ~s.dead
          /\ s.pending # <<>> => s.todo # <<>> /\ s.todo[1].do \in {"lookup", "replace", "log"}

\* Who keeps the lock from one step to the next.
Holder(s) ==
    \/ s.cmd.kind \in FieldKinds /\ s.pc = "commit"
    \/ s.cmd.kind \in ImportKinds /\ ~s.dead

StoreInv ==
    /\ Kept(db) /\ (lock # None => Kept(tx))
    /\ \A c \in Clients : sess[c] # None => Shape(sess[c])
    /\ lock # None => sess[lock] # None /\ Holder(sess[lock])
    /\ loop # None => sess[loop] # None /\ sess[loop].pc # "commit"

\* A step of c ends its session or leaves it in shape, with the lock or without.
Fits(c, s) == s \in Sessions /\ Shape(s) /\ s.cmd = sess[c].cmd

rolls_back(c, s) ==
    /\ lock' = None /\ tx' = None
    /\ sess' = [sess EXCEPT ![c] = s] /\ s.pc # "commit"
    /\ UNCHANGED <<db, loop, starts>>

Outcome(c) ==
    \/ \E s \in Sessions : Fits(c, s) /\ (lock = c => Holder(s)) /\ goes_on(c, s)
    \/ \E s \in Sessions : Fits(c, s) /\ Holder(s) /\ Kept(tx') /\ tx'.users = View(c).users /\ flush(c, tx', s)
    \/ \E s \in Sessions : Fits(c, s) /\ Free(c) /\ rolls_back(c, s)
    \/ Kept(db') /\ flush_and_commit(c, db')
    \/ commit(c)
    \/ end(c)

\* The handlers that let a session of a kind go on.
OfItsKind(c) ==
    sess'[c] # None =>
      /\ sess[c].cmd.kind \in UserKinds \cup AddKinds =>
            \/ get_user_by_username(c) \/ guard_last_admin(c)
            \/ setup_available(c) \/ create_user_lookup(c)
      /\ sess[c].cmd.kind \in HostKinds => get_host(c) \/ write_field(c)
      /\ sess[c].cmd.kind \in ImportKinds =>
            \/ lookup(c) \/ replace(c) \/ find_host(c) \/ save_host(c) \/ log(c)
            \/ run_ansible(c) \/ collect_error(c) \/ give_up(c)

\* What is left to do after the first statement is in order.
LEMMA TailInOrder ==
  ASSUME NEW todo \in Seq(Statements), todo # <<>>, InOrder(todo)
  PROVE  /\ Tail(todo) \in Seq(Statements) /\ InOrder(Tail(todo))
         /\ Tail(todo) = <<>> <=> Len(todo) = 1
         /\ Tail(todo) # <<>> => Tail(todo)[1] \in Statements /\ Tail(todo)[1].do \notin Started
         /\ todo[1] \in Statements
         /\ todo[1].do \in InHand => Tail(todo) # <<>> /\ Follows(todo[1], Tail(todo)[1])
<1> DEFINE rest == Tail(todo)
<1>1. /\ rest \in Seq(Statements) /\ Len(rest) = Len(todo) - 1
      /\ rest = <<>> <=> Len(todo) = 1
      /\ \A i \in DOMAIN rest : i + 1 \in DOMAIN todo /\ rest[i] = todo[i + 1]
  BY Queues
<1>2. Len(todo) \in Nat \ {0} /\ DOMAIN todo = 1 .. Len(todo) /\ todo[1] \in Statements
  OBVIOUS
<1> HIDE DEF rest
<1>3. DOMAIN rest = 1 .. Len(rest) /\ Len(rest) \in Nat
  BY <1>1
<1>4. InOrder(rest)
  <2> SUFFICES ASSUME NEW i \in DOMAIN rest
               PROVE  /\ rest[i].do \notin Started
                      /\ rest[i].do \in InHand => i + 1 \in DOMAIN rest /\ Follows(rest[i], rest[i + 1])
    BY DEF InOrder
  <2>1. i \in Nat \ {0} /\ i + 1 \in DOMAIN todo /\ rest[i] = todo[i + 1]
    BY <1>1, <1>3
  <2>2. todo[i + 1].do \notin Started
    BY <2>1 DEF InOrder
  <2>3. ASSUME rest[i].do \in InHand PROVE i + 1 \in DOMAIN rest /\ Follows(rest[i], rest[i + 1])
    <3>1. (i + 1) + 1 \in DOMAIN todo /\ Follows(todo[i + 1], todo[(i + 1) + 1])
      BY <2>1, <2>3 DEF InOrder
    <3>2. i + 1 \in DOMAIN rest
      BY <1>1, <1>2, <1>3, <2>1, <3>1
    <3> QED BY <1>1, <2>1, <3>1, <3>2
  <2> QED BY <2>1, <2>2, <2>3
<1>5. rest # <<>> => 1 \in DOMAIN rest /\ rest[1] \in Statements /\ rest[1].do \notin Started
  <2> SUFFICES ASSUME rest # <<>> PROVE 1 \in DOMAIN rest /\ rest[1] \in Statements /\ rest[1].do \notin Started
    OBVIOUS
  <2>1. 1 \in DOMAIN rest /\ rest[1] \in Statements
    BY <1>1
  <2>2. rest[1] = todo[1 + 1] /\ 1 + 1 \in DOMAIN todo
    BY <1>1, <2>1
  <2> QED BY <2>1, <2>2 DEF InOrder
<1>6. todo[1].do \in InHand => rest # <<>> /\ Follows(todo[1], rest[1])
  <2> SUFFICES ASSUME todo[1].do \in InHand PROVE rest # <<>> /\ Follows(todo[1], rest[1])
    OBVIOUS
  <2>1. 1 + 1 \in DOMAIN todo /\ Follows(todo[1], todo[1 + 1])
    BY <1>2 DEF InOrder
  <2>2. Len(todo) # 1
    BY <1>2, <2>1
  <2>3. rest # <<>>
    BY <1>1, <2>2
  <2> QED BY <1>1, <1>5, <2>1, <2>3
<1> QED BY <1>1, <1>2, <1>4, <1>5, <1>6 DEF rest

\* Statements that go before others.
LEMMA FrontInOrder ==
  ASSUME NEW front \in Seq(Statements), front # <<>>, NEW rest \in Seq(Statements), InOrder(rest),
         rest # <<>> => rest[1].do \notin Started,
         \A i \in DOMAIN front :
            /\ front[i].do \in Started => i = 1
            /\ front[i].do \in InHand /\ i = Len(front) => rest # <<>> /\ Follows(front[i], rest[1])
            /\ front[i].do \in InHand /\ i # Len(front) => Follows(front[i], front[i + 1])
  PROVE  /\ front \o rest \in Seq(Statements) /\ front \o rest # <<>>
         /\ InOrder(front \o rest) /\ (front \o rest)[1] = front[1]
<1> DEFINE todo == front \o rest
           n == Len(front)
<1>1. /\ n \in Nat \ {0} /\ Len(rest) \in Nat /\ (rest # <<>> <=> Len(rest) > 0)
      /\ DOMAIN front = 1 .. n /\ DOMAIN rest = 1 .. Len(rest)
  BY EmptySeq
<1>2. /\ todo \in Seq(Statements) /\ Len(todo) = n + Len(rest) /\ DOMAIN todo = 1 .. Len(todo)
      /\ \A i \in 1 .. n : todo[i] = front[i]
      /\ \A i \in n + 1 .. n + Len(rest) : todo[i] = rest[i - n]
  BY <1>1, ConcatProperties
<1> HIDE DEF todo, n
<1>3. todo # <<>> /\ todo[1] = front[1]
  BY <1>1, <1>2
<1>4. InOrder(todo)
  <2> SUFFICES ASSUME NEW i \in DOMAIN todo
               PROVE  /\ todo[i].do \in Started => i = 1
                      /\ todo[i].do \in InHand => i + 1 \in DOMAIN todo /\ Follows(todo[i], todo[i + 1])
    BY DEF InOrder
  <2>1. CASE i \in 1 .. n /\ i # n
    <3>1. i + 1 \in 1 .. n /\ i + 1 \in DOMAIN todo /\ todo[i] = front[i] /\ todo[i + 1] = front[i + 1]
      BY <1>1, <1>2, <2>1
    <3> QED BY <1>1, <2>1, <3>1 DEF n
  <2>2. CASE i = n
    <3>1. todo[i] = front[i] /\ i \in DOMAIN front
      BY <1>1, <1>2, <2>2
    <3>2. ASSUME front[i].do \in InHand PROVE i + 1 \in DOMAIN todo /\ Follows(todo[i], todo[i + 1])
      <4>1. rest # <<>> /\ Follows(front[i], rest[1])
        BY <2>2, <3>1, <3>2 DEF n
      <4>2. i + 1 \in n + 1 .. n + Len(rest) /\ i + 1 - n = 1
        BY <1>1, <2>2, <4>1
      <4> QED BY <1>1, <1>2, <3>1, <4>1, <4>2
    <3> QED BY <3>1, <3>2
  <2>3. CASE i \in n + 1 .. n + Len(rest)
    <3> DEFINE j == i - n
    <3>1. j \in DOMAIN rest /\ todo[i] = rest[j] /\ j \in Nat \ {0}
      BY <1>1, <1>2, <2>3
    <3>2. rest[j].do \in Started => j = 1
      BY <3>1 DEF InOrder
    <3>3. rest[j].do \notin Started
      BY <1>1, <3>1, <3>2
    <3>4. ASSUME rest[j].do \in InHand PROVE i + 1 \in DOMAIN todo /\ Follows(todo[i], todo[i + 1])
      <4>1. j + 1 \in DOMAIN rest /\ Follows(rest[j], rest[j + 1])
        BY <3>1, <3>4 DEF InOrder
      <4>2. i + 1 \in n + 1 .. n + Len(rest) /\ i + 1 - n = j + 1
        BY <1>1, <2>3, <4>1
      <4>3. i + 1 \in DOMAIN todo /\ todo[i + 1] = rest[j + 1]
        BY <1>1, <1>2, <4>2
      <4> QED BY <3>1, <4>1, <4>3
    <3> QED BY <3>1, <3>3, <3>4
  <2>4. i \in 1 .. n \/ i \in n + 1 .. n + Len(rest)
    BY <1>1, <1>2
  <2> QED BY <1>1, <2>1, <2>2, <2>3, <2>4
<1> QED BY <1>2, <1>3, <1>4 DEF todo

\* A run of records of one kind, closed by its log entry.
LEMMA RunInOrder ==
  ASSUME NEW run \in Seq(Statements), NEW what \in {"lookup", "find"},
         \A i \in DOMAIN run : run[i].do = what
  PROVE  LET front == run \o <<[do |-> "log"]>>
         IN  /\ front \in Seq(Statements) /\ front # <<>> /\ InOrder(front)
             /\ \A i \in DOMAIN front : front[i].do \notin Started
             /\ \A i \in DOMAIN front : front[i].do \in InHand =>
                   i # Len(front) /\ Follows(front[i], front[i + 1])
<1> DEFINE last == <<[do |-> "log"]>>
           front == run \o last
           n == Len(run)
<1>1. last \in Seq(Statements) /\ Len(last) = 1 /\ last[1].do = "log"
  <2>1. [do |-> "log"] \in Statements
    BY DEF Statements
  <2> QED BY <2>1
<1>2. n \in Nat /\ DOMAIN run = 1 .. n
  OBVIOUS
<1> HIDE DEF last
<1>3. /\ front \in Seq(Statements) /\ Len(front) = n + 1 /\ DOMAIN front = 1 .. n + 1
      /\ \A i \in 1 .. n : front[i] = run[i]
      /\ front[n + 1] = last[1]
  BY <1>1, <1>2, ConcatProperties
<1> HIDE DEF front, n
<1>4. front # <<>>
  BY <1>2, <1>3
<1>5. \A i \in DOMAIN front : (i \in 1 .. n /\ front[i].do = what) \/ (i = n + 1 /\ front[i].do = "log")
  BY <1>1, <1>2, <1>3
<1>6. \A i \in DOMAIN front : front[i].do \notin Started
  BY <1>5 DEF Started
<1>7. ASSUME NEW i \in DOMAIN front, front[i].do \in InHand
      PROVE  i # Len(front) /\ i + 1 \in DOMAIN front /\ Follows(front[i], front[i + 1])
  <2>1. i \in 1 .. n /\ front[i].do = what
    BY <1>5, <1>7 DEF InHand
  <2>2. i + 1 \in DOMAIN front /\ i # Len(front)
    BY <1>2, <1>3, <2>1
  <2>3. front[i + 1].do \in {what, "log"}
    BY <1>5, <2>2
  <2> QED BY <2>1, <2>2, <2>3 DEF Follows
<1>8. InOrder(front)
  BY <1>6, <1>7 DEF InOrder
<1> QED BY <1>3, <1>4, <1>6, <1>7, <1>8 DEF front, last

\* The runs an upload or ansible may bring.
LEMMA Runs ==
  /\ \A records \in Seq(Records) :
        Lookups(records) \in Seq(Statements) /\ \A i \in DOMAIN Lookups(records) : Lookups(records)[i].do = "lookup"
  /\ \A names \in Seq(HostNames) :
        Finds(names) \in Seq(Statements) /\ \A i \in DOMAIN Finds(names) : Finds(names)[i].do = "find"
<1>1. ASSUME NEW records \in Seq(Records)
      PROVE  Lookups(records) \in Seq(Statements) /\ \A i \in DOMAIN Lookups(records) : Lookups(records)[i].do = "lookup"
  <2>1. DOMAIN records = 1 .. Len(records) /\ Len(records) \in Nat /\ \A i \in DOMAIN records : records[i] \in Records
    OBVIOUS
  <2>2. \A i \in DOMAIN records :
           [do |-> "lookup", host |-> records[i].host, listing |-> records[i].listing] \in Statements
    BY <2>1 DEF Records, Statements
  <2>3. \A i \in DOMAIN records : Lookups(records)[i] \in Statements /\ Lookups(records)[i].do = "lookup"
    BY <2>2 DEF Lookups
  <2>4. DOMAIN Lookups(records) = 1 .. Len(records)
    BY <2>1 DEF Lookups
  <2>5. Lookups(records) = [i \in 1 .. Len(records) |-> Lookups(records)[i]]
    BY <2>1 DEF Lookups
  <2>6. Lookups(records) \in Seq(Statements)
    BY <2>1, <2>3, <2>4, <2>5
  <2> QED BY <2>1, <2>3, <2>4, <2>6
<1>2. ASSUME NEW names \in Seq(HostNames)
      PROVE  Finds(names) \in Seq(Statements) /\ \A i \in DOMAIN Finds(names) : Finds(names)[i].do = "find"
  <2>1. DOMAIN names = 1 .. Len(names) /\ Len(names) \in Nat /\ \A i \in DOMAIN names : names[i] \in HostNames
    OBVIOUS
  <2>2. \A i \in DOMAIN names : [do |-> "find", host |-> names[i]] \in Statements
    BY <2>1 DEF Statements
  <2>3. \A i \in DOMAIN names : Finds(names)[i] \in Statements /\ Finds(names)[i].do = "find"
    BY <2>2 DEF Finds
  <2>4. DOMAIN Finds(names) = 1 .. Len(names)
    BY <2>1 DEF Finds
  <2>5. Finds(names) = [i \in 1 .. Len(names) |-> Finds(names)[i]]
    BY <2>1 DEF Finds
  <2>6. Finds(names) \in Seq(Statements)
    BY <2>1, <2>3, <2>4, <2>5
  <2> QED BY <2>1, <2>3, <2>4, <2>6
<1> QED BY <1>1, <1>2

LEMMA Outcomes ==
  ASSUME TypeOK, StoreInv, NEW c \in Clients, step(c)
  PROVE  (\E cmd \in Commands : begin(c, cmd)) \/ (sess[c] # None /\ Outcome(c) /\ OfItsKind(c))
<1> SUFFICES ASSUME ~(\E cmd \in Commands : begin(c, cmd))
             PROVE  sess[c] # None /\ Outcome(c) /\ OfItsKind(c)
  OBVIOUS
<1>1. sess[c] # None
  BY DEF step, works, collect_error, give_up, interrupted, commit, At, Doing, waits_for_lock,
         writes_next, get_user_by_username, guard_last_admin, delete_user, set_admin_or_active,
         setup_available, create_user_lookup, create_user, get_host, write_field, delete_host,
         lookup, replace, find_host, save_host, log, run_ansible
<1>2. sess[c] \in Sessions /\ Shape(sess[c])
  BY <1>1 DEF TypeOK, StoreInv
<1> PICK s \in Sessions : s = sess[c]
  BY <1>2
<1>3. IsCommand(s.cmd) /\ s.todo \in Seq(Statements) /\ s.pending \in Seq(Row) /\ Shape(s)
  BY <1>2, SharedStoreAssumption DEF Sessions
<1>4. lock = c => Holder(s)
  BY SharedStoreAssumption DEF StoreInv
<1>5. Kept(db) /\ Kept(View(c))
  BY SharedStoreAssumption DEF StoreInv, View
<1>0. /\ s.cmd.kind \in UserKinds \cup AddKinds =>
            s.cmd.kind \notin HostKinds \cup ImportKinds /\ lock # c /\ s.cmd.on \in UserNames
      /\ s.cmd.kind \in HostKinds => s.cmd.kind \notin UserKinds \cup AddKinds \cup ImportKinds
      /\ s.cmd.kind \in ImportKinds => s.cmd.kind \notin UserKinds \cup AddKinds \cup HostKinds
      /\ s.cmd.kind \in HostKinds => s.cmd.on \in HostNames
  BY <1>3, <1>4 DEF Holder, IsCommand, UserKinds, Guarded, AddKinds, HostKinds, FieldKinds, ImportKinds
\* The shapes a step may leave behind.
<1>6. ASSUME NEW t \in Sessions, t.cmd = s.cmd, s.cmd.kind \in UserKinds,
             t.pc \in {"guard", "write"}, t.got \in User
      PROVE  Shape(t)
  BY <1>0, <1>6 DEF Shape, HostKinds, UserKinds, Guarded, AddKinds
<1>7. ASSUME NEW t \in Sessions, t.cmd = s.cmd, s.cmd.kind \in AddKinds,
             t.pc \in {"read", "create", "write"}
      PROVE  Shape(t)
  BY <1>0, <1>7 DEF Shape, HostKinds, UserKinds, Guarded, AddKinds
<1>8. ASSUME NEW t \in Sessions, t.cmd = s.cmd, s.cmd.kind \in HostKinds,
             t.pc = "write" \/ (t.pc = "commit" /\ s.cmd.kind \in FieldKinds), t.got \in Sought
      PROVE  Shape(t)
  BY <1>0, <1>8 DEF Shape, HostKinds, FieldKinds
<1>9. ASSUME NEW t \in Sessions, t.cmd = s.cmd, s.cmd.kind \in ImportKinds,
             (t.pc = "commit" /\ t.todo = <<>>) \/ (t.pc = "work" /\ t.todo # <<>>),
             t.got \in {None} \cup [id : Ids], InOrder(t.todo),
             t.todo # <<>> /\ t.todo[1].do = "replace" => t.got # None,
             t.todo # <<>> /\ t.todo[1].do \in Started => ~t.dead,
             t.pending # <<>> => t.todo # <<>> /\ t.todo[1].do \in {"lookup", "replace", "log"}
      PROVE  Shape(t)
  BY <1>0, <1>9 DEF Shape, HostKinds
\* The kinds of step.
<1>10. ASSUME NEW t \in Sessions, t.cmd = s.cmd, Shape(t), lock = c => Holder(t), goes_on(c, t)
       PROVE  Outcome(c)
  BY <1>10 DEF Outcome, Fits
<1>11. ASSUME NEW t \in Sessions, NEW new, t.cmd = s.cmd, Shape(t), Holder(t), Kept(new),
              new.users = View(c).users, flush(c, new, t)
       PROVE  Outcome(c)
  <2>1. tx' = new
    BY <1>11 DEF flush
  <2> QED BY <1>11, <2>1 DEF Outcome, Fits
<1>12. ASSUME NEW new, Kept(new), flush_and_commit(c, new)
       PROVE  Outcome(c)
  <2>1. db' = new
    BY <1>12 DEF flush_and_commit
  <2> QED BY <1>12, <2>1 DEF Outcome
<1>13. end(c) \/ commit(c) => Outcome(c)
  BY DEF Outcome
\* One case per action.
<1>14. ASSUME get_user_by_username(c) PROVE Outcome(c)
  <2> DEFINE got == db.users[s.cmd.on]
             t == [s EXCEPT !.got = got, !.pc = IF s.cmd.kind \in Guarded THEN "guard" ELSE "write",
                            !.overtaken = FALSE]
  <2>1. ASSUME s.cmd.on \in DOMAIN db.users, goes_on(c, t) PROVE Outcome(c)
    <3>1. got \in User
      BY <1>5, <2>1 DEF Kept, IsFile, IsTable
    <3>2. t \in Sessions /\ t.cmd = s.cmd /\ t.pc \in {"guard", "write"} /\ t.got = got
      BY <3>1 DEF Sessions
    <3>3. s.cmd.kind \in UserKinds
      BY <1>14 DEF get_user_by_username, At
    <3> HIDE DEF t
    <3>4. Shape(t)
      BY <1>6, <3>1, <3>2, <3>3
    <3> QED BY <1>0, <1>10, <2>1, <3>2, <3>3, <3>4
  <2> QED BY <1>13, <1>14, <2>1 DEF get_user_by_username, has_read
<1>15. ASSUME guard_last_admin(c) PROVE Outcome(c)
  <2> DEFINE t == [s EXCEPT !.pc = "write"]
  <2>1. s.cmd.kind \in UserKinds /\ s.got \in User
    BY <1>3, <1>15 DEF guard_last_admin, At, UserKinds, Shape
  <2>2. t \in Sessions /\ t.cmd = s.cmd /\ t.pc = "write" /\ t.got = s.got
    BY DEF Sessions
  <2>3. end(c) \/ goes_on(c, t)
    BY <1>15 DEF guard_last_admin
  <2> HIDE DEF t
  <2>4. Shape(t)
    BY <1>6, <2>1, <2>2
  <2> QED BY <1>0, <1>10, <1>13, <2>1, <2>2, <2>3, <2>4
<1>16. ASSUME delete_user(c) PROVE Outcome(c)
  <2>1. \A id : Kept(without_user(db, id))
    BY <1>5, UserEdits
  <2> QED BY <1>12, <1>16, <2>1 DEF delete_user
<1>17. ASSUME set_admin_or_active(c) PROVE Outcome(c)
  <2>1. s.cmd.kind \in UserKinds \ {"delete_user"}
    BY <1>17 DEF set_admin_or_active, At
  <2>2. \A id : Kept(with_user_changed(db, id, s.cmd.kind))
    BY <1>5, <2>1, UserEdits
  <2> QED BY <1>12, <1>13, <1>17, <2>2 DEF set_admin_or_active
<1>18. ASSUME setup_available(c) PROVE Outcome(c)
  <2> DEFINE t == [s EXCEPT !.got = None, !.pc = "create", !.overtaken = FALSE]
  <2>1. s.cmd.kind \in AddKinds
    BY <1>18 DEF setup_available, At, AddKinds
  <2>2. t \in Sessions /\ t.cmd = s.cmd /\ t.pc = "create"
    BY DEF Sessions
  <2>3. end(c) \/ goes_on(c, t)
    BY <1>18 DEF setup_available, has_read
  <2> HIDE DEF t
  <2>4. Shape(t)
    BY <1>7, <2>1, <2>2
  <2> QED BY <1>0, <1>10, <1>13, <2>1, <2>2, <2>3, <2>4
<1>19. ASSUME create_user_lookup(c) PROVE Outcome(c)
  <2> DEFINE t == [s EXCEPT !.pc = "write", !.overtaken = IF s.pc = "read" THEN FALSE ELSE @]
  <2>1. s.cmd.kind \in AddKinds
    BY <1>19 DEF create_user_lookup, At, AddKinds
  <2>2. t \in Sessions /\ t.cmd = s.cmd /\ t.pc = "write"
    BY DEF Sessions
  <2>3. end(c) \/ goes_on(c, t)
    BY <1>19 DEF create_user_lookup
  <2> HIDE DEF t
  <2>4. Shape(t)
    BY <1>7, <2>1, <2>2
  <2> QED BY <1>0, <1>10, <1>13, <2>1, <2>2, <2>3, <2>4
<1>20. ASSUME create_user(c) PROVE Outcome(c)
  <2>1. s.cmd.kind \in AddKinds /\ s.cmd.on \in UserNames
    BY <1>0, <1>20 DEF create_user, At
  <2>2. s.cmd.on \notin DOMAIN db.users => Kept(with_user(db, s.cmd.on, s.cmd.kind = "setup"))
    BY <1>5, <2>1, UserEdits
  <2> QED BY <1>12, <1>13, <1>20, <2>2 DEF create_user
<1>21. ASSUME get_host(c) PROVE Outcome(c)
  <2> DEFINE host == db.hosts[s.cmd.on]
             got == [id |-> host.id, fields |-> host.fields, rows |-> RowsOf(db, host.id)]
             t == [s EXCEPT !.got = got, !.pc = "write", !.overtaken = FALSE]
  <2>1. s.cmd.kind \in HostKinds /\ s.pc = "read"
    BY <1>21 DEF get_host, At
  <2>2. ASSUME s.cmd.on \in DOMAIN db.hosts, goes_on(c, t) PROVE Outcome(c)
    <3>1. host \in Host /\ RowsOf(db, host.id) \subseteq Ids
      BY <1>5, <2>2 DEF Kept, IsFile, IsTable, RowsOf
    <3>2. got \in Sought
      BY <3>1 DEF Sought, Host
    <3> HIDE DEF got
    <3>3. t \in Sessions /\ t.cmd = s.cmd /\ t.pc = "write" /\ t.got = got
      BY <3>2 DEF Sessions
    <3> HIDE DEF t
    <3>5. Shape(t)
      BY <1>8, <2>1, <3>2, <3>3
    <3>6. lock = c => Holder(t)
      BY <1>0, <1>4, <2>1 DEF Holder
    <3> QED BY <1>10, <2>2, <3>3, <3>5, <3>6
  <2> QED BY <1>13, <1>21, <2>2 DEF get_host, has_read
<1>22. ASSUME write_field(c) PROVE Outcome(c)
  <2> DEFINE t == [s EXCEPT !.pc = "commit"]
             fields == edited(s.cmd, s.got.fields)
  <2>1. s.cmd.kind \in FieldKinds /\ s.cmd.kind \in HostKinds /\ s.pc = "write"
    BY <1>22 DEF write_field, At, HostKinds
  <2>2. s.got \in Sought
    BY <1>3, <2>1 DEF Shape
  <2>3. fields \in Dictionaries
    BY <1>3, <2>1, <2>2 DEF edited, Sought, Dictionaries, IsCommand
  <2>4. Kept(with_fields(db, s.got.id, fields))
    BY <1>5, <2>3, HostEdits
  <2>5. t \in Sessions /\ t.cmd = s.cmd /\ t.pc = "commit" /\ t.got = s.got
    BY DEF Sessions
  <2>6. end(c) \/ goes_on(c, t) \/ flush(c, with_fields(db, s.got.id, fields), t)
    BY <1>22 DEF write_field
  <2>8. with_fields(db, s.got.id, fields).users = db.users
    BY <1>5 DEF with_fields, Kept, IsFile
  <2>9. lock # c
    BY <1>3, <1>4, <2>1 DEF Holder, FieldKinds, ImportKinds
  <2> HIDE DEF t, fields
  <2>7. Shape(t) /\ Holder(t)
    BY <1>8, <2>1, <2>2, <2>5 DEF Holder
  <2> QED BY <1>10, <1>11, <1>13, <2>4, <2>5, <2>6, <2>7, <2>8, <2>9 DEF View
<1>23. ASSUME delete_host(c) PROVE Outcome(c)
  <2>1. \A rows, id : Kept(without_host(without_rows(db, rows), id))
    BY <1>5, RowEdits, HostEdits
  <2> QED BY <1>12, <1>23, <2>1 DEF delete_host
\* Imports: what is left to do after the statement at hand.
<1>24. ASSUME s.cmd.kind \in ImportKinds, s.pc = "work"
       PROVE  /\ s.todo # <<>> /\ s.todo \in Seq(Statements) /\ InOrder(s.todo)
              /\ s.todo[1] \in Statements
              /\ Tail(s.todo) \in Seq(Statements) /\ InOrder(Tail(s.todo))
              /\ Tail(s.todo) # <<>> => Tail(s.todo)[1] \in Statements /\ Tail(s.todo)[1].do \notin Started
              /\ s.todo[1].do \in InHand => Tail(s.todo) # <<>> /\ Follows(s.todo[1], Tail(s.todo)[1])
              /\ Tail(s.todo) = <<>> <=> Len(s.todo) = 1
              /\ s.got \in {None} \cup [id : Ids]
              /\ s.todo[1].do = "replace" => s.got # None
              /\ s.todo[1].do \in Started => ~s.dead
              /\ s.pending # <<>> => s.todo[1].do \in {"lookup", "replace", "log"}
              /\ lock = c => ~s.dead
              /\ skip(s) \in Sessions /\ skip(s).cmd = s.cmd /\ skip(s).pc = s.pc
              /\ skip(s).got = s.got /\ skip(s).todo = Tail(s.todo) /\ skip(s).dead = s.dead
              /\ skip(s).pending = s.pending
  <2>1. /\ s.todo # <<>> /\ s.got \in {None} \cup [id : Ids] /\ InOrder(s.todo)
        /\ s.todo[1].do = "replace" => s.got # None
        /\ s.todo[1].do \in Started => ~s.dead
        /\ s.pending # <<>> => s.todo[1].do \in {"lookup", "replace", "log"}
    BY <1>3, <1>24 DEF Shape
  <2>2. /\ Tail(s.todo) \in Seq(Statements) /\ InOrder(Tail(s.todo))
        /\ Tail(s.todo) = <<>> <=> Len(s.todo) = 1
        /\ Tail(s.todo) # <<>> => Tail(s.todo)[1] \in Statements /\ Tail(s.todo)[1].do \notin Started
        /\ s.todo[1] \in Statements
        /\ s.todo[1].do \in InHand => Tail(s.todo) # <<>> /\ Follows(s.todo[1], Tail(s.todo)[1])
    BY <1>3, <2>1, TailInOrder
  <2>3. lock = c => ~s.dead
    BY <1>0, <1>4, <1>24 DEF Holder, HostKinds
  <2>4. /\ skip(s) \in Sessions /\ skip(s).cmd = s.cmd /\ skip(s).pc = s.pc
        /\ skip(s).got = s.got /\ skip(s).todo = Tail(s.todo) /\ skip(s).dead = s.dead
        /\ skip(s).pending = s.pending
    BY <2>2 DEF skip, Sessions
  <2> QED BY <1>3, <2>1, <2>2, <2>3, <2>4
\* A record is left behind.
<1>25. ASSUME s.cmd.kind \in ImportKinds, s.pc = "work", s.todo[1].do \in InHand,
              NEW t \in Sessions, t.cmd = s.cmd, t.pc = s.pc, t.got = s.got, t.todo = Tail(s.todo),
              t.pending # <<>> => s.todo[1].do \in {"lookup", "replace"}
       PROVE  Shape(t)
  <2>1. t.todo # <<>> /\ t.todo[1].do \notin Started /\ InOrder(t.todo) /\ Follows(s.todo[1], t.todo[1])
    BY <1>24, <1>25
  <2>2. t.pending # <<>> => t.todo[1].do \in {"lookup", "log"}
    BY <1>25, <2>1 DEF Follows
  <2> QED BY <1>9, <1>24, <1>25, <2>1, <2>2 DEF Started
\* A record is taken in hand.
<1>26. ASSUME s.cmd.kind \in ImportKinds, s.pc = "work", NEW x \in Statements,
              \/ s.todo[1].do = "lookup" /\ x.do = "replace"
              \/ s.todo[1].do = "find" /\ x.do = "save"
       PROVE  /\ <<x>> \o Tail(s.todo) \in Seq(Statements) /\ <<x>> \o Tail(s.todo) # <<>>
              /\ InOrder(<<x>> \o Tail(s.todo)) /\ (<<x>> \o Tail(s.todo))[1] = x
  <2> DEFINE front == <<x>>
             rest == Tail(s.todo)
  <2>1. front \in Seq(Statements) /\ Len(front) = 1 /\ front[1] = x /\ DOMAIN front = {1} /\ front # <<>>
    OBVIOUS
  <2>2. s.todo[1].do \in InHand
    BY <1>26 DEF InHand
  <2>3. /\ rest \in Seq(Statements) /\ InOrder(rest) /\ rest # <<>> /\ rest[1].do \notin Started
        /\ Follows(s.todo[1], rest[1])
    BY <1>24, <1>26, <2>2
  <2>4. Follows(x, rest[1])
    BY <1>26, <2>3 DEF Follows
  <2> HIDE DEF front, rest
  <2>5. \A i \in DOMAIN front :
            /\ front[i].do \in Started => i = 1
            /\ front[i].do \in InHand /\ i = Len(front) => rest # <<>> /\ Follows(front[i], rest[1])
            /\ front[i].do \in InHand /\ i # Len(front) => Follows(front[i], front[i + 1])
    BY <2>1, <2>3, <2>4
  <2>6. /\ front \o rest \in Seq(Statements) /\ front \o rest # <<>>
        /\ InOrder(front \o rest) /\ (front \o rest)[1] = front[1]
    BY <2>1, <2>3, <2>5, FrontInOrder
  <2> QED BY <2>1, <2>6 DEF front, rest
\* A flush fails.
<1>27. ASSUME s.cmd.kind \in ImportKinds, s.pc = "work", s.todo[1].do \in InHand, fails(c)
       PROVE  Outcome(c)
  <2> DEFINE t == [skip(s) EXCEPT !.dead = TRUE, !.pending = <<>>]
  <2>1. /\ t \in Sessions /\ t.cmd = s.cmd /\ t.pc = s.pc /\ t.got = s.got
        /\ t.todo = Tail(s.todo) /\ t.pending = <<>>
    BY <1>24, <1>27, EmptySeq DEF Sessions
  <2>2. sess' = [sess EXCEPT ![c] = t] /\ Free(c) /\ lock' = None /\ tx' = None
        /\ UNCHANGED <<db, loop, starts>>
    BY <1>27 DEF fails
  <2> HIDE DEF t
  <2>3. Shape(t)
    BY <1>25, <1>27, <2>1
  <2>4. rolls_back(c, t) /\ Fits(c, t)
    BY <1>27, <2>1, <2>2, <2>3 DEF rolls_back, Fits
  <2> QED BY <2>1, <2>2, <2>4 DEF Outcome
<1>28. ASSUME lookup(c) PROVE Outcome(c)
  <2> DEFINE now == s.todo[1]
             x == [do |-> "replace", listing |-> now.listing]
             got == [id |-> View(c).hosts[now.host].id]
             over == s.overtaken /\ lock = c
             t == [then_do(s, <<x>>) EXCEPT !.got = got, !.overtaken = @ /\ lock = c]
  <2>1. s.cmd.kind \in ImportKinds /\ s.pc = "work" /\ now.do = "lookup" /\ now.do \in InHand
    BY <1>28 DEF lookup, Doing, At, InHand
  <2>2. Shape(skip(s)) /\ (lock = c => Holder(skip(s)))
    BY <1>24, <1>25, <2>1 DEF Holder
  <2>4. ASSUME ~s.dead, now.host \in DOMAIN View(c).hosts, goes_on(c, t) PROVE Outcome(c)
    <3>1. got \in [id : Ids]
      BY <1>5, <2>4 DEF Kept, IsFile, IsTable, Host
    <3>2. x \in Statements /\ x.do = "replace"
      <4>1. now.listing \in Listings
        BY <1>24, <2>1 DEF Statements, Parts
      <4> QED BY <4>1 DEF Statements
    <3> DEFINE todo == <<x>> \o Tail(s.todo)
    <3> HIDE DEF x, got
    <3>4. todo \in Seq(Statements) /\ todo # <<>> /\ InOrder(todo) /\ todo[1].do = "replace"
      BY <1>26, <2>1, <3>2
    <3>5. /\ t \in Sessions /\ t.cmd = s.cmd /\ t.pc = s.pc /\ t.got = got /\ t.todo = todo
          /\ t.dead = s.dead /\ t.pending = s.pending
      <4> PICK u : u = then_do(s, <<x>>)
        OBVIOUS
      <4>1. u \in Sessions /\ u = [s EXCEPT !.todo = todo]
        BY <3>4 DEF then_do, Sessions
      <4>2. over \in BOOLEAN /\ t = [u EXCEPT !.got = got, !.overtaken = u.overtaken /\ lock = c]
            /\ u.overtaken = s.overtaken
        BY <4>1 DEF Sessions
      <4> HIDE DEF t, todo
      <4> QED BY <3>1, <4>1, <4>2 DEF Sessions
    <3> HIDE DEF t, todo
    <3>6. Shape(t)
      BY <1>9, <2>1, <2>4, <3>1, <3>4, <3>5, SharedStoreAssumption
    <3> QED BY <1>10, <2>1, <2>4, <3>5, <3>6 DEF Holder
  <2> QED BY <1>10, <1>24, <1>28, <2>1, <2>2, <2>4 DEF lookup
<1>29. ASSUME replace(c) PROVE Outcome(c)
  <2> DEFINE listing == s.todo[1].listing
             cleared == without_rows(View(c), RowsOf(View(c), s.got.id))
             added == s.pending \o Added(s.got.id, ReadUpTo(listing))
             mixed == IF HasPending(s, s.got.id) THEN s.mixed \cup {s.got.id} ELSE s.mixed \ {s.got.id}
             u == [skip(s) EXCEPT !.mixed = IF HasPending(s, s.got.id) THEN @ \cup {s.got.id}
                                             ELSE @ \ {s.got.id}]
  <2>1. s.cmd.kind \in ImportKinds /\ s.pc = "work" /\ s.todo[1].do = "replace" /\ s.todo[1].do \in InHand
    BY <1>29 DEF replace, Doing, At, InHand
  <2>3. s.got \in [id : Ids] /\ ~s.dead /\ s.todo[1] \in Statements
    BY <2>1, <1>24 DEF Started
  <2>4. listing \in Listings
    BY <2>1, <2>3 DEF Statements, Parts
  <2>5. added \in Seq(Row)
    BY <1>3, <1>5, <2>3, <2>4, RowsRead
  <2>6. Kept(cleared) /\ Kept(with_rows(cleared, added))
    BY <1>5, <2>5, RowEdits
  <2>10. cleared.users = View(c).users /\ with_rows(cleared, added).users = cleared.users
    BY <1>5 DEF without_rows, with_rows, Kept, IsFile
  <2>11. /\ u \in Sessions /\ u.cmd = s.cmd /\ u.pc = s.pc /\ u.got = s.got
         /\ u.todo = Tail(s.todo) /\ u.dead = s.dead
    <3>1. mixed \in SUBSET Ids
      BY <2>3 DEF Sessions
    <3>2. u = [skip(s) EXCEPT !.mixed = mixed]
      BY DEF skip, Sessions
    <3> HIDE DEF mixed, u
    <3> QED BY <1>24, <2>1, <3>1, <3>2 DEF Sessions
  <2> HIDE DEF added, cleared, u
  <2>7. ASSUME NEW p \in Seq(Row), NEW new, Kept(new), new.users = View(c).users,
               flush(c, new, [u EXCEPT !.pending = p])
        PROVE  Outcome(c)
    <3> DEFINE t == [u EXCEPT !.pending = p]
    <3>1. /\ t \in Sessions /\ t.cmd = s.cmd /\ t.pc = s.pc /\ t.got = s.got
          /\ t.todo = Tail(s.todo) /\ t.dead = s.dead
      BY <2>7, <2>11 DEF Sessions
    <3> HIDE DEF t
    <3>2. Shape(t) /\ Holder(t)
      BY <1>25, <2>1, <2>3, <3>1 DEF Holder
    <3> QED BY <1>11, <2>7, <3>1, <3>2 DEF t
  <2>8. \/ flush(c, cleared, [u EXCEPT !.pending = added])
        \/ flush(c, with_rows(cleared, added), [u EXCEPT !.pending = <<>>])
        \/ fails(c)
    BY <1>29 DEF replace, added, cleared, u
  <2>9. <<>> \in Seq(Row)
    BY EmptySeq
  <2> QED BY <1>27, <2>1, <2>5, <2>6, <2>7, <2>8, <2>9, <2>10
<1>30. ASSUME find_host(c) PROVE Outcome(c)
  <2> DEFINE name == s.todo[1].host
             hosts == View(c).hosts
             x == [do |-> "save", host |-> name]
             got == IF name \in DOMAIN hosts THEN [id |-> hosts[name].id] ELSE None
             t == [then_do(s, <<x>>) EXCEPT !.got = got, !.overtaken = @ /\ lock = c]
  <2>1. s.cmd.kind \in ImportKinds /\ s.pc = "work" /\ s.todo[1].do = "find" /\ s.todo[1].do \in InHand
    BY <1>30 DEF find_host, Doing, At, InHand
  <2>2. s.pending = <<>>
    BY <1>24, <2>1
  <2>3. Shape(skip(s)) /\ (lock = c => Holder(skip(s)))
    BY <1>24, <1>25, <2>1, <2>2 DEF Holder
  <2>4. ASSUME ~s.dead, goes_on(c, t) PROVE Outcome(c)
    <3>1. got \in {None} \cup [id : Ids]
      BY <1>5 DEF Kept, IsFile, IsTable, Host
    <3>2. x \in Statements /\ x.do = "save"
      <4>1. name \in HostNames
        BY <1>24, <2>1 DEF Statements, Parts
      <4> QED BY <4>1 DEF Statements
    <3> DEFINE todo == <<x>> \o Tail(s.todo)
    <3> HIDE DEF x, got
    <3>4. todo \in Seq(Statements) /\ todo # <<>> /\ InOrder(todo) /\ todo[1].do = "save"
      BY <1>26, <2>1, <3>2
    <3>5. /\ t \in Sessions /\ t.cmd = s.cmd /\ t.pc = s.pc /\ t.got = got /\ t.todo = todo
          /\ t.dead = s.dead /\ t.pending = s.pending
      <4> PICK u : u = then_do(s, <<x>>)
        OBVIOUS
      <4>1. u \in Sessions /\ u = [s EXCEPT !.todo = todo]
        BY <3>4 DEF then_do, Sessions
      <4>2. t = [u EXCEPT !.got = got, !.overtaken = u.overtaken /\ lock = c]
        BY <4>1 DEF Sessions
      <4> HIDE DEF t, todo
      <4> QED BY <3>1, <4>1, <4>2 DEF Sessions
    <3> HIDE DEF t, todo
    <3>6. Shape(t)
      BY <1>9, <2>1, <2>2, <2>4, <3>1, <3>4, <3>5
    <3> QED BY <1>10, <2>1, <2>4, <3>5, <3>6 DEF Holder
  <2> QED BY <1>10, <1>24, <1>30, <2>1, <2>3, <2>4 DEF find_host
<1>31. ASSUME save_host(c) PROVE Outcome(c)
  <2> DEFINE name == s.todo[1].host
             new == with_host(View(c), name)
             t == skip(s)
  <2>1. s.cmd.kind \in ImportKinds /\ s.pc = "work" /\ s.todo[1].do = "save" /\ s.todo[1].do \in InHand
    BY <1>31 DEF save_host, Doing, At, InHand
  <2>2. s.pending = <<>> /\ ~s.dead /\ s.todo[1] \in Statements
    BY <1>24, <2>1 DEF Started
  <2>3. name \in HostNames
    BY <2>1, <2>2 DEF Statements, Parts
  <2>4. name \notin DOMAIN View(c).hosts => Kept(new)
    BY <1>5, <2>3, HostEdits
  <2>5. \/ flush(c, View(c), t) \/ fails(c)
        \/ name \notin DOMAIN View(c).hosts /\ flush(c, new, t)
    BY <1>31 DEF save_host
  <2>6. /\ t \in Sessions /\ t.cmd = s.cmd /\ t.pc = s.pc /\ t.got = s.got
        /\ t.todo = Tail(s.todo) /\ t.dead = s.dead /\ t.pending = s.pending
    BY <1>24, <2>1
  <2>8. new.users = View(c).users
    BY <1>5 DEF with_host, Kept, IsFile
  <2> HIDE DEF t, new
  <2>7. Shape(t) /\ Holder(t)
    BY <1>25, <2>1, <2>2, <2>6 DEF Holder
  <2> QED BY <1>5, <1>11, <1>27, <2>1, <2>4, <2>5, <2>6, <2>7, <2>8
<1>32. ASSUME log(c) PROVE Outcome(c)
  <2> DEFINE t == [skip(s) EXCEPT !.pending = <<>>, !.pc = IF Len(s.todo) = 1 THEN "commit" ELSE @]
             new == with_rows(View(c), s.pending)
  <2>1. s.cmd.kind \in ImportKinds /\ s.pc = "work"
    BY <1>32 DEF log, Doing, At
  <2>2. end(c) \/ (~s.dead /\ flush(c, new, t))
    BY <1>32 DEF log
  <2>3. Kept(new)
    BY <1>3, <1>5, RowEdits
  <2>4. /\ t \in Sessions /\ t.cmd = s.cmd /\ t.pc = (IF Len(s.todo) = 1 THEN "commit" ELSE s.pc)
        /\ t.got = s.got /\ t.todo = Tail(s.todo) /\ t.dead = s.dead /\ t.pending = <<>>
    BY <1>24, <2>1, EmptySeq DEF Sessions
  <2>6. new.users = View(c).users
    BY <1>5 DEF with_rows, Kept, IsFile
  <2>7. /\ InOrder(t.todo) /\ (t.todo # <<>> => t.todo[1].do \notin Started)
        /\ (t.pc = "commit" /\ t.todo = <<>>) \/ (t.pc = "work" /\ t.todo # <<>>)
    BY <1>24, <2>1, <2>4
  <2> HIDE DEF t, new
  <2>5. Shape(t)
    BY <1>9, <1>24, <2>1, <2>4, <2>7 DEF Started
  <2> QED BY <1>11, <1>13, <2>1, <2>2, <2>3, <2>4, <2>5, <2>6 DEF Holder
<1>33. ASSUME run_ansible(c) PROVE Outcome(c)
  <2>1. s.cmd.kind \in ImportKinds /\ s.pc = "work"
    BY <1>33 DEF run_ansible, Doing, At
  <2>2. PICK kind \in Parts : /\ s.todo[1].do = kind
                              /\ \E b \in Brought(kind) : goes_on(c, then_do(s, b \o <<[do |-> "log"]>>))
    BY <1>33 DEF run_ansible, Doing
  <2>8. PICK brought \in Brought(kind) : goes_on(c, then_do(s, brought \o <<[do |-> "log"]>>))
    BY <2>2
  <2> DEFINE front == brought \o <<[do |-> "log"]>>
             rest == Tail(s.todo)
             todo == front \o rest
             t == then_do(s, front)
  <2>3. /\ front \in Seq(Statements) /\ front # <<>>
        /\ \A i \in DOMAIN front : front[i].do \notin Started
        /\ \A i \in DOMAIN front : front[i].do \in InHand => i # Len(front) /\ Follows(front[i], front[i + 1])
    <3>1. \E what \in {"lookup", "find"} : brought \in Seq(Statements) /\ \A i \in DOMAIN brought : brought[i].do = what
      <4>1. CASE kind = "facts"
        <5>1. PICK names \in FactsRuns : brought = Finds(names)
          BY <2>8, <4>1 DEF Brought
        <5>2. names \in Seq(HostNames)
          BY SharedStoreAssumption
        <5> QED BY <5>1, <5>2, Runs
      <4>2. CASE kind = "docker"
        <5>1. PICK records \in DockerRuns : brought = Lookups(records)
          BY <2>8, <4>2 DEF Brought
        <5>2. records \in Seq(Records)
          BY SharedStoreAssumption
        <5> QED BY <5>1, <5>2, Runs
      <4>3. CASE kind = "other"
        <5>1. brought = <<>>
          BY <2>8, <4>3 DEF Brought
        <5> QED BY <5>1, EmptySeq
      <4> QED BY <4>1, <4>2, <4>3 DEF Parts
    <3>2. PICK what \in {"lookup", "find"} : brought \in Seq(Statements) /\ \A i \in DOMAIN brought : brought[i].do = what
      BY <3>1
    <3> QED BY <3>2, RunInOrder
  <2> HIDE DEF front
  <2>9. rest \in Seq(Statements) /\ InOrder(rest) /\ (rest # <<>> => rest[1].do \notin Started)
    BY <1>24, <2>1
  <2> HIDE DEF rest
  <2>10. \A i \in DOMAIN front :
            /\ front[i].do \in Started => i = 1
            /\ front[i].do \in InHand /\ i = Len(front) => rest # <<>> /\ Follows(front[i], rest[1])
            /\ front[i].do \in InHand /\ i # Len(front) => Follows(front[i], front[i + 1])
    BY <2>3
  <2>4. todo \in Seq(Statements) /\ todo # <<>> /\ InOrder(todo) /\ todo[1] = front[1]
    BY <2>3, <2>9, <2>10, FrontInOrder
  <2>11. todo[1].do \notin Started
    <3>1. 1 \in DOMAIN front
      BY <2>3
    <3> QED BY <2>3, <2>4, <3>1
  <2>5. /\ t \in Sessions /\ t.cmd = s.cmd /\ t.pc = s.pc /\ t.got = s.got /\ t.todo = todo
        /\ t.dead = s.dead /\ t.pending = s.pending
    <3>1. t = [s EXCEPT !.todo = todo]
      BY DEF then_do, rest
    <3> HIDE DEF t, todo
    <3> QED BY <2>4, <3>1 DEF Sessions
  <2>6. goes_on(c, t)
    BY <2>8 DEF front
  <2>12. s.pending = <<>>
    BY <1>24, <2>1, <2>2 DEF Parts
  <2> HIDE DEF t, todo
  <2>7. Shape(t)
    BY <1>9, <1>24, <2>1, <2>4, <2>5, <2>11, <2>12 DEF Started
  <2> QED BY <1>10, <1>24, <2>1, <2>5, <2>6, <2>7 DEF Holder
<1>34. ASSUME collect_error(c) PROVE Outcome(c)
  <2> DEFINE t == [s EXCEPT !.pc = "commit", !.todo = <<>>]
  <2>1. s.cmd.kind \in ImportKinds /\ s.pc = "work" /\ s.todo[1].do \in Parts
    BY <1>34 DEF collect_error, Doing, At
  <2>2. end(c) \/ goes_on(c, t)
    BY <1>34 DEF collect_error
  <2>3. /\ t \in Sessions /\ t.cmd = s.cmd /\ t.pc = "commit" /\ t.got = s.got /\ t.todo = <<>>
        /\ t.dead = s.dead /\ t.pending = s.pending
    BY EmptySeq DEF Sessions
  <2>5. s.pending = <<>>
    BY <1>24, <2>1 DEF Parts
  <2>6. InOrder(<<>>)
    BY DEF InOrder
  <2> HIDE DEF t
  <2>4. Shape(t)
    BY <1>9, <1>24, <2>1, <2>3, <2>5, <2>6
  <2> QED BY <1>10, <1>13, <1>24, <2>1, <2>2, <2>3, <2>4 DEF Holder
<1>35. ASSUME give_up(c) PROVE Outcome(c)
  <2>1. lock # c
    BY <1>35 DEF give_up, waits_for_lock
  <2>3. CASE Doing(c, "replace") /\ goes_on(c, skip(s))
    <3>1. s.cmd.kind \in ImportKinds /\ s.pc = "work" /\ s.todo[1].do = "replace" /\ s.todo[1].do \in InHand
      BY <2>3 DEF Doing, At, InHand
    <3>2. Shape(skip(s))
      BY <1>24, <1>25, <3>1
    <3> QED BY <1>10, <1>24, <2>1, <2>3, <3>1, <3>2
  <2>4. CASE Doing(c, "save") /\ goes_on(c, [skip(s) EXCEPT !.dead = TRUE])
    <3> DEFINE t == [skip(s) EXCEPT !.dead = TRUE]
    <3>1. s.cmd.kind \in ImportKinds /\ s.pc = "work" /\ s.todo[1].do = "save"
      BY <2>4 DEF Doing, At
    <3>2. ~s.dead /\ s.todo[1].do \in InHand /\ s.pending = <<>>
      BY <1>24, <3>1 DEF Started, InHand
    <3>3. /\ t \in Sessions /\ t.cmd = s.cmd /\ t.pc = s.pc /\ t.got = s.got /\ t.todo = Tail(s.todo)
          /\ t.pending = s.pending
      BY <1>24, <3>1 DEF Sessions
    <3>4. goes_on(c, t)
      BY <2>4
    <3> HIDE DEF t
    <3>5. Shape(t)
      BY <1>25, <3>1, <3>2, <3>3
    <3> QED BY <1>10, <2>1, <3>3, <3>4, <3>5
  <2> QED BY <1>13, <1>35, <2>3, <2>4 DEF give_up
<1>36. Outcome(c)
  BY <1>13, <1>14, <1>15, <1>16, <1>17, <1>18, <1>19, <1>20, <1>21, <1>22, <1>23, <1>28, <1>29,
     <1>30, <1>32, <1>33, <1>34, <1>35, <1>31 DEF step, works, interrupted
<1>37. OfItsKind(c)
  <2> SUFFICES ASSUME sess'[c] # None PROVE OfItsKind(c)
    BY DEF OfItsKind
  <2>1. ~end(c) /\ (\A new : ~flush_and_commit(c, new)) /\ ~commit(c)
    BY DEF TypeOK, end, flush_and_commit, commit, AfterCommit
  <2>2. /\ ~delete_user(c) /\ ~set_admin_or_active(c) /\ ~create_user(c) /\ ~delete_host(c)
        /\ ~interrupted(c)
    BY <2>1 DEF delete_user, set_admin_or_active, create_user, delete_host, interrupted
  <2>3. s.cmd.kind \in UserKinds \cup AddKinds => OfItsKind(c)
    <3> SUFFICES ASSUME s.cmd.kind \in UserKinds \cup AddKinds PROVE OfItsKind(c)
      OBVIOUS
    <3>1. /\ ~get_host(c) /\ ~write_field(c) /\ ~lookup(c) /\ ~replace(c) /\ ~find_host(c) /\ ~save_host(c)
          /\ ~log(c) /\ ~run_ansible(c) /\ ~collect_error(c) /\ ~give_up(c)
      BY <1>0, <2>1 DEF get_host, write_field, lookup, replace, find_host, save_host, log, run_ansible,
         collect_error, give_up, Doing, At, HostKinds
    <3> QED BY <1>0, <2>1, <2>2, <3>1 DEF OfItsKind, step, works
  <2>4. s.cmd.kind \in HostKinds => OfItsKind(c)
    <3> SUFFICES ASSUME s.cmd.kind \in HostKinds PROVE OfItsKind(c)
      OBVIOUS
    <3>1. /\ ~get_user_by_username(c) /\ ~guard_last_admin(c) /\ ~setup_available(c)
          /\ ~create_user_lookup(c) /\ ~lookup(c) /\ ~replace(c) /\ ~find_host(c) /\ ~save_host(c)
          /\ ~log(c) /\ ~run_ansible(c) /\ ~collect_error(c) /\ ~give_up(c)
      BY <1>0, <2>1 DEF get_user_by_username, guard_last_admin, setup_available, create_user_lookup,
         lookup, replace, find_host, save_host, log, run_ansible, collect_error, give_up, Doing, At, UserKinds,
         AddKinds
    <3> QED BY <1>0, <2>1, <2>2, <3>1 DEF OfItsKind, step, works
  <2>5. s.cmd.kind \in ImportKinds => OfItsKind(c)
    <3> SUFFICES ASSUME s.cmd.kind \in ImportKinds PROVE OfItsKind(c)
      OBVIOUS
    <3>1. /\ ~get_user_by_username(c) /\ ~guard_last_admin(c) /\ ~setup_available(c)
          /\ ~create_user_lookup(c) /\ ~get_host(c) /\ ~write_field(c)
      BY <1>0 DEF get_user_by_username, guard_last_admin, setup_available, create_user_lookup,
         get_host, write_field, At, UserKinds, AddKinds, HostKinds
    <3> QED BY <1>0, <2>1, <2>2, <3>1 DEF OfItsKind, step, works
  <2> QED BY <1>3, <2>3, <2>4, <2>5 DEF IsCommand
<1> QED BY <1>1, <1>36, <1>37

\* What a step of c does to the sessions of others, and to a lock that is theirs.
LEMMA Others ==
  ASSUME TypeOK, NEW c \in Clients, step(c), StoreInv
  PROVE  /\ sess' = [x \in Clients |-> sess'[x]]
         /\ \A x \in Clients \ {c} :
               \/ sess'[x] = sess[x] /\ (sess[x] = None \/ db' = db)
               \/ sess[x] # None /\ sess'[x] = [sess[x] EXCEPT !.overtaken = TRUE]
         /\ lock \notin {None, c} => UNCHANGED <<db, lock, tx>>
         /\ lock' \in {lock, None, c}
<1>1. sess = [x \in Clients |-> sess[x]]
  BY DEF TypeOK
<1>2. ASSUME sess' = [AfterCommit(c, db', sess) EXCEPT ![c] = None]
      PROVE  /\ sess' = [x \in Clients |-> sess'[x]]
             /\ \A x \in Clients \ {c} :
                   \/ sess'[x] = sess[x] /\ (sess[x] = None \/ db' = db)
                   \/ sess[x] # None /\ sess'[x] = [sess[x] EXCEPT !.overtaken = TRUE]
  BY <1>2 DEF AfterCommit
<1>3. CASE \E cmd \in Commands : begin(c, cmd)
  BY <1>1, <1>3 DEF begin
<1>4. CASE \E s : goes_on(c, s)
  BY <1>1, <1>4 DEF goes_on
<1>5. CASE \E s : flush(c, tx', s)
  BY <1>1, <1>5 DEF flush, Free
<1>6. CASE \E s : Free(c) /\ rolls_back(c, s)
  BY <1>1, <1>6 DEF rolls_back, Free
<1>7. CASE flush_and_commit(c, db')
  <2>1. sess' = [AfterCommit(c, db', sess) EXCEPT ![c] = None] /\ lock = None /\ UNCHANGED <<lock, tx>>
    BY <1>7 DEF flush_and_commit
  <2> QED BY <1>2, <2>1
<1>8. CASE commit(c)
  <2>1. sess' = [AfterCommit(c, db', sess) EXCEPT ![c] = None] /\ db' = View(c)
    BY <1>8 DEF commit
  <2>2. lock \notin {None, c} => UNCHANGED <<db, lock, tx>>
    BY <1>8 DEF commit, View
  <2>3. lock' \in {lock, None}
    BY <1>8 DEF commit
  <2> QED BY <1>2, <2>1, <2>2, <2>3
<1>9. CASE end(c)
  BY <1>1, <1>9 DEF end
<1> QED BY <1>3, <1>4, <1>5, <1>6, <1>7, <1>8, <1>9, Outcomes DEF Outcome


------------------------------------------------------------------------------
(* Every session, the lock, the event loop and the file stay in shape.      *)

\* A command begins at its first statement.
LEMMA Beginnings ==
  ASSUME NEW cmd \in Commands
  PROVE  NewSession(cmd, Todo(cmd)) \in Sessions /\ Shape(NewSession(cmd, Todo(cmd)))
<1> DEFINE todo == Todo(cmd)
<1>1. IsCommand(cmd)
  BY SharedStoreAssumption
<1>2. /\ todo \in Seq(Statements) /\ (todo # <<>> <=> cmd.kind \in ImportKinds)
      /\ InOrder(todo) /\ (todo # <<>> => todo[1].do \notin Started)
  <2>1. CASE cmd.kind = "import_docker"
    <3>1. todo = Lookups(cmd.records) \o <<[do |-> "log"]>>
      BY <2>1 DEF Todo
    <3>2. cmd.records \in Seq(Records)
      BY <1>1, <2>1 DEF IsCommand
    <3>3. Lookups(cmd.records) \in Seq(Statements)
          /\ \A i \in DOMAIN Lookups(cmd.records) : Lookups(cmd.records)[i].do = "lookup"
      BY <3>2, Runs
    <3> HIDE DEF todo
    <3>4. /\ todo \in Seq(Statements) /\ todo # <<>> /\ InOrder(todo)
          /\ \A i \in DOMAIN todo : todo[i].do \notin Started
      BY <3>1, <3>3, RunInOrder
    <3>5. 1 \in DOMAIN todo
      BY <3>4
    <3> QED BY <2>1, <3>4, <3>5 DEF ImportKinds
  <2>2. CASE cmd.kind = "collect"
    <3>1. todo = [i \in DOMAIN cmd.parts |-> [do |-> cmd.parts[i]]]
      BY <2>2 DEF Todo
    <3>2. cmd.parts \in Seq(Parts) /\ cmd.parts # <<>>
      BY <1>1, <2>2 DEF IsCommand
    <3>3. \A d \in Parts : [do |-> d] \in Statements /\ d \notin Started \cup InHand
      BY DEF Statements, Parts, Started, InHand
    <3>4. DOMAIN cmd.parts = 1 .. Len(cmd.parts) /\ Len(cmd.parts) \in Nat \ {0}
      BY <3>2, EmptySeq
    <3>5. \A i \in DOMAIN cmd.parts : cmd.parts[i] \in Parts
      BY <3>2
    <3>6. todo \in Seq(Statements) /\ DOMAIN todo = 1 .. Len(cmd.parts)
      BY <3>1, <3>3, <3>4, <3>5
    <3>7. \A i \in DOMAIN todo : todo[i].do \in Parts
      BY <3>1, <3>5
    <3> HIDE DEF todo
    <3>8. todo # <<>> /\ 1 \in DOMAIN todo
      BY <3>4, <3>6
    <3>9. InOrder(todo)
      BY <3>3, <3>7 DEF InOrder
    <3> QED BY <2>2, <3>3, <3>6, <3>7, <3>8, <3>9 DEF ImportKinds
  <2>3. CASE cmd.kind \notin ImportKinds
    <3>1. todo = <<>>
      BY <2>3 DEF Todo, ImportKinds
    <3>2. InOrder(<<>>)
      BY DEF InOrder
    <3> QED BY <2>3, <3>1, <3>2, EmptySeq
  <2> QED BY <2>1, <2>2, <2>3 DEF ImportKinds
<1> DEFINE t == NewSession(cmd, todo)
           pc == IF todo = <<>> THEN "read" ELSE "work"
<1>3. t = [cmd |-> cmd, pc |-> pc, got |-> None, todo |-> todo, pending |-> <<>>,
           dead |-> FALSE, overtaken |-> FALSE, mixed |-> {}]
  BY DEF NewSession
<1>4. t \in Sessions
  <2>1. <<>> \in Seq(Row) /\ pc \in {"read", "work"} /\ todo \in Seq(Statements)
    BY <1>2, EmptySeq
  <2> HIDE DEF pc, t, todo
  <2> QED BY <1>3, <2>1 DEF Sessions
<1> HIDE DEF t, todo
<1>5. cmd.kind \in UserKinds \cup AddKinds \cup HostKinds => cmd.kind \notin ImportKinds
  BY DEF UserKinds, Guarded, AddKinds, HostKinds, FieldKinds, ImportKinds
<1>6. Shape(t)
  BY <1>2, <1>3, <1>5 DEF Shape, HostKinds, Started
<1> QED BY <1>4, <1>6 DEF t, todo

\* Whatever commits, is rolled back, times out or fails half way: the file has
\* rows of the declared shape with unique rowids, only a session that will
\* still end its transaction has the lock, and only a running handler the loop.
THEOREM StoreTyped == Spec => [](TypeOK /\ StoreInv)
<1>1. Init => TypeOK /\ StoreInv
  <2> SUFFICES ASSUME Init PROVE TypeOK /\ StoreInv
    OBVIOUS
  <2>1. IsFile(db) /\ UniqueIds(db.users) /\ UniqueIds(db.hosts)
    BY SharedStoreAssumption DEF Init
  <2>2. Bounded(db)
    <3>1. /\ \A id \in UserIds(db) \cup HostIds(db) : id =< MaxId
          /\ \A i \in DOMAIN db.rows : i =< MaxId
      BY SharedStoreAssumption DEF Init, UserIds, HostIds
    <3>2. MaxId \in Nat
      BY SharedStoreAssumption
    <3> QED BY <3>1, <3>2 DEF Bounded
  <2> QED BY <2>1, <2>2 DEF Init, TypeOK, StoreInv, Kept
<1>2. TypeOK /\ StoreInv /\ [Next]_vars => TypeOK' /\ StoreInv'
  <2> SUFFICES ASSUME TypeOK, StoreInv, [Next]_vars PROVE TypeOK' /\ StoreInv'
    OBVIOUS
  <2>1. CASE UNCHANGED vars
    BY <2>1 DEF vars, TypeOK, StoreInv, Kept, Bounded, UserIds, HostIds
  <2>2. ASSUME NEW c \in Clients, step(c) PROVE TypeOK' /\ StoreInv'
    <3> DEFINE LeftInShape ==
                 /\ Kept(db') /\ (lock' # None => Kept(tx')) /\ (lock' = None => tx' = None)
                 /\ sess'[c] # None => sess'[c] \in Sessions /\ Shape(sess'[c])
                 /\ lock' = c => sess'[c] # None /\ Holder(sess'[c])
                 /\ loop' \in {loop, None, c}
                 /\ loop' = c => sess'[c] # None /\ sess'[c].pc # "commit"
                 /\ starts' \in Nat
    <3>1. /\ Kept(db) /\ (lock # None => Kept(tx)) /\ (lock = None => tx = None)
          /\ lock \in Clients \cup {None} /\ loop \in Clients \cup {None} /\ starts \in Nat
          /\ sess = [x \in Clients |-> sess[x]] /\ c # None
      BY SharedStoreAssumption DEF TypeOK, StoreInv
    <3>2. lock = c => Holder(sess[c]) /\ sess[c] # None
      BY <3>1 DEF StoreInv
    <3>3. loop = c => sess[c] # None /\ sess[c].pc # "commit"
      BY <3>1 DEF StoreInv
    <3>4. ASSUME \E cmd \in Commands : begin(c, cmd) PROVE LeftInShape
      <4> PICK cmd \in Commands : begin(c, cmd)
        BY <3>4
      <4> DEFINE t == NewSession(cmd, Todo(cmd))
      <4>1. t \in Sessions /\ Shape(t) /\ t.pc # "commit"
        BY Beginnings DEF NewSession
      <4>2. t # None
        BY <4>1, SharedStoreAssumption
      <4>3. /\ sess' = [sess EXCEPT ![c] = t] /\ sess[c] = None /\ starts' = starts + 1
            /\ loop' \in {loop, c} /\ UNCHANGED <<db, lock, tx>>
        BY DEF begin
      <4> HIDE DEF t
      <4>4. sess'[c] = t
        BY <3>1, <4>3
      <4> QED BY <3>1, <3>2, <4>1, <4>2, <4>3, <4>4
    <3>5. ASSUME sess[c] # None, Outcome(c) PROVE LeftInShape
      <4>1. ASSUME NEW s \in Sessions, Fits(c, s), lock = c => Holder(s), goes_on(c, s)
            PROVE  LeftInShape
        <5>1. /\ sess' = [sess EXCEPT ![c] = s] /\ UNCHANGED <<db, lock, tx, starts>>
              /\ loop' = IF loop = c /\ s.pc = "commit" THEN None ELSE loop
          BY <4>1 DEF goes_on, LeaveLoopIfDone
        <5>2. sess'[c] = s /\ s # None
          BY <3>1, <5>1, SharedStoreAssumption
        <5> QED BY <3>1, <4>1, <5>1, <5>2 DEF Fits
      <4>2. ASSUME NEW s \in Sessions, Fits(c, s), Holder(s), Kept(tx'), flush(c, tx', s)
            PROVE  LeftInShape
        <5>1. /\ sess' = [sess EXCEPT ![c] = s] /\ UNCHANGED <<db, starts>> /\ lock' = c
              /\ loop' = IF loop = c /\ s.pc = "commit" THEN None ELSE loop
          BY <4>2 DEF flush, LeaveLoopIfDone
        <5>2. sess'[c] = s /\ s # None
          BY <3>1, <5>1, SharedStoreAssumption
        <5> QED BY <3>1, <4>2, <5>1, <5>2 DEF Fits
      <4>3. ASSUME NEW s \in Sessions, Fits(c, s), rolls_back(c, s)
            PROVE  LeftInShape
        <5>1. /\ sess' = [sess EXCEPT ![c] = s] /\ UNCHANGED <<db, loop, starts>> /\ lock' = None
              /\ tx' = None /\ s.pc # "commit"
          BY <4>3 DEF rolls_back
        <5>2. sess'[c] = s /\ s # None
          BY <3>1, <5>1, SharedStoreAssumption
        <5> QED BY <3>1, <3>3, <4>3, <5>1, <5>2 DEF Fits
      <4>4. ASSUME Kept(db'), flush_and_commit(c, db') PROVE LeftInShape
        <5>1. /\ sess' = [AfterCommit(c, db', sess) EXCEPT ![c] = None] /\ lock = None
              /\ UNCHANGED <<lock, tx, starts>> /\ loop' = IF loop = c THEN None ELSE loop
          BY <4>4 DEF flush_and_commit, LeaveLoop
        <5>2. sess'[c] = None
          BY <5>1 DEF AfterCommit
        <5> QED BY <3>1, <4>4, <5>1, <5>2
      <4>5. ASSUME commit(c) PROVE LeftInShape
        <5>1. /\ sess' = [AfterCommit(c, db', sess) EXCEPT ![c] = None] /\ db' = View(c)
              /\ IF lock = c THEN lock' = None /\ tx' = None ELSE UNCHANGED <<lock, tx>>
              /\ UNCHANGED <<loop, starts>> /\ sess[c].pc = "commit"
          BY <4>5 DEF commit
        <5>2. sess'[c] = None
          BY <5>1 DEF AfterCommit
        <5>3. Kept(db')
          BY <3>1, <5>1 DEF View
        <5> QED BY <3>1, <3>3, <5>1, <5>2, <5>3
      <4>6. ASSUME end(c) PROVE LeftInShape
        <5>1. /\ sess' = [sess EXCEPT ![c] = None] /\ UNCHANGED <<db, starts>>
              /\ IF lock = c THEN lock' = None /\ tx' = None ELSE UNCHANGED <<lock, tx>>
              /\ loop' = IF loop = c THEN None ELSE loop
          BY <4>6 DEF end, LeaveLoop
        <5>2. sess'[c] = None
          BY <3>1, <5>1
        <5> QED BY <3>1, <5>1, <5>2
      <4> HIDE DEF LeftInShape
      <4> QED BY <3>5, <4>1, <4>2, <4>3, <4>4, <4>5, <4>6 DEF Outcome
    <3>6. LeftInShape
      <4> HIDE DEF LeftInShape
      <4> QED BY <2>2, <3>4, <3>5, Outcomes
    <3>7. /\ sess' = [x \in Clients |-> sess'[x]]
          /\ \A x \in Clients \ {c} :
                \/ sess'[x] = sess[x] /\ (sess[x] = None \/ db' = db)
                \/ sess[x] # None /\ sess'[x] = [sess[x] EXCEPT !.overtaken = TRUE]
          /\ lock' \in {lock, None, c}
      BY <2>2, Others
    <3>8. \A x \in Clients : sess[x] # None => sess[x] \in Sessions /\ Shape(sess[x])
      BY DEF TypeOK, StoreInv
    <3>9. ASSUME NEW s \in Sessions
          PROVE  LET t == [s EXCEPT !.overtaken = TRUE]
                 IN  /\ t \in Sessions /\ t # None /\ t.pc = s.pc
                     /\ Shape(s) => Shape(t)
                     /\ Holder(s) => Holder(t)
      <4> DEFINE t == [s EXCEPT !.overtaken = TRUE]
      <4>1. /\ t \in Sessions /\ t.cmd = s.cmd /\ t.pc = s.pc /\ t.got = s.got /\ t.todo = s.todo
            /\ t.dead = s.dead /\ t.pending = s.pending
        BY DEF Sessions
      <4>2. t # None
        BY <4>1, SharedStoreAssumption
      <4> HIDE DEF t
      <4>3. (Shape(s) => Shape(t)) /\ (Holder(s) => Holder(t))
        BY <4>1 DEF Shape, Holder
      <4> QED BY <4>1, <4>2, <4>3 DEF t
    <3>10. ASSUME NEW x \in Clients, x # c, sess[x] # None
           PROVE  /\ sess'[x] # None /\ sess'[x] \in Sessions /\ Shape(sess'[x])
                  /\ sess'[x].pc = sess[x].pc
                  /\ Holder(sess[x]) => Holder(sess'[x])
      BY <3>7, <3>8, <3>9, <3>10
    <3>11. ASSUME NEW x \in Clients, x # c, sess[x] = None PROVE sess'[x] = None
      BY <3>7, <3>11
    <3>12. TypeOK'
      <4>1. \A x \in Clients : sess'[x] \in Sessions \cup {None}
        BY <3>6, <3>10, <3>11
      <4>2. sess' \in [Clients -> Sessions \cup {None}]
        BY <3>7, <4>1
      <4>3. lock' \in Clients \cup {None} /\ loop' \in Clients \cup {None}
        BY <3>1, <3>6, <3>7
      <4> QED BY <3>6, <4>2, <4>3 DEF TypeOK, Kept
    <3>13. StoreInv'
      <4>1. \A x \in Clients : sess'[x] # None => Shape(sess'[x])
        BY <3>6, <3>10, <3>11
      <4>2. lock' # None => sess'[lock'] # None /\ Holder(sess'[lock'])
        <5>1. CASE lock' = c
          BY <3>6, <5>1
        <5>2. CASE lock' # c /\ lock' # None
          <6>1. lock' = lock /\ lock \in Clients
            BY <3>1, <3>7, <5>2
          <6> QED BY <3>10, <5>2, <6>1 DEF StoreInv
        <5> QED BY <5>1, <5>2
      <4>3. loop' # None => sess'[loop'] # None /\ sess'[loop'].pc # "commit"
        <5>1. CASE loop' = c
          BY <3>6, <5>1
        <5>2. CASE loop' # c /\ loop' # None
          <6>1. loop' = loop /\ loop \in Clients
            BY <3>1, <3>6, <5>2
          <6> QED BY <3>10, <5>2, <6>1 DEF StoreInv
        <5> QED BY <5>1, <5>2
      <4>4. Kept(db)' /\ (lock' # None => Kept(tx)')
        BY <3>6 DEF Kept, Bounded, UserIds, HostIds, IsFile, UniqueIds
      <4>5. \A x \in Clients : (sess[x] # None => Shape(sess[x]))'
        BY <4>1 DEF Shape
      <4> QED BY <4>1, <4>2, <4>3, <4>4 DEF StoreInv, Shape, Holder
    <3> QED BY <3>12, <3>13
  <2> QED BY <2>1, <2>2 DEF Next
<1> QED BY <1>1, <1>2, PTL DEF Spec

------------------------------------------------------------------------------
(* What waits for what.                                                     *)

\* collect.py, import_.py: the only circle is a handler on the event loop that
\* waits for the lock of a session that waits for the loop.  The holder of the
\* lock does not wait for it, so it waits for the loop; and the handler that
\* has the loop is not yet at its commit, so it waits for the lock.
THEOREM DeadlocksAreOfTheLoop == Spec => []OnlyTheLoopDeadlocks
<1>1. TypeOK /\ StoreInv => OnlyTheLoopDeadlocks
  <2> SUFFICES ASSUME TypeOK, StoreInv, NEW c \in Active, \A x \in Active : blocked(x)
               PROVE  loop # None /\ lock # None /\ waits_for_lock(loop) /\ waits_for_loop(lock)
    BY DEF OnlyTheLoopDeadlocks
  <2>1. loop # None => loop \in Active /\ waits_for_lock(loop)
    <3> SUFFICES ASSUME loop # None PROVE loop \in Active /\ waits_for_lock(loop)
      OBVIOUS
    <3>1. loop \in Active /\ sess[loop].pc # "commit"
      BY DEF TypeOK, StoreInv, Active
    <3>2. ~waits_for_loop(loop)
      BY <3>1 DEF waits_for_loop
    <3> QED BY <3>1, <3>2 DEF blocked
  <2>2. lock # None => waits_for_loop(lock)
    <3> SUFFICES ASSUME lock # None PROVE waits_for_loop(lock)
      OBVIOUS
    <3>1. lock \in Active
      BY DEF TypeOK, StoreInv, Active
    <3>2. ~waits_for_lock(lock)
      BY DEF waits_for_lock
    <3> QED BY <3>1, <3>2 DEF blocked
  <2>3. loop # None \/ lock # None
    BY DEF blocked, waits_for_lock, waits_for_loop
  <2>4. loop # None => lock # None
    BY <2>1 DEF waits_for_lock
  <2>5. lock # None => loop # None
    BY <2>2 DEF waits_for_loop
  <2> QED BY <2>1, <2>2, <2>3, <2>4, <2>5
<1> QED BY <1>1, StoreTyped, PTL

------------------------------------------------------------------------------
(* Accounts: what a check before the write lets through.                    *)

\* A session that ends with a change of the file does so in one of these.
LEMMA Endings ==
  ASSUME TypeOK, StoreInv, Next, NEW c \in Clients, Ends(c), db' # db
  PROVE  \/ delete_user(c) \/ set_admin_or_active(c) \/ create_user(c) \/ delete_host(c)
         \/ commit(c) /\ lock = c /\ db' = tx
<1> PICK d \in Clients : step(d)
  BY DEF Next
<1>1. d = c
  <2> SUFFICES ASSUME d # c PROVE FALSE
    OBVIOUS
  <2>1. sess[c] # None /\ sess'[c] = None /\ sess[c] \in Sessions
    BY DEF Ends, TypeOK
  <2>2. \/ sess'[c] = sess[c]
        \/ sess'[c] = [sess[c] EXCEPT !.overtaken = TRUE]
    BY Others
  <2>3. [sess[c] EXCEPT !.overtaken = TRUE] \in Sessions
    BY <2>1 DEF Sessions
  <2> QED BY <2>1, <2>2, <2>3, SharedStoreAssumption
<1>2. \A cmd \in Commands : ~begin(c, cmd)
  BY DEF begin
<1>3. \A s : ~goes_on(c, s)
  BY DEF goes_on
<1>4. ~end(c) /\ \A s, new : ~flush(c, new, s)
  BY DEF end, flush
<1>5. ~get_user_by_username(c) /\ ~guard_last_admin(c) /\ ~setup_available(c)
      /\ ~create_user_lookup(c) /\ ~get_host(c) /\ ~write_field(c) /\ ~lookup(c)
  BY <1>3, <1>4 DEF get_user_by_username, guard_last_admin, setup_available, create_user_lookup,
     get_host, write_field, lookup, has_read
<1>6. ~find_host(c) /\ ~save_host(c) /\ ~log(c) /\ ~run_ansible(c) /\ ~replace(c)
  BY <1>3, <1>4 DEF find_host, save_host, log, run_ansible, replace, fails
<1>7. ~collect_error(c) /\ ~give_up(c) /\ ~interrupted(c)
  BY <1>3, <1>4 DEF collect_error, give_up, interrupted
<1>8. commit(c) => lock = c /\ db' = tx
  BY DEF commit, View
<1> QED BY <1>1, <1>2, <1>5, <1>6, <1>7, <1>8 DEF step, works

\* Nobody's transaction has accounts in it; and what a session that has not
\* been overtaken has read of them, and concluded, is still so.
UsersInv ==
    /\ lock # None => tx.users = db.users
    /\ \A c \in Clients : sess[c] # None /\ ~sess[c].overtaken =>
          LET s == sess[c]
          IN  /\ s.cmd.kind \in UserKinds /\ s.pc \in {"guard", "write"} =>
                    s.cmd.on \in DOMAIN db.users /\ db.users[s.cmd.on] = s.got
              /\ s.cmd.kind \in Guarded /\ s.pc = "write" => ~refuses(s.got)
              /\ s.cmd.kind = "setup" /\ s.pc \in {"create", "write"} => DOMAIN db.users = {}

LEMMA UsersAsRead == Spec => []UsersInv
<1>1. Init => UsersInv
  BY DEF Init, UsersInv
<1>2. TypeOK /\ StoreInv /\ UsersInv /\ [Next]_vars => UsersInv'
  <2> SUFFICES ASSUME TypeOK, StoreInv, UsersInv, [Next]_vars PROVE UsersInv'
    OBVIOUS
  <2>1. CASE UNCHANGED vars
    BY <2>1 DEF vars, UsersInv, refuses, other_active_admin_exists
  <2>2. ASSUME NEW c \in Clients, step(c) PROVE UsersInv'
    <3> DEFINE AsRead(s, users) ==
                 /\ s.cmd.kind \in UserKinds /\ s.pc \in {"guard", "write"} =>
                       s.cmd.on \in DOMAIN users /\ users[s.cmd.on] = s.got
                 /\ s.cmd.kind \in Guarded /\ s.pc = "write" =>
                       ~(s.got.admin /\ s.got.active
                         /\ ~(\E u \in DOMAIN users :
                                 users[u].admin /\ users[u].active /\ users[u].id # s.got.id))
                 /\ s.cmd.kind = "setup" /\ s.pc \in {"create", "write"} => DOMAIN users = {}
    <3>1. \A x \in Clients : sess[x] # None /\ ~sess[x].overtaken => AsRead(sess[x], db.users)
      BY DEF UsersInv, refuses, other_active_admin_exists
    <3>2. SUFFICES /\ lock' # None => tx'.users = db'.users
                   /\ \A x \in Clients : sess'[x] # None /\ ~sess'[x].overtaken => AsRead(sess'[x], db'.users)
      BY DEF UsersInv, refuses, other_active_admin_exists
    <3> HIDE DEF AsRead
    <3>3. ASSUME NEW x \in Clients, x # c, sess'[x] # None, ~sess'[x].overtaken
          PROVE  AsRead(sess'[x], db'.users)
      <4>1. sess[x] # None => sess[x] \in Sessions
        BY DEF TypeOK
      <4>2. \/ sess'[x] = sess[x] /\ (sess[x] = None \/ db' = db)
            \/ sess[x] # None /\ sess'[x] = [sess[x] EXCEPT !.overtaken = TRUE]
        BY <2>2, <3>3, Others
      <4>3. sess[x] # None => [sess[x] EXCEPT !.overtaken = TRUE].overtaken
        BY <4>1 DEF Sessions
      <4> QED BY <3>1, <3>3, <4>2, <4>3
    <3>4. c # None /\ sess = [x \in Clients |-> sess[x]]
      BY SharedStoreAssumption DEF TypeOK
    <3>5. ASSUME \E cmd \in Commands : begin(c, cmd)
          PROVE  sess'[c].pc \in {"read", "work"} /\ UNCHANGED <<db, lock, tx>>
      BY <3>4, <3>5 DEF begin, NewSession
    <3>6. lock' # None => tx'.users = db'.users
      <4>1. CASE lock \notin {None, c}
        BY <2>2, <4>1, Others DEF UsersInv
      <4>2. CASE lock \in {None, c}
        <5>1. View(c).users = db.users
          BY <3>4, <4>2 DEF UsersInv, View
        <5>2. CASE \E s \in Sessions : goes_on(c, s)
          BY <5>2 DEF goes_on, UsersInv
        <5>3. CASE \E s \in Sessions : tx'.users = View(c).users /\ flush(c, tx', s)
          BY <5>1, <5>3 DEF flush
        <5>4. CASE \E s \in Sessions : rolls_back(c, s)
          BY <5>4 DEF rolls_back
        <5>5. CASE flush_and_commit(c, db') \/ commit(c) \/ end(c)
          BY <4>2, <5>5 DEF flush_and_commit, commit, end, UsersInv
        <5> QED BY <2>2, <3>5, <5>2, <5>3, <5>4, <5>5, Outcomes DEF Outcome, UsersInv
      <4> QED BY <4>1, <4>2
    <3>7. ASSUME sess'[c] # None, ~sess'[c].overtaken PROVE AsRead(sess'[c], db'.users)
      <4>1. CASE sess[c] = None
        <5>1. sess'[c].pc \in {"read", "work"}
          <6>1. \E cmd \in Commands : begin(c, cmd)
            BY <2>2, <4>1, Outcomes
          <6> QED BY <3>5, <6>1
        <5> QED BY <5>1 DEF AsRead
      <4> PICK s : s = sess[c]
        OBVIOUS
      <4>2. ASSUME s # None
            PROVE  /\ s \in Sessions /\ (~s.overtaken => AsRead(s, db.users)) /\ Shape(s)
                   /\ s.cmd.kind \in UserKinds \cup {"setup"} => s.cmd.kind \notin HostKinds \cup ImportKinds
                   /\ s.cmd.kind \in UserKinds => s.cmd.kind # "setup"
        BY <3>1, <4>2 DEF TypeOK, StoreInv, UserKinds, Guarded, HostKinds, FieldKinds, ImportKinds
      <4>3. ASSUME s # None, NEW t, goes_on(c, t) PROVE sess'[c] = t /\ db' = db
        BY <3>4, <4>3 DEF goes_on
      <4>4. end(c) \/ (\E new : flush_and_commit(c, new)) \/ commit(c) => sess'[c] = None
        BY <3>4 DEF end, flush_and_commit, commit, AfterCommit
      <4>5. CASE get_user_by_username(c)
        <5> DEFINE t == [s EXCEPT !.got = db.users[s.cmd.on], !.overtaken = FALSE,
                                  !.pc = IF s.cmd.kind \in Guarded THEN "guard" ELSE "write"]
        <5>1. s # None /\ s.cmd.kind \in UserKinds /\ s.cmd.on \in DOMAIN db.users /\ goes_on(c, t)
          BY <3>7, <4>4, <4>5 DEF get_user_by_username, At, has_read
        <5>2. t.cmd = s.cmd /\ t.got = db.users[s.cmd.on] /\ (s.cmd.kind \in Guarded => t.pc = "guard")
          BY <4>2, <5>1 DEF Sessions
        <5> HIDE DEF t
        <5>3. AsRead(t, db.users)
          BY <4>2, <5>1, <5>2 DEF AsRead
        <5> QED BY <4>3, <5>1, <5>3
      <4>6. CASE guard_last_admin(c)
        <5> DEFINE t == [s EXCEPT !.pc = "write"]
        <5>1. s # None /\ s.cmd.kind \in Guarded /\ s.pc = "guard" /\ ~refuses(s.got) /\ goes_on(c, t)
          BY <3>7, <4>4, <4>6 DEF guard_last_admin, At
        <5>2. t.cmd = s.cmd /\ t.got = s.got /\ t.pc = "write" /\ t.overtaken = s.overtaken
          BY <4>2, <5>1 DEF Sessions
        <5> HIDE DEF t
        <5>3. sess'[c] = t /\ db' = db
          BY <4>3, <5>1
        <5>4. AsRead(s, db.users) /\ s.cmd.kind \in UserKinds /\ s.cmd.kind # "setup"
          BY <3>7, <4>2, <5>1, <5>2, <5>3 DEF UserKinds
        <5>5. AsRead(t, db.users)
          BY <5>1, <5>2, <5>4 DEF AsRead, refuses, other_active_admin_exists
        <5> QED BY <5>3, <5>5
      <4>7. CASE setup_available(c)
        <5> DEFINE t == [s EXCEPT !.got = None, !.pc = "create", !.overtaken = FALSE]
        <5>1. s # None /\ s.cmd.kind = "setup" /\ DOMAIN db.users = {} /\ goes_on(c, t)
          BY <3>7, <4>4, <4>7 DEF setup_available, At, has_read
        <5>2. t.cmd = s.cmd /\ t.pc = "create"
          BY <4>2, <5>1 DEF Sessions
        <5> HIDE DEF t
        <5>3. AsRead(t, db.users)
          BY <4>2, <5>1, <5>2 DEF AsRead, Guarded
        <5> QED BY <4>3, <5>1, <5>3
      <4>8. CASE create_user_lookup(c)
        <5> DEFINE t == [s EXCEPT !.pc = "write", !.overtaken = IF s.pc = "read" THEN FALSE ELSE @]
        <5>1. /\ s # None /\ goes_on(c, t)
              /\ (s.cmd.kind = "users_add" /\ s.pc = "read") \/ (s.cmd.kind = "setup" /\ s.pc = "create")
          BY <3>7, <4>4, <4>8 DEF create_user_lookup, At
        <5>2. t.cmd = s.cmd /\ t.pc = "write" /\ t.overtaken = (IF s.pc = "read" THEN FALSE ELSE s.overtaken)
          BY <4>2, <5>1 DEF Sessions
        <5> HIDE DEF t
        <5>3. sess'[c] = t /\ db' = db
          BY <4>3, <5>1
        <5>4. s.cmd.kind = "setup" => AsRead(s, db.users)
          BY <3>7, <4>2, <5>1, <5>2, <5>3
        <5>5. AsRead(t, db.users)
          BY <5>1, <5>2, <5>4 DEF AsRead, UserKinds, Guarded
        <5> QED BY <5>3, <5>5
      <4>9. CASE s # None /\ s.cmd.kind \notin UserKinds \cup {"setup"}
        <5>1. \E t \in Sessions : t.cmd = s.cmd /\ sess'[c] = t
          <6>1. ASSUME NEW t \in Sessions, sess' = [sess EXCEPT ![c] = t], Fits(c, t) PROVE t.cmd = s.cmd /\ sess'[c] = t
            BY <3>4, <6>1 DEF Fits
          <6>2. sess[c] # None => ~\E cmd \in Commands : begin(c, cmd)
            BY DEF begin
          <6> QED BY <2>2, <3>7, <4>4, <4>9, <6>1, <6>2, Outcomes DEF Outcome, goes_on, flush, rolls_back
        <5> QED BY <4>9, <5>1 DEF AsRead, UserKinds
      <4>10. CASE s # None /\ s.cmd.kind \in UserKinds \cup {"setup"}
        <5>1. sess'[c] # None /\ sess[c] = s
          BY <3>7
        <5>2. OfItsKind(c)
          <6>1. \A cmd \in Commands : ~begin(c, cmd)
            BY <4>10 DEF begin
          <6> QED BY <2>2, <6>1, Outcomes
        <5>3. s.cmd.kind \in UserKinds \cup AddKinds
          BY <4>10 DEF AddKinds
        <5> QED BY <4>5, <4>6, <4>7, <4>8, <5>1, <5>2, <5>3 DEF OfItsKind
      <4> QED BY <4>1, <4>9, <4>10
    <3> QED BY <3>3, <3>6, <3>7
  <2> QED BY <2>1, <2>2 DEF Next
<1> QED BY <1>1, <1>2, StoreTyped, PTL DEF Spec

\* users.py, _guard_last_admin: the last active admin is lost only by a command
\* whose check another commit has overtaken.  The guard saw a second one, and
\* nothing but a commit takes it away before the guarded write.
THEOREM AdminsAreLostByRace == Spec => AdminLostOnlyByRace
<1>1. TypeOK /\ StoreInv /\ UsersInv /\ [Next]_vars =>
      [\A c \in Clients :
          Ends(c) /\ HasActiveAdmin(db) /\ ~HasActiveAdmin(db') => sess[c].overtaken]_vars
  <2> SUFFICES ASSUME TypeOK, StoreInv, UsersInv, Next, NEW c \in Clients, Ends(c),
                      HasActiveAdmin(db), ~HasActiveAdmin(db'), ~sess[c].overtaken
               PROVE  FALSE
    BY DEF vars, Ends
  <2> PICK a \in DOMAIN db.users : db.users[a].admin /\ db.users[a].active
    BY DEF HasActiveAdmin
  <2> PICK s : s = sess[c]
    OBVIOUS
  <2>1. /\ s # None /\ s \in Sessions /\ Shape(s) /\ c # None /\ Kept(db)
        /\ db = [users |-> db.users, hosts |-> db.hosts, rows |-> db.rows]
    BY SharedStoreAssumption DEF Ends, TypeOK, StoreInv, Kept, IsFile
  <2>2. ~\E u \in DOMAIN db'.users : db'.users[u].admin /\ db'.users[u].active
    BY DEF HasActiveAdmin
  <2>3. db' # db
    BY <2>2
  <2>4. s.cmd.kind \in UserKinds /\ s.pc = "write" =>
           /\ s.cmd.on \in DOMAIN db.users /\ db.users[s.cmd.on] = s.got
           /\ s.cmd.kind \in Guarded => ~refuses(s.got)
    BY <2>1 DEF UsersInv
  \* Other accounts are not touched, and without the guard's leave nor is this one.
  <2>5. ASSUME s.cmd.kind \in Guarded, s.pc = "write" PROVE
           \E u \in DOMAIN db.users :
              db.users[u].admin /\ db.users[u].active /\ db.users[u].id # s.got.id
    <3>1. UniqueIds(db.users) /\ s.cmd.kind \in UserKinds
      BY <2>1, <2>5 DEF Kept, UserKinds
    <3>2. CASE s.got.admin /\ s.got.active
      BY <2>4, <2>5, <3>1, <3>2 DEF refuses, other_active_admin_exists
    <3>3. CASE ~(s.got.admin /\ s.got.active)
      <4>1. a # s.cmd.on
        BY <2>4, <2>5, <3>1, <3>3
      <4>2. db.users[a].id # s.got.id
        BY <2>4, <2>5, <3>1, <4>1 DEF UniqueIds
      <4> QED BY <4>2
    <3> QED BY <3>2, <3>3
  <2>6. CASE delete_user(c)
    <3>1. s.cmd.kind \in Guarded /\ s.pc = "write" /\ db' = without_user(db, s.got.id)
      BY <2>6 DEF delete_user, At, Guarded, flush_and_commit
    <3>2. db'.users = [u \in {v \in DOMAIN db.users : db.users[v].id # s.got.id} |-> db.users[u]]
      BY <2>1, <3>1 DEF without_user
    <3> QED BY <2>2, <2>5, <3>1, <3>2
  <2>7. CASE set_admin_or_active(c)
    <3>1. /\ s.cmd.kind \in UserKinds \ {"delete_user"} /\ s.pc = "write"
          /\ db' = with_user_changed(db, s.got.id, s.cmd.kind)
      BY <2>3, <2>7 DEF set_admin_or_active, At, flush_and_commit, end
    <3>2. db'.users = [u \in DOMAIN db.users |->
                          IF db.users[u].id = s.got.id THEN Changed(s.cmd.kind, db.users[u]) ELSE db.users[u]]
      BY <2>1, <3>1 DEF with_user_changed
    <3>3. CASE s.cmd.kind \in Guarded
      BY <2>2, <2>5, <3>1, <3>2, <3>3
    <3>4. CASE s.cmd.kind \in {"promote", "enable"}
      <4>1. db.users[a] \in User
        BY <2>1 DEF Kept, IsFile, IsTable
      <4>2. Changed(s.cmd.kind, db.users[a]).admin /\ Changed(s.cmd.kind, db.users[a]).active
        BY <3>4, <4>1 DEF Changed, User
      <4>3. db'.users[a].admin /\ db'.users[a].active /\ a \in DOMAIN db'.users
        BY <3>2, <4>2
      <4> QED BY <2>2, <4>3
    <3> QED BY <3>1, <3>3, <3>4 DEF UserKinds
  <2>8. CASE create_user(c)
    <3>1. /\ s.cmd.on \notin DOMAIN db.users
          /\ db' = with_user(db, s.cmd.on, s.cmd.kind = "setup")
      BY <2>3, <2>8 DEF create_user, At, flush_and_commit, end
    <3>2. a \in DOMAIN db'.users /\ db'.users[a] = db.users[a]
      BY <2>1, <3>1 DEF with_user
    <3> QED BY <2>2, <3>2
  <2>9. CASE delete_host(c)
    <3>1. db' = without_host(without_rows(db, s.got.rows), s.got.id)
      BY <2>9 DEF delete_host, flush_and_commit
    <3>2. db'.users = db.users
      BY <2>1, <3>1 DEF without_host, without_rows
    <3> QED BY <2>2, <3>2
  <2>10. CASE lock = c /\ db' = tx
    BY <2>1, <2>2, <2>10 DEF UsersInv
  <2> QED BY <2>3, <2>6, <2>7, <2>8, <2>9, <2>10, Endings
<1> QED BY <1>1, StoreTyped, UsersAsRead, PTL DEF Spec, AdminLostOnlyByRace

\* routes/auth.py, _setup_available: /setup adds an account beside another only
\* if that one was committed after it had looked.
THEOREM SetupsRaceOnly == Spec => SetupOnlyOnFreshInstall
<1>1. TypeOK /\ StoreInv /\ UsersInv /\ [Next]_vars =>
      [\A c \in Clients :
          Ends(c) /\ sess[c].cmd.kind = "setup" /\ db' # db /\ DOMAIN db.users # {}
          => sess[c].overtaken]_vars
  <2> SUFFICES ASSUME TypeOK, StoreInv, UsersInv, Next, NEW c \in Clients, Ends(c),
                      sess[c].cmd.kind = "setup", db' # db, DOMAIN db.users # {},
                      ~sess[c].overtaken
               PROVE  FALSE
    BY DEF vars, Ends
  <2>1. sess[c] # None /\ sess[c].pc # "write" /\ sess[c].pc # "commit"
    BY DEF Ends, UsersInv, StoreInv, Shape, AddKinds
  <2> QED BY <2>1, Endings DEF delete_user, set_admin_or_active, create_user, delete_host, commit, At
<1> QED BY <1>1, StoreTyped, UsersAsRead, PTL DEF Spec, SetupOnlyOnFreshInstall

------------------------------------------------------------------------------
(* Custom fields: what a dictionary written back changes.                   *)

\* What a field command that has not been overtaken has read is committed; and
\* a transaction changes one dictionary, or only adds hosts.
FieldInv ==
    /\ \A c \in Clients : sess[c] # None /\ ~sess[c].overtaken =>
          LET s == sess[c]
          IN  s.cmd.kind \in FieldKinds /\ s.pc \in {"write", "commit"} =>
                 /\ s.cmd.on \in DOMAIN db.hosts
                 /\ db.hosts[s.cmd.on] = [id |-> s.got.id, fields |-> s.got.fields]
    /\ lock # None =>
          LET s == sess[lock]
          IN  /\ s.cmd.kind \in FieldKinds =>
                    tx = with_fields(db, s.got.id, edited(s.cmd, s.got.fields))
              /\ s.cmd.kind \in ImportKinds =>
                    \A h \in DOMAIN db.hosts : h \in DOMAIN tx.hosts /\ tx.hosts[h] = db.hosts[h]

\* hosts.py, set_custom_field: a host that stays keeps every custom field that
\* no command named, unless one wrote back a dictionary it had read before
\* another commit.
THEOREM FieldsAreLostByRace == Spec => FieldLostOnlyByRace
<1>1. Init => FieldInv
  BY DEF Init, FieldInv
<1>2. TypeOK /\ StoreInv /\ FieldInv /\ [Next]_vars => FieldInv'
  <2> SUFFICES ASSUME TypeOK, StoreInv, FieldInv, [Next]_vars PROVE FieldInv'
    OBVIOUS
  <2>1. CASE UNCHANGED vars
    BY <2>1 DEF vars, FieldInv, with_fields
  <2>2. ASSUME NEW c \in Clients, step(c) PROVE FieldInv'
    <3> DEFINE AsRead(s, hosts) ==
                 s.cmd.kind \in FieldKinds /\ s.pc \in {"write", "commit"} =>
                    /\ s.cmd.on \in DOMAIN hosts
                    /\ hosts[s.cmd.on] = [id |-> s.got.id, fields |-> s.got.fields]
               Written(s, d, e) ==
                 /\ s.cmd.kind \in FieldKinds => e = with_fields(d, s.got.id, edited(s.cmd, s.got.fields))
                 /\ s.cmd.kind \in ImportKinds =>
                       \A h \in DOMAIN d.hosts : h \in DOMAIN e.hosts /\ e.hosts[h] = d.hosts[h]
    <3>1. /\ \A x \in Clients : sess[x] # None /\ ~sess[x].overtaken => AsRead(sess[x], db.hosts)
          /\ lock # None => Written(sess[lock], db, tx)
      BY DEF FieldInv
    <3>2. SUFFICES /\ \A x \in Clients : sess'[x] # None /\ ~sess'[x].overtaken => AsRead(sess'[x], db'.hosts)
                   /\ lock' # None => Written(sess'[lock'], db', tx')
      BY DEF FieldInv, with_fields
    <3> HIDE DEF AsRead, Written
    <3>3. /\ \A x \in Clients \ {c} :
                \/ sess'[x] = sess[x] /\ (sess[x] = None \/ db' = db)
                \/ sess[x] # None /\ sess'[x] = [sess[x] EXCEPT !.overtaken = TRUE]
          /\ lock \notin {None, c} => UNCHANGED <<db, lock, tx>>
          /\ lock' \in {lock, None, c}
      BY <2>2, Others
    <3>4. /\ c # None /\ sess = [x \in Clients |-> sess[x]] /\ lock \in Clients \cup {None}
          /\ \A x \in Clients : sess[x] # None => sess[x] \in Sessions /\ Shape(sess[x])
          /\ lock = c => sess[c] # None /\ Holder(sess[c])
          /\ Kept(db) /\ Kept(View(c))
      BY SharedStoreAssumption DEF TypeOK, StoreInv, View
    <3>5. ASSUME NEW x \in Clients, x # c, sess'[x] # None, ~sess'[x].overtaken
          PROVE  AsRead(sess'[x], db'.hosts)
      <4>1. sess[x] # None => [sess[x] EXCEPT !.overtaken = TRUE].overtaken
        BY <3>4 DEF Sessions
      <4> QED BY <3>1, <3>3, <3>5, <4>1
    <3>6. ASSUME lock' # c, lock' # None PROVE Written(sess'[lock'], db', tx')
      <4>1. lock' = lock /\ lock \in Clients \ {c} /\ UNCHANGED <<db, tx>>
        BY <3>3, <3>4, <3>6
      <4>2. sess[lock] # None /\ sess[lock] \in Sessions
        BY <3>4, <3>6, <4>1 DEF StoreInv
      <4>3. sess'[lock].cmd = sess[lock].cmd /\ sess'[lock].got = sess[lock].got
        BY <3>3, <4>1, <4>2 DEF Sessions
      <4> QED BY <3>1, <3>6, <4>1, <4>3 DEF Written
    <3>7. CASE \E cmd \in Commands : begin(c, cmd)
      <4>1. /\ UNCHANGED <<db, lock, tx>> /\ sess[c] = None /\ sess'[c].pc \in {"read", "work"}
        BY <3>4, <3>7 DEF begin, NewSession
      <4>2. AsRead(sess'[c], db'.hosts)
        BY <4>1 DEF AsRead
      <4>3. lock' # c
        BY <3>4, <4>1
      <4> QED BY <3>5, <3>6, <4>2, <4>3
    <3>8. CASE sess[c] # None /\ Outcome(c) /\ OfItsKind(c)
      <4> PICK s : s = sess[c]
        OBVIOUS
      <4>1. /\ s # None /\ s \in Sessions /\ Shape(s) /\ (~s.overtaken => AsRead(s, db.hosts))
            /\ IsCommand(s.cmd) /\ s.todo \in Seq(Statements)
        BY <3>1, <3>4, <3>8, SharedStoreAssumption DEF Sessions
      <4>2. /\ s.cmd.kind \in FieldKinds => s.cmd.kind \in HostKinds /\ s.cmd.kind \notin ImportKinds
            /\ s.cmd.kind \in HostKinds => s.cmd.kind \notin ImportKinds
            /\ s.cmd.kind \in UserKinds \cup AddKinds => s.cmd.kind \notin HostKinds \cup ImportKinds
        BY DEF UserKinds, Guarded, AddKinds, HostKinds, FieldKinds, ImportKinds
      <4>3. ASSUME NEW t, goes_on(c, t) PROVE sess'[c] = t /\ UNCHANGED <<db, lock, tx>>
        BY <3>4, <4>3 DEF goes_on
      <4>4. ASSUME NEW t, NEW new, flush(c, new, t)
            PROVE  sess'[c] = t /\ db' = db /\ lock' = c /\ tx' = new /\ lock \in {None, c}
        BY <3>4, <4>4 DEF flush, Free
      <4>5. end(c) \/ flush_and_commit(c, db') \/ commit(c) => sess'[c] = None /\ lock' # c
        BY <3>4 DEF end, flush_and_commit, commit, AfterCommit
      <4>6. CASE sess'[c] = None
        <5>1. lock' # c
          <6>1. \A t \in Sessions : t # None
            BY SharedStoreAssumption
          <6>2. \A t \in Sessions : ~rolls_back(c, t)
            BY <3>4, <4>6, <6>1 DEF rolls_back
          <6> QED BY <3>8, <4>3, <4>4, <4>5, <4>6, <6>1, <6>2 DEF Outcome
        <5> QED BY <3>5, <3>6, <4>6, <5>1
      <4>7. CASE sess'[c] # None /\ s.cmd.kind \in UserKinds \cup AddKinds
        <5>1. \E t \in Sessions : t.cmd = s.cmd /\ sess'[c] = t /\ lock' # c
          <6>1. lock # c
            BY <3>4, <4>2, <4>7 DEF Holder, HostKinds
          <6>2. ASSUME NEW t \in Sessions, Fits(c, t), Holder(t) PROVE FALSE
            BY <4>2, <4>7, <6>2 DEF Fits, Holder, HostKinds
          <6>3. ASSUME NEW t \in Sessions, Fits(c, t), goes_on(c, t) \/ rolls_back(c, t)
                PROVE  t.cmd = s.cmd /\ sess'[c] = t /\ lock' # c
            BY <3>4, <6>1, <6>3 DEF goes_on, rolls_back, Fits
          <6> QED BY <3>8, <4>5, <4>7, <6>2, <6>3 DEF Outcome
        <5>2. AsRead(sess'[c], db'.hosts)
          BY <4>2, <4>7, <5>1 DEF AsRead
        <5> QED BY <3>5, <3>6, <5>1, <5>2
      <4>8. CASE sess'[c] # None /\ s.cmd.kind \in HostKinds
        <5>1. CASE get_host(c)
          <6> DEFINE host == db.hosts[s.cmd.on]
                     got == [id |-> host.id, fields |-> host.fields, rows |-> RowsOf(db, host.id)]
                     t == [s EXCEPT !.got = got, !.pc = "write", !.overtaken = FALSE]
          <6>1. s.pc = "read" /\ s.cmd.on \in DOMAIN db.hosts /\ goes_on(c, t)
            BY <4>5, <4>8, <5>1 DEF get_host, has_read, At
          <6>2. t.cmd = s.cmd /\ t.got = got
            BY <4>1 DEF Sessions
          <6>3. host \in Host
            BY <3>4, <6>1 DEF Kept, IsFile, IsTable
          <6>4. host = [id |-> got.id, fields |-> got.fields]
            BY <6>3 DEF Host
          <6>5. lock # c
            BY <3>4, <4>2, <4>8, <6>1 DEF Holder
          <6> HIDE DEF t, got
          <6>6. AsRead(t, db.hosts)
            BY <6>1, <6>2, <6>4 DEF AsRead
          <6> QED BY <3>5, <3>6, <4>3, <6>1, <6>5, <6>6
        <5>2. CASE write_field(c)
          <6> DEFINE t == [s EXCEPT !.pc = "commit"]
                     new == with_fields(db, s.got.id, edited(s.cmd, s.got.fields))
          <6>1. s.cmd.kind \in FieldKinds /\ s.pc = "write" /\ (goes_on(c, t) \/ flush(c, new, t))
            BY <4>5, <4>8, <5>2 DEF write_field, At
          <6>2. t.cmd = s.cmd /\ t.got = s.got /\ t.overtaken = s.overtaken
            BY <4>1 DEF Sessions
          <6>3. lock # c
            BY <3>4, <4>2, <6>1 DEF Holder
          <6>4. new = with_fields(db, t.got.id, edited(t.cmd, t.got.fields))
            BY <6>2
          <6> HIDE DEF t, new
          <6>5. ~t.overtaken => AsRead(t, db.hosts)
            BY <4>1, <6>1, <6>2 DEF AsRead
          <6>6. Written(t, db, new)
            BY <4>2, <6>1, <6>2, <6>4 DEF Written
          <6>7. sess'[c] = t /\ db' = db /\ (lock' = c => tx' = new)
            BY <4>3, <4>4, <6>1, <6>3
          <6> QED BY <3>5, <3>6, <6>5, <6>6, <6>7
        <5> QED BY <3>8, <4>8, <5>1, <5>2 DEF OfItsKind
      <4>9. CASE sess'[c] # None /\ s.cmd.kind \in ImportKinds
        <5> DEFINE Extends(e) == \A h \in DOMAIN db.hosts : h \in DOMAIN e.hosts /\ e.hosts[h] = db.hosts[h]
        <5>1. Extends(View(c))
          BY <3>1, <3>4, <4>1, <4>9 DEF View, Written
        <5>2. /\ \E t \in Sessions : t.cmd = s.cmd /\ sess'[c] = t
              /\ lock' = c => db' = db
          <6>1. ASSUME NEW t \in Sessions, Fits(c, t), sess' = [sess EXCEPT ![c] = t]
                PROVE  t.cmd = s.cmd /\ sess'[c] = t
            BY <3>4, <6>1 DEF Fits
          <6> QED BY <3>8, <4>5, <4>9, <6>1 DEF Outcome, goes_on, flush, rolls_back
        <5>3. AsRead(sess'[c], db'.hosts)
          BY <4>2, <4>9, <5>2 DEF AsRead
        <5>4. lock' = c => Extends(tx')
          <6>1. \A t : goes_on(c, t) => (lock' = c => Extends(tx'))
            BY <4>3, <5>1 DEF View
          <6>2. CASE lookup(c) \/ find_host(c) \/ run_ansible(c)
            BY <6>1, <6>2 DEF lookup, find_host, run_ansible
          <6>3. CASE collect_error(c) \/ give_up(c)
            BY <4>5, <4>9, <6>1, <6>3 DEF collect_error, give_up
          <6>4. CASE replace(c)
            <7>1. \A d, gone, added : Kept(d) => /\ without_rows(d, gone).hosts = d.hosts
                                                 /\ with_rows(without_rows(d, gone), added).hosts = d.hosts
              BY DEF without_rows, with_rows, Kept, IsFile
            <7>2. \/ lock' = None
                  \/ \E t, gone, added : flush(c, without_rows(View(c), gone), t)
                                         \/ flush(c, with_rows(without_rows(View(c), gone), added), t)
              BY <6>4 DEF replace, fails
            <7> QED BY <3>4, <4>4, <5>1, <7>1, <7>2
          <6>5. CASE save_host(c)
            <7>1. \A name : name \notin DOMAIN View(c).hosts => Extends(with_host(View(c), name))
              BY <3>4, <5>1 DEF with_host, Kept, IsFile
            <7>2. \/ lock' = None
                  \/ \E t : flush(c, View(c), t)
                  \/ \E t, name : name \notin DOMAIN View(c).hosts /\ flush(c, with_host(View(c), name), t)
              BY <6>5 DEF save_host, fails
            <7> QED BY <3>4, <4>4, <5>1, <7>1, <7>2
          <6>6. CASE log(c)
            <7>1. \A added : with_rows(View(c), added).hosts = View(c).hosts
              BY <3>4 DEF with_rows, Kept, IsFile
            <7>2. end(c) \/ \E t, added : flush(c, with_rows(View(c), added), t)
              BY <6>6 DEF log
            <7> QED BY <4>4, <4>5, <5>1, <7>1, <7>2
          <6> QED BY <3>8, <4>9, <6>2, <6>3, <6>4, <6>5, <6>6 DEF OfItsKind
        <5>5. lock' = c => Written(sess'[c], db', tx')
          BY <4>2, <4>9, <5>2, <5>4 DEF Written
        <5> QED BY <3>5, <3>6, <5>3, <5>5
      <4> QED BY <4>1, <4>6, <4>7, <4>8, <4>9 DEF IsCommand
    <3> QED BY <2>2, <3>7, <3>8, Outcomes
  <2> QED BY <2>1, <2>2 DEF Next
<1>3. TypeOK /\ StoreInv /\ FieldInv /\ [Next]_vars =>
      [\A c \in Clients, h \in DOMAIN db.hosts \cap DOMAIN db'.hosts, k \in Keys :
          /\ Ends(c) /\ db.hosts[h].id = db'.hosts[h].id
          /\ db.hosts[h].fields[k] # db'.hosts[h].fields[k]
          => \/ sess[c].overtaken
             \/ /\ sess[c].cmd.kind \in FieldKinds
                /\ sess[c].cmd.on = h /\ sess[c].cmd.key = k]_vars
  <2> SUFFICES ASSUME TypeOK, StoreInv, FieldInv, Next, NEW c \in Clients,
                      NEW h \in DOMAIN db.hosts \cap DOMAIN db'.hosts, NEW k \in Keys,
                      Ends(c), db.hosts[h].id = db'.hosts[h].id,
                      db.hosts[h].fields[k] # db'.hosts[h].fields[k], ~sess[c].overtaken
               PROVE  sess[c].cmd.kind \in FieldKinds /\ sess[c].cmd.on = h /\ sess[c].cmd.key = k
    BY DEF vars, Ends
  <2>1. db' # db /\ db'.hosts[h] # db.hosts[h]
    OBVIOUS
  <2>2. Kept(db) /\ c # None
    BY SharedStoreAssumption DEF StoreInv
  <2>3. ~delete_user(c) /\ ~set_admin_or_active(c) /\ ~create_user(c)
    <3>1. \A id, kind, name, admin :
             /\ without_user(db, id).hosts = db.hosts
             /\ with_user_changed(db, id, kind).hosts = db.hosts
             /\ with_user(db, name, admin).hosts = db.hosts
      BY <2>2 DEF without_user, with_user_changed, with_user, Kept, IsFile
    <3> QED BY <2>1, <3>1 DEF delete_user, set_admin_or_active, create_user, flush_and_commit, end
  <2>4. ~delete_host(c)
    <3>1. \A id, rows : \A x \in DOMAIN without_host(without_rows(db, rows), id).hosts :
             without_host(without_rows(db, rows), id).hosts[x] = db.hosts[x]
      BY <2>2 DEF without_host, without_rows, Kept, IsFile
    <3> QED BY <2>1, <3>1 DEF delete_host, flush_and_commit
  <2>5. commit(c) /\ lock = c /\ db' = tx
    BY <2>1, <2>3, <2>4, Endings
  <2> PICK s : s = sess[c]
    OBVIOUS
  <2>6. s # None /\ Holder(s) /\ Shape(s) /\ s.pc = "commit"
    BY <2>2, <2>5 DEF StoreInv, commit
  <2>7. s.cmd.kind \notin ImportKinds
    BY <2>1, <2>2, <2>5 DEF FieldInv
  <2>8. s.cmd.kind \in FieldKinds
    BY <2>6, <2>7 DEF Holder
  <2>9. /\ s.cmd.on \in DOMAIN db.hosts /\ db.hosts[s.cmd.on].id = s.got.id
        /\ db.hosts[s.cmd.on].fields = s.got.fields
    <3>1. /\ s.cmd.on \in DOMAIN db.hosts
          /\ db.hosts[s.cmd.on] = [id |-> s.got.id, fields |-> s.got.fields]
      BY <2>6, <2>8 DEF FieldInv
    <3> QED BY <3>1
  <2>10. db' = with_fields(db, s.got.id, edited(s.cmd, s.got.fields))
    BY <2>2, <2>5, <2>8 DEF FieldInv
  <2>11. db'.hosts[h] = IF db.hosts[h].id = s.got.id
                        THEN [db.hosts[h] EXCEPT !.fields = edited(s.cmd, s.got.fields)] ELSE db.hosts[h]
    BY <2>2, <2>10 DEF with_fields, Kept, IsFile
  <2>12. db.hosts[h].id = s.got.id /\ s.cmd.on = h
    BY <2>1, <2>2, <2>9, <2>11 DEF Kept, UniqueIds
  <2>13. db.hosts[h] \in Host
    BY <2>2 DEF Kept, IsFile, IsTable
  <2>14. db'.hosts[h].fields = edited(s.cmd, db.hosts[h].fields) /\ db.hosts[h].fields \in Dictionaries
    BY <2>9, <2>11, <2>12, <2>13 DEF Host, Dictionaries
  <2>15. s.cmd.key = k
    BY <2>14 DEF edited, Dictionaries
  <2> QED BY <2>8, <2>12, <2>15
<1> QED BY <1>1, <1>2, <1>3, StoreTyped, PTL DEF Spec, FieldLostOnlyByRace

------------------------------------------------------------------------------
(* Containers: what an import has pending, and what it writes.              *)

\* Rows that a record has left pending are behind its DELETE.
PendInv ==
    \A c \in Clients : sess[c] # None /\ sess[c].cmd.kind \in ImportKinds =>
       (sess[c].pending # <<>> => lock = c)

Replaces(s) == s.todo # <<>> /\ s.todo[1].do = "replace"
Cleared(d, id) == without_rows(d, RowsOf(d, id))

\* The replacement that s is about to make, with what of it is still pending.
Replacement(s, d, e, pending) ==
    \E l \in Listings :
       LET cleared == Cleared(d, s.got.id)
           added == s.pending \o Added(s.got.id, ReadUpTo(l))
       IN  \/ e = cleared /\ pending = added
           \/ e = with_rows(cleared, added) /\ pending = <<>>
MixedBy(s) ==
    IF HasPending(s, s.got.id) THEN s.mixed \cup {s.got.id} ELSE s.mixed \ {s.got.id}

\* What a step leaves of an import that goes on, and of the file it sees: it
\* reads; or it gives its transaction up; or it saves a host, or writes what is
\* pending, or replaces the containers of the host it has found.
ImportStep(c) ==
    LET s == sess[c]
        t == sess'[c]
        seen == View(c)
    IN  /\ t \in Sessions /\ t.cmd = s.cmd /\ db' = db
        /\ \/ /\ UNCHANGED <<lock, tx>> /\ t.pending = s.pending /\ t.mixed = s.mixed
              /\ lock = c => t.overtaken = s.overtaken
              /\ Replaces(t) => t.got.id \in HostIds(seen)
           \/ t.pending = <<>> /\ lock' = None /\ ~Replaces(t)
           \/ /\ lock' = c /\ t.overtaken = s.overtaken /\ ~Replaces(t)
              /\ \/ /\ s.pending = <<>> /\ t.pending = <<>> /\ t.mixed = s.mixed
                    /\ tx'.rows = seen.rows /\ HostIds(seen) \subseteq HostIds(tx')
                 \/ t.pending = <<>> /\ t.mixed = s.mixed /\ tx' = with_rows(seen, s.pending)
                 \/ /\ Replaces(s) /\ s.got \in [id : Ids] /\ t.mixed = MixedBy(s)
                    /\ Replacement(s, seen, tx', t.pending)

\* Every step of an import that goes on is one of these.
LEMMA ImportSteps ==
  ASSUME TypeOK, StoreInv, NEW c \in Clients, step(c), sess[c] # None, sess'[c] # None,
         sess[c].cmd.kind \in ImportKinds
  PROVE  ImportStep(c)
<1>1. /\ c # None /\ sess = [x \in Clients |-> sess[x]]
      /\ sess[c] \in Sessions /\ Shape(sess[c])
      /\ Kept(db) /\ Kept(View(c))
  BY SharedStoreAssumption DEF TypeOK, StoreInv, View
<1>2. Outcome(c) /\ OfItsKind(c)
  <2>1. ~(\E cmd \in Commands : begin(c, cmd))
    BY DEF begin
  <2> QED BY <2>1, Outcomes
<1> PICK s \in Sessions : s = sess[c]
  BY <1>1
<1>3. ~end(c) /\ ~flush_and_commit(c, db') /\ ~commit(c)
  BY <1>1 DEF end, flush_and_commit, commit, AfterCommit
<1>4. PICK t \in Sessions : t = sess'[c] /\ Fits(c, t)
  <2>1. ASSUME NEW x \in Sessions, goes_on(c, x) \/ flush(c, tx', x) \/ rolls_back(c, x)
        PROVE  sess'[c] = x
    BY <1>1, <2>1 DEF goes_on, flush, rolls_back
  <2> QED BY <1>2, <1>3, <2>1 DEF Outcome
<1>5. db' = db /\ t.cmd = s.cmd
  BY <1>2, <1>3, <1>4 DEF Outcome, goes_on, flush, rolls_back, Fits
<1>6. /\ s.pc = "work" /\ s.todo # <<>> /\ s.todo \in Seq(Statements) /\ InOrder(s.todo)
      /\ \/ lookup(c) \/ replace(c) \/ find_host(c) \/ save_host(c) \/ log(c)
         \/ run_ansible(c) \/ collect_error(c) \/ give_up(c)
  <2>1. \/ lookup(c) \/ replace(c) \/ find_host(c) \/ save_host(c) \/ log(c)
        \/ run_ansible(c) \/ collect_error(c) \/ give_up(c)
    BY <1>2 DEF OfItsKind
  <2>2. s.pc = "work"
    BY <1>3, <2>1 DEF lookup, replace, find_host, save_host, log, run_ansible, collect_error,
       give_up, Doing, At
  <2> QED BY <1>1, <2>1, <2>2 DEF Shape, Sessions
<1>7. /\ Tail(s.todo) \in Seq(Statements) /\ s.todo[1] \in Statements
      /\ Tail(s.todo) # <<>> => Tail(s.todo)[1].do \notin Started
  BY <1>6, TailInOrder
<1>8. /\ skip(s) \in Sessions /\ skip(s).todo = Tail(s.todo) /\ skip(s).pending = s.pending
      /\ skip(s).mixed = s.mixed /\ skip(s).overtaken = s.overtaken /\ skip(s).got = s.got
  BY <1>7 DEF skip, Sessions
<1>9. ASSUME NEW x, goes_on(c, x) PROVE t = x /\ UNCHANGED <<lock, tx>>
  BY <1>1, <1>4, <1>9 DEF goes_on
<1>10. ASSUME NEW x, NEW new, flush(c, new, x) PROVE t = x /\ lock' = c /\ tx' = new
  BY <1>1, <1>4, <1>10 DEF flush
<1>11. /\ s.todo[1].do = "replace" => s.got # None /\ s.got \in [id : Ids]
       /\ s.pending # <<>> => s.todo[1].do \in {"lookup", "replace", "log"}
  BY <1>1, <1>6 DEF Shape
\* It reads, or skips a record.
<1>12. ASSUME UNCHANGED <<lock, tx>>, t.pending = s.pending, t.mixed = s.mixed,
              lock = c => t.overtaken = s.overtaken, ~Replaces(t)
       PROVE  ImportStep(c)
  BY <1>4, <1>5, <1>12 DEF ImportStep
<1>13. ASSUME goes_on(c, skip(s)) PROVE ImportStep(c)
  BY <1>7, <1>8, <1>9, <1>12, <1>13 DEF Replaces, Started
<1>14. ASSUME fails(c) PROVE ImportStep(c)
  <2> DEFINE u == [skip(s) EXCEPT !.dead = TRUE, !.pending = <<>>]
  <2>1. u.todo = Tail(s.todo) /\ u.pending = <<>>
    BY <1>8 DEF Sessions
  <2>2. t = u /\ lock' = None
    BY <1>1, <1>4, <1>14 DEF fails
  <2> HIDE DEF u
  <2>3. t.pending = <<>> /\ ~Replaces(t)
    BY <1>7, <2>1, <2>2 DEF Replaces, Started
  <2> QED BY <1>4, <1>5, <2>2, <2>3 DEF ImportStep
<1>15. CASE lookup(c)
  <2> DEFINE now == s.todo[1]
             x == [do |-> "replace", listing |-> now.listing]
             got == [id |-> View(c).hosts[now.host].id]
             u == [then_do(s, <<x>>) EXCEPT !.got = got, !.overtaken = @ /\ lock = c]
  <2>1. ASSUME now.host \in DOMAIN View(c).hosts, goes_on(c, u) PROVE ImportStep(c)
    <3>1. u.got = got /\ u.pending = s.pending /\ u.mixed = s.mixed
          /\ u.overtaken = (s.overtaken /\ lock = c)
      <4> DEFINE todo == <<x>> \o Tail(s.todo)
      <4> PICK v : v = [s EXCEPT !.todo = todo]
        OBVIOUS
      <4> HIDE DEF x, got, todo
      <4>1. /\ v.pending = s.pending /\ v.mixed = s.mixed /\ v.overtaken = s.overtaken
            /\ u = [v EXCEPT !.got = got, !.overtaken = v.overtaken /\ lock = c]
            /\ v = [cmd |-> s.cmd, pc |-> s.pc, got |-> s.got, todo |-> todo, pending |-> s.pending,
                    dead |-> s.dead, overtaken |-> s.overtaken, mixed |-> s.mixed]
        BY DEF then_do, Sessions, todo
      <4> HIDE DEF u
      <4> QED BY <4>1
    <3>2. got.id \in HostIds(View(c))
      BY <2>1 DEF HostIds
    <3>3. s.overtaken \in BOOLEAN
      BY DEF Sessions
    <3> HIDE DEF u, got
    <3> QED BY <1>4, <1>5, <1>9, <2>1, <3>1, <3>2, <3>3 DEF ImportStep
  <2> QED BY <1>13, <1>15, <2>1 DEF lookup
<1>16. CASE find_host(c)
  <2> DEFINE x == [do |-> "save", host |-> s.todo[1].host]
             got == IF s.todo[1].host \in DOMAIN View(c).hosts
                    THEN [id |-> View(c).hosts[s.todo[1].host].id] ELSE None
             todo == <<x>> \o Tail(s.todo)
             u == [then_do(s, <<x>>) EXCEPT !.got = got, !.overtaken = @ /\ lock = c]
  <2>1. ASSUME goes_on(c, u) PROVE ImportStep(c)
    <3>1. todo[1] = x /\ x.do = "save"
      <4>1. <<x>> \in Seq({x}) /\ Len(<<x>>) = 1 /\ <<x>>[1] = x
        OBVIOUS
      <4> QED BY <1>7
    <3>2. u.pending = s.pending /\ u.mixed = s.mixed /\ u.todo = todo
          /\ u.overtaken = (s.overtaken /\ lock = c)
      <4> PICK v : v = [s EXCEPT !.todo = todo]
        OBVIOUS
      <4> HIDE DEF x, got
      <4>1. /\ v.pending = s.pending /\ v.mixed = s.mixed /\ v.overtaken = s.overtaken
            /\ u = [v EXCEPT !.got = got, !.overtaken = v.overtaken /\ lock = c]
            /\ v = [cmd |-> s.cmd, pc |-> s.pc, got |-> s.got, todo |-> todo, pending |-> s.pending,
                    dead |-> s.dead, overtaken |-> s.overtaken, mixed |-> s.mixed]
        BY DEF then_do, Sessions
      <4> HIDE DEF u, todo
      <4> QED BY <4>1
    <3>3. s.overtaken \in BOOLEAN
      BY DEF Sessions
    <3> HIDE DEF u, todo
    <3> QED BY <1>9, <1>12, <2>1, <3>1, <3>2, <3>3 DEF Replaces
  <2> QED BY <1>13, <1>16, <2>1 DEF find_host
<1>17. CASE run_ansible(c)
  <2>1. PICK kind \in Parts : /\ s.todo[1].do = kind
                              /\ \E b \in Brought(kind) : goes_on(c, then_do(s, b \o <<[do |-> "log"]>>))
    BY <1>17 DEF run_ansible, Doing
  <2>2. PICK front : goes_on(c, then_do(s, front))
    BY <2>1
  <2>3. then_do(s, front).pending = s.pending /\ then_do(s, front).mixed = s.mixed
        /\ then_do(s, front).overtaken = s.overtaken
        /\ then_do(s, front).got = s.got /\ then_do(s, front).dead = s.dead
    BY DEF then_do, Sessions
  <2>4. t = then_do(s, front) /\ UNCHANGED <<lock, tx>>
    BY <1>9, <2>2
  <2>5. ~Replaces(t)
    <3>1. PICK brought \in Brought(kind) : goes_on(c, then_do(s, brought \o <<[do |-> "log"]>>))
      BY <2>1
    <3> DEFINE first == brought \o <<[do |-> "log"]>>
    <3>2. first \in Seq(Statements) /\ first # <<>> /\ \A i \in DOMAIN first : first[i].do \notin Started
      <4>1. \E what \in {"lookup", "find"} : brought \in Seq(Statements) /\ \A i \in DOMAIN brought : brought[i].do = what
        <5>1. CASE kind = "facts"
          <6>1. PICK names \in FactsRuns : brought = Finds(names)
            BY <3>1, <5>1 DEF Brought
          <6>2. names \in Seq(HostNames)
            BY SharedStoreAssumption
          <6> QED BY <6>1, <6>2, Runs
        <5>2. CASE kind = "docker"
          <6>1. PICK records \in DockerRuns : brought = Lookups(records)
            BY <3>1, <5>2 DEF Brought
          <6>2. records \in Seq(Records)
            BY SharedStoreAssumption
          <6> QED BY <6>1, <6>2, Runs
        <5>3. CASE kind = "other"
          <6>1. brought = <<>>
            BY <3>1, <5>3 DEF Brought
          <6> QED BY <6>1, EmptySeq
        <5> QED BY <5>1, <5>2, <5>3 DEF Parts
      <4>2. PICK what \in {"lookup", "find"} : brought \in Seq(Statements) /\ \A i \in DOMAIN brought : brought[i].do = what
        BY <4>1
      <4> QED BY <4>2, RunInOrder
    <3> HIDE DEF first
    <3>3. t = then_do(s, first)
      BY <1>9, <3>1 DEF first
    <3>4. t.todo = first \o Tail(s.todo)
      BY <3>3 DEF then_do, Sessions
    <3>5. 1 \in DOMAIN first /\ (first \o Tail(s.todo))[1] = first[1]
      BY <1>7, <3>2
    <3> QED BY <3>2, <3>4, <3>5 DEF Replaces, Started
  <2> QED BY <1>12, <2>3, <2>4, <2>5
<1>18. CASE collect_error(c)
  <2> DEFINE u == [s EXCEPT !.pc = "commit", !.todo = <<>>]
  <2>1. goes_on(c, u)
    BY <1>3, <1>18 DEF collect_error
  <2>2. u.todo = <<>> /\ u.pending = s.pending /\ u.mixed = s.mixed /\ u.overtaken = s.overtaken
    BY DEF Sessions
  <2> HIDE DEF u
  <2> QED BY <1>9, <1>12, <2>1, <2>2 DEF Replaces
<1>19. CASE give_up(c)
  <2> DEFINE u == [skip(s) EXCEPT !.dead = TRUE]
  <2>1. goes_on(c, skip(s)) \/ goes_on(c, u)
    BY <1>3, <1>19 DEF give_up
  <2>2. /\ u.todo = Tail(s.todo) /\ u.pending = s.pending /\ u.mixed = s.mixed
        /\ u.overtaken = s.overtaken
    BY <1>8 DEF Sessions
  <2> HIDE DEF u
  <2>3. goes_on(c, u) => ImportStep(c)
    BY <1>7, <1>9, <1>12, <2>2 DEF Replaces, Started
  <2> QED BY <1>13, <2>1, <2>3
\* It writes.
<1>20. CASE save_host(c)
  <2> DEFINE new == with_host(View(c), s.todo[1].host)
  <2>1. \/ fails(c) \/ flush(c, View(c), skip(s))
        \/ s.todo[1].host \notin DOMAIN View(c).hosts /\ flush(c, new, skip(s))
    BY <1>20 DEF save_host
  <2>2. s.pending = <<>>
    BY <1>11, <1>20 DEF save_host, Doing
  <2>3. new.rows = View(c).rows
    BY <1>1 DEF with_host, Kept, IsFile
  <2>4. s.todo[1].host \notin DOMAIN View(c).hosts => HostIds(View(c)) \subseteq HostIds(new)
    <3> SUFFICES ASSUME s.todo[1].host \notin DOMAIN View(c).hosts, NEW h \in DOMAIN View(c).hosts
                 PROVE  View(c).hosts[h].id \in HostIds(new)
      BY DEF HostIds
    <3>1. h \in DOMAIN new.hosts /\ new.hosts[h] = View(c).hosts[h]
      BY <1>1 DEF with_host, Kept, IsFile
    <3> HIDE DEF new
    <3> QED BY <3>1 DEF HostIds
  <2>5. ~Replaces(skip(s))
    BY <1>7, <1>8 DEF Replaces, Started
  <2> HIDE DEF new
  <2>6. ASSUME NEW d, d.rows = View(c).rows, HostIds(View(c)) \subseteq HostIds(d), flush(c, d, skip(s))
        PROVE  ImportStep(c)
    <3>1. t = skip(s) /\ lock' = c /\ tx' = d
      BY <1>10, <2>6
    <3>2. HostIds(tx') = HostIds(d)
      BY <3>1 DEF HostIds
    <3> QED BY <1>4, <1>5, <1>8, <2>2, <2>5, <2>6, <3>1, <3>2 DEF ImportStep
  <2> QED BY <1>14, <2>1, <2>3, <2>4, <2>6
<1>21. CASE log(c)
  <2> DEFINE u == [skip(s) EXCEPT !.pending = <<>>, !.pc = IF Len(s.todo) = 1 THEN "commit" ELSE @]
  <2>1. flush(c, with_rows(View(c), s.pending), u)
    BY <1>3, <1>21 DEF log
  <2>2. /\ u.todo = Tail(s.todo) /\ u.pending = <<>> /\ u.mixed = s.mixed
        /\ u.overtaken = s.overtaken
    BY <1>8 DEF Sessions
  <2> HIDE DEF u
  <2>3. t = u /\ lock' = c /\ tx' = with_rows(View(c), s.pending)
    BY <1>10, <2>1
  <2>4. ~Replaces(t)
    BY <1>7, <2>2, <2>3 DEF Replaces, Started
  <2> QED BY <1>4, <1>5, <2>2, <2>3, <2>4 DEF ImportStep
<1>22. CASE replace(c)
  <2> DEFINE id == s.got.id
             listing == s.todo[1].listing
             cleared == Cleared(View(c), id)
             added == s.pending \o Added(id, ReadUpTo(listing))
             mixed == IF HasPending(s, id) THEN s.mixed \cup {id} ELSE s.mixed \ {id}
             u == [skip(s) EXCEPT !.mixed = IF HasPending(s, id) THEN @ \cup {id} ELSE @ \ {id}]
  <2>1. s.todo[1].do = "replace"
    BY <1>22 DEF replace, Doing
  <2>2. Replaces(s) /\ s.got \in [id : Ids]
    BY <1>6, <1>11, <2>1 DEF Replaces
  <2>3. listing \in Listings
    BY <1>7, <2>1 DEF Statements, Parts
  <2>4. u = [skip(s) EXCEPT !.mixed = mixed]
    BY DEF skip, Sessions
  <2>5. \/ flush(c, cleared, [u EXCEPT !.pending = added])
        \/ flush(c, with_rows(cleared, added), [u EXCEPT !.pending = <<>>])
        \/ fails(c)
    BY <1>22 DEF replace, Cleared
  <2> HIDE DEF cleared, added, mixed, u
  <2>6. ASSUME NEW p, NEW d, flush(c, d, [u EXCEPT !.pending = p]),
               (d = cleared /\ p = added) \/ (d = with_rows(cleared, added) /\ p = <<>>)
        PROVE  ImportStep(c)
    <3> DEFINE v == [u EXCEPT !.pending = p]
    <3>1. /\ v.todo = Tail(s.todo) /\ v.pending = p /\ v.mixed = mixed
          /\ v.overtaken = s.overtaken
      BY <1>8, <2>4 DEF Sessions
    <3>2. t = v /\ lock' = c /\ tx' = d
      BY <1>10, <2>6
    <3> HIDE DEF v
    <3>3. ~Replaces(t)
      BY <1>7, <3>1, <3>2 DEF Replaces, Started
    <3>4. Replacement(s, View(c), tx', t.pending)
      BY <2>3, <2>6, <3>1, <3>2 DEF Replacement, cleared, added
    <3>5. t.mixed = MixedBy(s)
      BY <3>1, <3>2 DEF mixed, MixedBy
    <3> QED BY <1>4, <1>5, <2>2, <3>1, <3>2, <3>3, <3>4, <3>5 DEF ImportStep
  <2> QED BY <1>14, <2>5, <2>6
<1> QED BY <1>6, <1>15, <1>16, <1>17, <1>18, <1>19, <1>20, <1>21, <1>22

\* What an import has left pending it has left behind its lock.
LEMMA PendingNeedsLock == Spec => []PendInv
<1>1. Init => PendInv
  BY DEF Init, PendInv
<1>2. TypeOK /\ StoreInv /\ PendInv /\ [Next]_vars => PendInv'
  <2> SUFFICES ASSUME TypeOK, StoreInv, PendInv, [Next]_vars PROVE PendInv'
    OBVIOUS
  <2>1. CASE UNCHANGED vars
    BY <2>1 DEF vars, PendInv
  <2>2. ASSUME NEW c \in Clients, step(c) PROVE PendInv'
    <3>1. /\ \A x \in Clients \ {c} :
                \/ sess'[x] = sess[x]
                \/ sess[x] # None /\ sess'[x] = [sess[x] EXCEPT !.overtaken = TRUE]
          /\ lock \notin {None, c} => UNCHANGED <<db, lock, tx>>
      BY <2>2, Others
    <3>2. /\ c # None /\ sess = [x \in Clients |-> sess[x]]
          /\ \A x \in Clients : sess[x] # None => sess[x] \in Sessions
          /\ \A x \in Clients : x # None
      BY SharedStoreAssumption DEF TypeOK
    <3>3. ASSUME NEW x \in Clients, x # c, sess'[x] # None, sess'[x].cmd.kind \in ImportKinds,
                 sess'[x].pending # <<>>
          PROVE  lock' = x
      <4>1. sess[x] # None /\ sess[x] \in Sessions
        BY <3>1, <3>2, <3>3
      <4>2. sess'[x].cmd = sess[x].cmd /\ sess'[x].pending = sess[x].pending
        <5>1. CASE sess'[x] = [sess[x] EXCEPT !.overtaken = TRUE]
          BY <4>1, <5>1 DEF Sessions
        <5> QED BY <3>1, <3>3, <5>1
      <4>3. lock = x
        BY <3>3, <4>1, <4>2 DEF PendInv
      <4> QED BY <3>1, <3>2, <3>3, <4>3
    <3>4. ASSUME sess'[c] # None, sess'[c].cmd.kind \in ImportKinds, sess'[c].pending # <<>>
          PROVE  lock' = c
      <4>1. CASE \E cmd \in Commands : begin(c, cmd)
        <5>1. sess'[c].pending = <<>>
          BY <3>2, <4>1 DEF begin, NewSession
        <5> QED BY <3>4, <5>1
      <4>2. CASE sess[c] # None /\ Outcome(c)
        <5>1. ~end(c) /\ ~flush_and_commit(c, db') /\ ~commit(c)
          BY <3>2, <3>4 DEF end, flush_and_commit, commit, AfterCommit
        <5>2. sess[c].cmd.kind \in ImportKinds
          <6>1. ASSUME NEW t \in Sessions, Fits(c, t), sess' = [sess EXCEPT ![c] = t]
                PROVE  sess[c].cmd.kind \in ImportKinds
            BY <3>2, <3>4, <6>1 DEF Fits
          <6> QED BY <4>2, <5>1, <6>1 DEF Outcome, goes_on, flush, rolls_back
        <5>3. ImportStep(c)
          BY <2>2, <3>4, <4>2, <5>2, ImportSteps
        <5>4. sess[c].pending # <<>> => lock = c
          BY <4>2, <5>2 DEF PendInv
        <5> QED BY <3>4, <5>3, <5>4 DEF ImportStep
      <4> QED BY <2>2, <4>1, <4>2, Outcomes
    <3> QED BY <3>3, <3>4 DEF PendInv
  <2> QED BY <2>1, <2>2 DEF Next
<1> QED BY <1>1, <1>2, StoreTyped, PTL DEF Spec

\* Nobody who has not been overtaken makes an orphan: a transaction has no new
\* one, a deletion knows all containers of its host, and an import writes, or has
\* pending, containers of hosts that are there.
OrphanInv ==
    \A c \in Clients : sess[c] # None /\ ~sess[c].overtaken =>
       LET s == sess[c]
       IN  /\ lock = c => Orphans(tx) \subseteq Orphans(db)
           /\ s.cmd.kind = "delete_host" /\ s.pc = "write" => s.got.rows = RowsOf(db, s.got.id)
           /\ s.cmd.kind \in ImportKinds =>
                 /\ Replaces(s) => s.got.id \in HostIds(View(c))
                 /\ \A r \in Range(s.pending) : r.host_id \in HostIds(View(c))

\* docker_import.py, hosts.py: a container without a host comes into the file
\* only by a session that another commit has overtaken between its lookup and
\* its write.
THEOREM OrphansComeByRace == Spec => OrphansOnlyByRace
<1>1. Init => OrphanInv
  BY DEF Init, OrphanInv
<1>2. ASSUME NEW d, NEW e, HostIds(d) \subseteq HostIds(e),
             \A r \in RowsIn(e) : r \in RowsIn(d) \/ r.host_id \in HostIds(e)
      PROVE  Orphans(e) \subseteq Orphans(d)
  BY <1>2 DEF Orphans, RowsIn
<1>3. ASSUME NEW d, Kept(d), NEW added \in Seq(Row), NEW gone
      PROVE  /\ RowsIn(with_rows(d, added)) = RowsIn(d) \cup Range(added)
             /\ RowsIn(without_rows(d, gone)) \subseteq RowsIn(d) /\ Kept(without_rows(d, gone))
             /\ HostIds(with_rows(d, added)) = HostIds(d) /\ HostIds(without_rows(d, gone)) = HostIds(d)
  <2>1. Kept(without_rows(d, gone)) /\ RowsIn(with_rows(d, added)) = RowsIn(d) \cup {added[n] : n \in DOMAIN added}
    BY <1>3, RowEdits
  <2>2. with_rows(d, added).hosts = d.hosts /\ without_rows(d, gone).hosts = d.hosts
    BY <1>3 DEF with_rows, without_rows, Kept, IsFile
  <2>3. RowsIn(without_rows(d, gone)) \subseteq RowsIn(d)
    BY <1>3 DEF without_rows, RowsIn, Kept, IsFile
  <2> QED BY <2>1, <2>2, <2>3 DEF HostIds, Range
<1>4. TypeOK /\ StoreInv /\ PendInv /\ OrphanInv /\ [Next]_vars => OrphanInv'
  <2> SUFFICES ASSUME TypeOK, StoreInv, PendInv, OrphanInv, [Next]_vars PROVE OrphanInv'
    OBVIOUS
  <2>1. CASE UNCHANGED vars
    <3> DEFINE Good(s, held, d, e) ==
                 /\ held => Orphans(e) \subseteq Orphans(d)
                 /\ s.cmd.kind = "delete_host" /\ s.pc = "write" => s.got.rows = RowsOf(d, s.got.id)
                 /\ s.cmd.kind \in ImportKinds =>
                       /\ Replaces(s) => s.got.id \in HostIds(IF held THEN e ELSE d)
                       /\ \A r \in Range(s.pending) : r.host_id \in HostIds(IF held THEN e ELSE d)
    <3>1. \A x \in Clients : sess[x] # None /\ ~sess[x].overtaken => Good(sess[x], lock = x, db, tx)
      BY DEF OrphanInv, View
    <3>2. SUFFICES \A x \in Clients : sess'[x] # None /\ ~sess'[x].overtaken
                                       => Good(sess'[x], lock' = x, db', tx')
      BY DEF OrphanInv, View, Orphans, RowsOf, HostIds
    <3> HIDE DEF Good
    <3> QED BY <2>1, <3>1, <3>2 DEF vars
  <2>2. ASSUME NEW c \in Clients, step(c) PROVE OrphanInv'
    <3> DEFINE Good(s, held, d, e) ==
                 /\ held => Orphans(e) \subseteq Orphans(d)
                 /\ s.cmd.kind = "delete_host" /\ s.pc = "write" => s.got.rows = RowsOf(d, s.got.id)
                 /\ s.cmd.kind \in ImportKinds =>
                       /\ Replaces(s) => s.got.id \in HostIds(IF held THEN e ELSE d)
                       /\ \A r \in Range(s.pending) : r.host_id \in HostIds(IF held THEN e ELSE d)
    <3>1. \A x \in Clients : sess[x] # None /\ ~sess[x].overtaken => Good(sess[x], lock = x, db, tx)
      BY DEF OrphanInv, View
    <3>2. SUFFICES \A x \in Clients : sess'[x] # None /\ ~sess'[x].overtaken
                                       => Good(sess'[x], lock' = x, db', tx')
      BY DEF OrphanInv, View, Orphans, RowsOf, HostIds
    <3>3. /\ \A x \in Clients \ {c} :
                \/ sess'[x] = sess[x] /\ (sess[x] = None \/ db' = db)
                \/ sess[x] # None /\ sess'[x] = [sess[x] EXCEPT !.overtaken = TRUE]
          /\ lock \notin {None, c} => UNCHANGED <<db, lock, tx>>
          /\ lock' \in {lock, None, c}
      BY <2>2, Others
    <3>4. /\ c # None /\ sess = [x \in Clients |-> sess[x]] /\ lock \in Clients \cup {None}
          /\ \A x \in Clients : sess[x] # None => sess[x] \in Sessions /\ Shape(sess[x])
          /\ lock = c => sess[c] # None /\ Holder(sess[c])
          /\ Kept(db) /\ Kept(View(c))
      BY SharedStoreAssumption DEF TypeOK, StoreInv, View
    <3>5. ASSUME NEW x \in Clients, x # c, sess'[x] # None, ~sess'[x].overtaken
          PROVE  Good(sess'[x], lock' = x, db', tx')
      <4>1. sess[x] # None => [sess[x] EXCEPT !.overtaken = TRUE].overtaken
        BY <3>4 DEF Sessions
      <4>2. sess'[x] = sess[x] /\ db' = db
        BY <3>3, <3>5, <4>1
      <4>3. (lock' = x <=> lock = x) /\ (lock = x => tx' = tx)
        <5>1. x # None
          BY SharedStoreAssumption
        <5> QED BY <3>3, <3>5, <5>1
      <4> HIDE DEF Good
      <4>4. Good(sess[x], lock = x, db, tx)
        BY <3>1, <3>5, <4>2
      <4>5. CASE lock = x
        BY <4>2, <4>3, <4>4, <4>5
      <4>6. CASE lock # x
        BY <4>2, <4>3, <4>4, <4>6 DEF Good
      <4> QED BY <4>5, <4>6
    <3>6. SUFFICES ASSUME sess'[c] # None, ~sess'[c].overtaken
                   PROVE  Good(sess'[c], lock' = c, db', tx')
      BY <3>5
    <3>7. CASE \E cmd \in Commands : begin(c, cmd)
      <4> PICK cmd \in Commands : begin(c, cmd)
        BY <3>7
      <4> DEFINE t == NewSession(cmd, Todo(cmd))
      <4>1. sess'[c] = t /\ sess[c] = None /\ UNCHANGED lock
        BY <3>4 DEF begin
      <4>2. t.got = None /\ t.pending = <<>> /\ t.cmd = cmd /\ t.pc \in {"read", "work"}
        BY DEF NewSession
      <4>3. Shape(t)
        BY Beginnings
      <4> HIDE DEF t
      <4>4. t.cmd.kind \in ImportKinds => ~Replaces(t) /\ Range(t.pending) = {}
        BY <4>2, <4>3 DEF Shape, Replaces, Range
      <4>5. lock' # c
        BY <3>4, <4>1
      <4> QED BY <4>1, <4>2, <4>4, <4>5
    <3>8. CASE sess[c] # None /\ Outcome(c) /\ OfItsKind(c)
      <4> PICK s : s = sess[c]
        OBVIOUS
      <4> PICK t : t = sess'[c]
        OBVIOUS
      <4>1. /\ s # None /\ s \in Sessions /\ Shape(s) /\ IsCommand(s.cmd)
            /\ ~s.overtaken => Good(s, lock = c, db, tx)
        BY <3>1, <3>4, <3>8, SharedStoreAssumption DEF Sessions
      <4> SUFFICES Good(t, lock' = c, db', tx')
        OBVIOUS
      <4>2. /\ s.cmd.kind \in FieldKinds \cup {"delete_host"} <=> s.cmd.kind \in HostKinds
            /\ s.cmd.kind \in HostKinds => s.cmd.kind \notin ImportKinds
            /\ s.cmd.kind \in FieldKinds => s.cmd.kind # "delete_host"
            /\ s.cmd.kind \in UserKinds \cup AddKinds => s.cmd.kind \notin HostKinds \cup ImportKinds
        BY DEF UserKinds, Guarded, AddKinds, HostKinds, FieldKinds, ImportKinds
      <4>3. ASSUME NEW x, goes_on(c, x) PROVE t = x /\ UNCHANGED <<db, lock, tx>>
        BY <3>4, <4>3 DEF goes_on
      <4>4. ASSUME NEW x, NEW new, flush(c, new, x)
            PROVE  t = x /\ db' = db /\ lock' = c /\ tx' = new /\ lock \in {None, c}
        BY <3>4, <4>4 DEF flush, Free
      <4>5. ~end(c) /\ ~flush_and_commit(c, db') /\ ~commit(c)
        BY <3>4, <3>6 DEF end, flush_and_commit, commit, AfterCommit
      <4>6. CASE s.cmd.kind \in UserKinds \cup AddKinds
        <5>1. t.cmd = s.cmd /\ lock' # c
          <6>1. lock # c
            BY <3>4, <4>2, <4>6 DEF Holder, HostKinds
          <6>2. ASSUME NEW x \in Sessions, Fits(c, x), Holder(x) PROVE FALSE
            BY <4>2, <4>6, <6>2 DEF Fits, Holder, HostKinds
          <6>3. ASSUME NEW x \in Sessions, Fits(c, x), goes_on(c, x) \/ rolls_back(c, x)
                PROVE  t.cmd = s.cmd /\ t = x /\ lock' # c
            BY <3>4, <6>1, <6>3 DEF goes_on, rolls_back, Fits
          <6> QED BY <3>8, <4>5, <6>2, <6>3 DEF Outcome
        <5> QED BY <4>2, <4>6, <5>1
      <4>7. CASE s.cmd.kind \in HostKinds
        <5>1. CASE get_host(c)
          <6> DEFINE host == db.hosts[s.cmd.on]
                     got == [id |-> host.id, fields |-> host.fields, rows |-> RowsOf(db, host.id)]
                     x == [s EXCEPT !.got = got, !.pc = "write", !.overtaken = FALSE]
          <6>1. s.pc = "read" /\ goes_on(c, x)
            BY <4>5, <5>1 DEF get_host, has_read, At
          <6>2. t.cmd = s.cmd /\ t.got = got /\ UNCHANGED <<db, lock, tx>>
            <7> HIDE DEF got
            <7>1. x.cmd = s.cmd /\ x.got = got
              BY <4>1 DEF Sessions
            <7> HIDE DEF x
            <7> QED BY <4>3, <6>1, <7>1
          <6>3. lock # c
            BY <3>4, <4>2, <4>7, <6>1 DEF Holder
          <6>4. got.rows = RowsOf(db, got.id)
            OBVIOUS
          <6> HIDE DEF got
          <6> QED BY <4>2, <4>7, <6>2, <6>3, <6>4
        <5>2. CASE write_field(c)
          <6> DEFINE new == with_fields(db, s.got.id, edited(s.cmd, s.got.fields))
                     x == [s EXCEPT !.pc = "commit"]
          <6>1. s.cmd.kind \in FieldKinds /\ s.pc = "write" /\ (goes_on(c, x) \/ flush(c, new, x))
            BY <4>5, <5>2 DEF write_field, At
          <6>2. t.cmd = s.cmd /\ db' = db /\ (lock' = c => tx' = new)
            <7>1. lock # c
              BY <3>4, <4>2, <6>1 DEF Holder
            <7>2. x.cmd = s.cmd
              BY <4>1 DEF Sessions
            <7> HIDE DEF x, new
            <7> QED BY <4>3, <4>4, <6>1, <7>1, <7>2
          <6>3. Orphans(new) \subseteq Orphans(db)
            <7>1. new.rows = db.rows
              BY <3>4 DEF with_fields, Kept, IsFile
            <7>2. HostIds(new) = HostIds(db)
              BY <3>4 DEF with_fields, HostIds, Kept, IsFile, IsTable, Host
            <7> HIDE DEF new
            <7> QED BY <1>2, <7>1, <7>2 DEF RowsIn
          <6> HIDE DEF new
          <6> QED BY <4>2, <6>1, <6>2, <6>3
        <5> QED BY <3>6, <3>8, <4>7, <5>1, <5>2 DEF OfItsKind
      <4>8. CASE s.cmd.kind \in ImportKinds
        <5> DEFINE seen == View(c)
        <5>1. ImportStep(c) /\ t.cmd = s.cmd /\ db' = db /\ t.cmd.kind # "delete_host"
          BY <2>2, <3>6, <3>8, <4>2, <4>8, ImportSteps DEF ImportStep
        <5>2. s.pending \in Seq(Row) /\ Kept(seen) /\ (lock # c => s.pending = <<>>)
          BY <3>4, <3>8, <4>1, <4>8 DEF PendInv, Sessions
        <5>3. ~s.overtaken => /\ Orphans(seen) \subseteq Orphans(db)
                              /\ Replaces(s) => s.got.id \in HostIds(seen)
                              /\ \A r \in Range(s.pending) : r.host_id \in HostIds(seen)
          BY <4>1, <4>8 DEF View
        <5>4. (lock = c => seen = tx) /\ (lock # c => seen = db)
          BY DEF View
        <5> HIDE DEF seen
        <5>5. CASE /\ UNCHANGED <<lock, tx>> /\ t.pending = s.pending
                   /\ lock = c => t.overtaken = s.overtaken
                   /\ Replaces(t) => t.got.id \in HostIds(seen)
          <6>1. seen = IF lock' = c THEN tx' ELSE db'
            BY <5>1, <5>4, <5>5
          <6>2. Range(<<>>) = {}
            BY DEF Range
          <6> QED BY <3>6, <5>1, <5>2, <5>3, <5>4, <5>5, <6>1, <6>2
        <5>6. CASE t.pending = <<>> /\ lock' = None /\ ~Replaces(t)
          <6>1. Range(t.pending) = {} /\ lock' # c
            BY <3>4, <5>6 DEF Range
          <6> QED BY <5>1, <5>6, <6>1
        <5>7. ASSUME lock' = c, ~Replaces(t), ~s.overtaken, Orphans(tx') \subseteq Orphans(seen),
                     \A r \in Range(t.pending) : r.host_id \in HostIds(tx')
              PROVE  Good(t, lock' = c, db', tx')
          BY <5>1, <5>3, <5>7
        <5> HIDE DEF Good
        <5>8. CASE /\ lock' = c /\ t.overtaken = s.overtaken /\ ~Replaces(t) /\ t.pending = <<>>
                   /\ tx'.rows = seen.rows /\ HostIds(seen) \subseteq HostIds(tx')
          <6>1. RowsIn(tx') = RowsIn(seen) /\ Range(t.pending) = {}
            BY <5>8 DEF RowsIn, Range
          <6>2. Orphans(tx') \subseteq Orphans(seen)
            BY <1>2, <5>8, <6>1
          <6> QED BY <3>6, <5>7, <5>8, <6>1, <6>2
        <5>9. CASE /\ lock' = c /\ t.overtaken = s.overtaken /\ ~Replaces(t) /\ t.pending = <<>>
                   /\ tx' = with_rows(seen, s.pending)
          <6>1. RowsIn(tx') = RowsIn(seen) \cup Range(s.pending) /\ HostIds(tx') = HostIds(seen)
            BY <1>3, <5>2, <5>9
          <6>2. Orphans(tx') \subseteq Orphans(seen)
            BY <1>2, <3>6, <5>3, <5>9, <6>1
          <6>3. Range(t.pending) = {}
            BY <5>9 DEF Range
          <6> QED BY <3>6, <5>7, <5>9, <6>2, <6>3
        <5>10. CASE /\ lock' = c /\ t.overtaken = s.overtaken /\ ~Replaces(t)
                    /\ Replaces(s) /\ s.got \in [id : Ids] /\ Replacement(s, seen, tx', t.pending)
          <6> PICK l \in Listings :
                 LET added == s.pending \o Added(s.got.id, ReadUpTo(l))
                     cleared == Cleared(seen, s.got.id)
                 IN  \/ tx' = cleared /\ t.pending = added
                     \/ tx' = with_rows(cleared, added) /\ t.pending = <<>>
            BY <5>10 DEF Replacement
          <6> DEFINE new == Added(s.got.id, ReadUpTo(l))
                     added == s.pending \o new
                     cleared == Cleared(seen, s.got.id)
          <6>1. (tx' = cleared /\ t.pending = added) \/ (tx' = with_rows(cleared, added) /\ t.pending = <<>>)
            OBVIOUS
          <6>2. new \in Seq(Row) /\ \A r \in Range(new) : r.host_id = s.got.id
            <7>1. s.got.id \in Ids
              BY <5>10
            <7>2. new \in Seq(Row)
              BY <7>1, RowsRead
            <7> QED BY <7>2 DEF Added, Range
          <6> HIDE DEF new
          <6>3. added \in Seq(Row) /\ Range(added) = Range(s.pending) \cup Range(new)
            BY <5>2, <6>2, RangeConcatenation
          <6> HIDE DEF added
          <6>4. \A r \in Range(added) : r.host_id \in HostIds(seen)
            BY <3>6, <5>3, <5>10, <6>2, <6>3
          <6>5. RowsIn(cleared) \subseteq RowsIn(seen) /\ HostIds(cleared) = HostIds(seen) /\ Kept(cleared)
            <7>1. <<>> \in Seq(Row)
              BY EmptySeq
            <7> QED BY <1>3, <5>2, <7>1 DEF Cleared
          <6> HIDE DEF cleared
          <6>6. /\ RowsIn(with_rows(cleared, added)) = RowsIn(cleared) \cup Range(added)
                /\ HostIds(with_rows(cleared, added)) = HostIds(cleared)
            BY <1>3, <6>3, <6>5
          <6>7. HostIds(tx') = HostIds(seen) /\ \A r \in RowsIn(tx') : r \in RowsIn(seen) \/ r \in Range(added)
            BY <6>1, <6>5, <6>6
          <6>8. Orphans(tx') \subseteq Orphans(seen)
            BY <1>2, <6>4, <6>7
          <6>9. \A r \in Range(t.pending) : r.host_id \in HostIds(tx')
            <7>1. Range(<<>>) = {}
              BY DEF Range
            <7> QED BY <6>1, <6>4, <6>7, <7>1
          <6> QED BY <3>6, <5>7, <5>10, <6>8, <6>9
        <5> QED BY <5>1, <5>5, <5>6, <5>8, <5>9, <5>10 DEF ImportStep, seen
      <4> QED BY <4>1, <4>6, <4>7, <4>8 DEF IsCommand
    <3> QED BY <2>2, <3>7, <3>8, Outcomes
  <2> QED BY <2>1, <2>2 DEF Next
<1>5. TypeOK /\ StoreInv /\ OrphanInv /\ [Next]_vars =>
      [\A c \in Clients :
          Ends(c) /\ ~(Orphans(db') \subseteq Orphans(db)) => sess[c].overtaken]_vars
  <2> SUFFICES ASSUME TypeOK, StoreInv, OrphanInv, Next, NEW c \in Clients, Ends(c),
                      ~sess[c].overtaken, db' # db
               PROVE  Orphans(db') \subseteq Orphans(db)
    BY DEF vars, Ends
  <2>1. Kept(db) /\ c # None /\ sess[c] # None
    BY SharedStoreAssumption DEF StoreInv, Ends
  <2>2. ASSUME delete_user(c) \/ set_admin_or_active(c) \/ create_user(c) PROVE Orphans(db') \subseteq Orphans(db)
    <3>1. \A id, kind, name, admin :
             /\ without_user(db, id).hosts = db.hosts /\ without_user(db, id).rows = db.rows
             /\ with_user_changed(db, id, kind).hosts = db.hosts
             /\ with_user_changed(db, id, kind).rows = db.rows
             /\ with_user(db, name, admin).hosts = db.hosts /\ with_user(db, name, admin).rows = db.rows
      BY <2>1 DEF without_user, with_user_changed, with_user, Kept, IsFile
    <3>2. db'.hosts = db.hosts /\ db'.rows = db.rows
      BY <2>2, <3>1 DEF delete_user, set_admin_or_active, create_user, flush_and_commit, end
    <3> QED BY <3>2 DEF Orphans, HostIds
  <2>3. ASSUME delete_host(c) PROVE Orphans(db') \subseteq Orphans(db)
    <3> PICK got : got = sess[c].got
      OBVIOUS
    <3>1. got.rows = RowsOf(db, got.id)
      BY <2>1, <2>3 DEF OrphanInv, delete_host, At
    <3>2. db' = without_host(without_rows(db, got.rows), got.id)
      BY <2>3 DEF delete_host, flush_and_commit
    <3>3. db'.rows = [i \in DOMAIN db.rows \ got.rows |-> db.rows[i]]
      BY <2>1, <3>2 DEF without_host, without_rows, Kept, IsFile
    <3>4. db'.hosts = [h \in {x \in DOMAIN db.hosts : db.hosts[x].id # got.id} |-> db.hosts[h]]
      BY <2>1, <3>2 DEF without_host, without_rows, Kept, IsFile
    <3>5. HostIds(db) \ {got.id} \subseteq HostIds(db')
      BY <3>4 DEF HostIds
    <3>6. \A i \in DOMAIN db'.rows : i \in DOMAIN db.rows /\ db'.rows[i] = db.rows[i] /\ db.rows[i].host_id # got.id
      BY <3>1, <3>3 DEF RowsOf
    <3> QED BY <3>5, <3>6 DEF Orphans
  <2>4. ASSUME commit(c), lock = c, db' = tx PROVE Orphans(db') \subseteq Orphans(db)
    <3>1. Orphans(tx) \subseteq Orphans(db)
      BY <2>1, <2>4 DEF OrphanInv
    <3> QED BY <2>4, <3>1 DEF Orphans, HostIds
  <2> QED BY <2>2, <2>3, <2>4, Endings
<1> QED BY <1>1, <1>4, <1>5, StoreTyped, PendingNeedsLock, PTL DEF Spec, OrphansOnlyByRace

\* The containers that pending rows will bring to a host.
Brings(pending, id) == {r.name : r \in {q \in Range(pending) : q.host_id = id}}

\* A transaction leaves a host the containers it had, or has exchanged them for
\* those of one listing, or has deleted them and has that listing pending.
Listed(pending, d, e, id) ==
    \/ Brings(pending, id) = {} /\ NamesOf(e, id) = NamesOf(d, id)
    \/ Brings(pending, id) = {} /\ IsOneListing(NamesOf(e, id))
    \/ NamesOf(e, id) = {} /\ IsOneListing(Brings(pending, id))

ListingInv ==
    lock # None /\ sess[lock].cmd.kind \in ImportKinds =>
       \A id \in Ids \ sess[lock].mixed : Listed(sess[lock].pending, db, tx, id)

\* What the edits of an import do to the names on a host.
LEMMA NamesAfter ==
  ASSUME NEW d, Kept(d), NEW added \in Seq(Row), NEW k \in Ids
  PROVE  /\ \A id : NamesOf(with_rows(d, added), id) = NamesOf(d, id) \cup Brings(added, id)
         /\ NamesOf(Cleared(d, k), k) = {} /\ Kept(Cleared(d, k))
         /\ \A id \in Ids \ {k} : NamesOf(Cleared(d, k), id) = NamesOf(d, id)
<1>1. \A f, id : NamesOf(f, id) = {r.name : r \in {q \in RowsIn(f) : q.host_id = id}}
  BY DEF NamesOf, RowsOf, RowsIn
<1>2. ASSUME NEW id PROVE NamesOf(with_rows(d, added), id) = NamesOf(d, id) \cup Brings(added, id)
  <2> DEFINE new == with_rows(d, added)
  <2>1. RowsIn(new) = RowsIn(d) \cup Range(added)
    BY RowEdits DEF Range
  <2> HIDE DEF new
  <2>2. NamesOf(new, id) = NamesOf(d, id) \cup Brings(added, id)
    BY <1>1, <2>1 DEF Brings
  <2> QED BY <2>2 DEF new
<1>3. Cleared(d, k).rows = [i \in DOMAIN d.rows \ RowsOf(d, k) |-> d.rows[i]] /\ Kept(Cleared(d, k))
  <2>1. Kept(Cleared(d, k))
    BY RowEdits DEF Cleared
  <2> QED BY <2>1 DEF Cleared, without_rows, Kept, IsFile
<1> PICK e : e = Cleared(d, k)
  OBVIOUS
<1>4. \A id : RowsOf(e, id) = RowsOf(d, id) \ RowsOf(d, k)
  BY <1>3 DEF RowsOf
<1>5. RowsOf(e, k) = {} /\ \A id \in Ids \ {k} : RowsOf(e, id) = RowsOf(d, id)
  <2>1. \A id \in Ids \ {k} : RowsOf(d, id) \ RowsOf(d, k) = RowsOf(d, id)
    BY DEF RowsOf
  <2> QED BY <1>4, <2>1
<1>6. \A id : \A i \in RowsOf(e, id) : e.rows[i] = d.rows[i]
  BY <1>3 DEF RowsOf
<1>7. NamesOf(e, k) = {} /\ \A id \in Ids \ {k} : NamesOf(e, id) = NamesOf(d, id)
  BY <1>5, <1>6 DEF NamesOf
<1> QED BY <1>2, <1>3, <1>7

\* What a record adds to the rows that are pending.
LEMMA BroughtTogether ==
  ASSUME NEW p \in Seq(Row), NEW k \in Ids, NEW l \in Listings
  PROVE  LET added == p \o Added(k, ReadUpTo(l))
         IN  /\ added \in Seq(Row)
             /\ \A id \in Ids \ {k} : Brings(added, id) = Brings(p, id)
             /\ Brings(p, k) = {} => IsOneListing(Brings(added, k))
<1> DEFINE new == Added(k, ReadUpTo(l))
           added == p \o new
<1>1. new \in Seq(Row)
  BY RowsRead
<1>2. /\ \A r \in Range(new) : r.host_id = k
      /\ {r.name : r \in Range(new)} = Range(ReadUpTo(l))
  <2> PICK names : names = ReadUpTo(l)
    OBVIOUS
  <2>1. DOMAIN new = DOMAIN names /\ \A n \in DOMAIN names : new[n].host_id = k /\ new[n].name = names[n]
    BY DEF Added
  <2> HIDE DEF new
  <2> QED BY <2>1 DEF Range
<1> HIDE DEF new
<1>3. added \in Seq(Row) /\ Range(added) = Range(p) \cup Range(new)
  BY <1>1, RangeConcatenation
<1> HIDE DEF added
<1>4. \A id \in Ids \ {k} : Brings(added, id) = Brings(p, id)
  <2>1. \A id \in Ids \ {k} : {q \in Range(added) : q.host_id = id} = {q \in Range(p) : q.host_id = id}
    BY <1>2, <1>3
  <2> QED BY <2>1 DEF Brings
<1>5. ASSUME Brings(p, k) = {} PROVE IsOneListing(Brings(added, k))
  <2>1. {q \in Range(p) : q.host_id = k} = {}
    BY <1>5 DEF Brings
  <2>2. {q \in Range(added) : q.host_id = k} = Range(new)
    BY <1>2, <1>3, <2>1
  <2>3. Brings(added, k) = Range(ReadUpTo(l))
    BY <1>2, <2>2 DEF Brings
  <2> QED BY <2>3 DEF IsOneListing
<1> QED BY <1>3, <1>4, <1>5 DEF added, new

\* docker_import.py, collect.py: whatever fails on the way, an import that
\* commits leaves a host with the containers it had or with the records of one
\* listing, unless two of its records were of this host and the first broke off.
THEOREM ListingsMixOnlyByBreakOff == Spec => MixedOnlyByBreakOff
<1>1. Init => ListingInv
  BY DEF Init, ListingInv
<1>2. TypeOK /\ StoreInv /\ PendInv /\ ListingInv /\ [Next]_vars => ListingInv'
  <2> SUFFICES ASSUME TypeOK, StoreInv, PendInv, ListingInv, [Next]_vars PROVE ListingInv'
    OBVIOUS
  <2>1. CASE UNCHANGED vars
    <3>1. SUFFICES ASSUME lock' # None, sess'[lock'].cmd.kind \in ImportKinds
                   PROVE  \A id \in Ids \ sess'[lock'].mixed : Listed(sess'[lock'].pending, db', tx', id)
      BY DEF ListingInv, Listed, NamesOf, RowsOf
    <3> QED BY <2>1, <3>1 DEF vars, ListingInv
  <2>2. ASSUME NEW c \in Clients, step(c) PROVE ListingInv'
    <3>1. SUFFICES ASSUME lock' # None, sess'[lock'].cmd.kind \in ImportKinds
                   PROVE  \A id \in Ids \ sess'[lock'].mixed : Listed(sess'[lock'].pending, db', tx', id)
      BY DEF ListingInv, Listed, NamesOf, RowsOf
    <3>2. /\ \A x \in Clients \ {c} :
                \/ sess'[x] = sess[x]
                \/ sess[x] # None /\ sess'[x] = [sess[x] EXCEPT !.overtaken = TRUE]
          /\ lock \notin {None, c} => UNCHANGED <<db, lock, tx>>
          /\ lock' \in {lock, None, c}
      BY <2>2, Others
    <3>3. /\ c # None /\ sess = [x \in Clients |-> sess[x]] /\ lock \in Clients \cup {None}
          /\ \A x \in Clients : sess[x] # None => sess[x] \in Sessions /\ Shape(sess[x])
          /\ lock # None => sess[lock] # None
          /\ Kept(db) /\ Kept(View(c))
      BY SharedStoreAssumption DEF TypeOK, StoreInv, View
    <3>4. CASE lock' # c
      <4>1. lock \in Clients \ {c} /\ UNCHANGED <<db, lock, tx>>
        BY <3>1, <3>2, <3>3, <3>4
      <4>2. sess[lock] # None /\ sess[lock] \in Sessions
        BY <3>1, <3>3, <4>1
      <4> PICK s : s = sess[lock]
        OBVIOUS
      <4> PICK t : t = sess'[lock]
        OBVIOUS
      <4>3. t.cmd = s.cmd /\ t.pending = s.pending /\ t.mixed = s.mixed
        <5>1. CASE t = [s EXCEPT !.overtaken = TRUE]
          BY <4>2, <5>1 DEF Sessions
        <5> QED BY <3>2, <4>1, <5>1
      <4>4. \A id \in Ids \ s.mixed : Listed(s.pending, db, tx, id)
        BY <3>1, <4>1, <4>3 DEF ListingInv
      <4> QED BY <4>1, <4>3, <4>4
    <3>5. CASE lock' = c
      <4>1. sess[c] # None /\ Outcome(c)
        <5>1. ~(\E cmd \in Commands : begin(c, cmd))
          BY <3>3, <3>5 DEF begin
        <5> QED BY <2>2, <5>1, Outcomes
      <4>2. ~end(c) /\ ~flush_and_commit(c, db') /\ ~commit(c)
        BY <3>3, <3>5 DEF end, flush_and_commit, commit
      <4> PICK s : s = sess[c]
        OBVIOUS
      <4> PICK t : t = sess'[c]
        OBVIOUS
      <4>3. t \in Sessions /\ t.cmd = s.cmd
        <5>1. ASSUME NEW x \in Sessions, Fits(c, x), sess' = [sess EXCEPT ![c] = x]
              PROVE  t \in Sessions /\ t.cmd = s.cmd
          BY <3>3, <5>1 DEF Fits
        <5> QED BY <4>1, <4>2, <5>1 DEF Outcome, goes_on, flush, rolls_back
      <4>4. s.cmd.kind \in ImportKinds /\ t # None
        BY <3>1, <3>5, <4>3, SharedStoreAssumption
      <4>5. ImportStep(c) /\ db' = db
        BY <2>2, <4>1, <4>4, ImportSteps DEF ImportStep
      <4> DEFINE seen == View(c)
      <4>6. /\ s.pending \in Seq(Row) /\ Kept(seen) /\ s.mixed \subseteq Ids
            /\ \A id : Brings(<<>>, id) = {}
        BY <3>3, <4>1 DEF Sessions, Brings, Range
      <4>7. \A id \in Ids \ s.mixed : Listed(s.pending, db, seen, id)
        <5>1. CASE lock = c
          BY <3>3, <4>4, <5>1 DEF ListingInv, View
        <5>2. CASE lock # c
          <6>1. s.pending = <<>> /\ seen = db
            BY <4>1, <4>4, <5>2 DEF PendInv, View
          <6> QED BY <4>6, <6>1 DEF Listed
        <5> QED BY <5>1, <5>2
      <4>8. SUFFICES \A id \in Ids \ t.mixed : Listed(t.pending, db, tx', id)
        BY <3>5, <4>5
      <4>9. UNCHANGED <<lock, tx>> => tx' = seen
        BY <3>5 DEF View
      <4> HIDE DEF seen
      \* Rows that have been written are pending no more.
      <4>10. ASSUME NEW p \in Seq(Row), NEW d, Kept(d), NEW id, Listed(p, db, d, id)
             PROVE  Listed(<<>>, db, with_rows(d, p), id)
        <5>1. 1 \in Ids
          BY DEF Ids
        <5>2. NamesOf(with_rows(d, p), id) = NamesOf(d, id) \cup Brings(p, id)
          BY <4>10, <5>1, NamesAfter
        <5> QED BY <4>6, <4>10, <5>2 DEF Listed
      <4>11. CASE UNCHANGED <<lock, tx>> /\ t.pending = s.pending /\ t.mixed = s.mixed
        BY <4>7, <4>9, <4>11
      <4>12. CASE s.pending = <<>> /\ t.pending = <<>> /\ t.mixed = s.mixed /\ tx'.rows = seen.rows
        <5>1. \A id : NamesOf(tx', id) = NamesOf(seen, id)
          BY <4>12 DEF NamesOf, RowsOf
        <5> QED BY <4>7, <4>12, <5>1 DEF Listed
      <4>13. CASE t.pending = <<>> /\ t.mixed = s.mixed /\ tx' = with_rows(seen, s.pending)
        BY <4>6, <4>7, <4>10, <4>13
      <4>14. CASE s.got \in [id : Ids] /\ t.mixed = MixedBy(s) /\ Replacement(s, seen, tx', t.pending)
        <5> PICK k : k = s.got.id
          OBVIOUS
        <5> PICK l \in Listings :
               LET added == s.pending \o Added(k, ReadUpTo(l))
                   cleared == Cleared(seen, k)
               IN  \/ tx' = cleared /\ t.pending = added
                   \/ tx' = with_rows(cleared, added) /\ t.pending = <<>>
          BY <4>14 DEF Replacement
        <5> DEFINE added == s.pending \o Added(k, ReadUpTo(l))
                   cleared == Cleared(seen, k)
        <5>1. (tx' = cleared /\ t.pending = added) \/ (tx' = with_rows(cleared, added) /\ t.pending = <<>>)
          OBVIOUS
        <5>2. k \in Ids /\ <<>> \in Seq(Row)
          BY <4>14, EmptySeq
        <5>3. /\ added \in Seq(Row)
              /\ \A id \in Ids \ {k} : Brings(added, id) = Brings(s.pending, id)
              /\ Brings(s.pending, k) = {} => IsOneListing(Brings(added, k))
          BY <4>6, <5>2, BroughtTogether
        <5>4. /\ NamesOf(cleared, k) = {} /\ Kept(cleared)
              /\ \A id \in Ids \ {k} : NamesOf(cleared, id) = NamesOf(seen, id)
          BY <4>6, <5>2, NamesAfter
        <5> HIDE DEF added, cleared
        <5>5. \A id \in Ids \ t.mixed : (id # k => id \notin s.mixed) /\ (id = k => ~HasPending(s, k))
          BY <4>14 DEF MixedBy
        <5>6. ~HasPending(s, k) => Brings(s.pending, k) = {}
          BY DEF HasPending, Brings, Range
        <5>7. ASSUME NEW id \in Ids \ t.mixed PROVE Listed(added, db, cleared, id)
          <6>1. CASE id = k
            <7>1. NamesOf(cleared, k) = {} /\ IsOneListing(Brings(added, k))
              BY <5>3, <5>4, <5>5, <5>6, <6>1
            <7> QED BY <6>1, <7>1 DEF Listed
          <6>2. CASE id # k
            <7>1. Listed(s.pending, db, seen, id)
              BY <4>7, <5>5, <6>2
            <7>2. Brings(added, id) = Brings(s.pending, id) /\ NamesOf(cleared, id) = NamesOf(seen, id)
              BY <5>3, <5>4, <6>2
            <7> QED BY <7>1, <7>2 DEF Listed
          <6> QED BY <6>1, <6>2
        <5>8. \A id \in Ids \ t.mixed : Listed(<<>>, db, with_rows(cleared, added), id)
          BY <4>10, <5>3, <5>4, <5>7
        <5> QED BY <5>1, <5>7, <5>8
      <4>15. lock' # None
        BY <3>1
      <4> QED BY <4>5, <4>11, <4>12, <4>13, <4>14, <4>15 DEF ImportStep, seen
    <3> QED BY <3>4, <3>5
  <2> QED BY <2>1, <2>2 DEF Next
<1>3. TypeOK /\ StoreInv /\ ListingInv /\ [Next]_vars =>
      [\A c \in Clients, h \in DOMAIN db.hosts \cap DOMAIN db'.hosts :
          LET id == db.hosts[h].id
          IN  ListingChanges(c, id) /\ id \notin sess[c].mixed
              => IsOneListing(NamesOf(db', id))]_vars
  <2> SUFFICES ASSUME TypeOK, StoreInv, ListingInv, Next, NEW c \in Clients,
                      NEW h \in DOMAIN db.hosts \cap DOMAIN db'.hosts,
                      ListingChanges(c, db.hosts[h].id), db.hosts[h].id \notin sess[c].mixed
               PROVE  IsOneListing(NamesOf(db', db.hosts[h].id))
    BY DEF vars, ListingChanges, Ends
  <2> PICK id : id = db.hosts[h].id
    OBVIOUS
  <2>1. /\ Ends(c) /\ sess[c] # None /\ sess[c].cmd.kind \in ImportKinds
        /\ NamesOf(db', id) # NamesOf(db, id)
    BY DEF ListingChanges, Ends
  <2>2. id \in Ids /\ c # None /\ db' # db
    BY <2>1, SharedStoreAssumption DEF StoreInv, Kept, IsFile, IsTable, Host, NamesOf, RowsOf
  <2>3. commit(c) /\ lock = c /\ db' = tx
    <3>1. ~delete_user(c) /\ ~set_admin_or_active(c) /\ ~create_user(c) /\ ~delete_host(c)
      BY <2>1 DEF delete_user, set_admin_or_active, create_user, delete_host, At, UserKinds, Guarded,
         AddKinds, ImportKinds
    <3> QED BY <2>1, <2>2, <3>1, Endings
  <2> PICK s : s = sess[c]
    OBVIOUS
  <2>4. Listed(s.pending, db, tx, id)
    BY <2>1, <2>2, <2>3 DEF ListingInv
  <2>5. Brings(s.pending, id) = {}
    <3>1. Shape(s) /\ s.pc = "commit" /\ s.cmd.kind \in ImportKinds
      BY <2>1, <2>3 DEF StoreInv, commit
    <3>2. s.pending = <<>>
      BY <3>1 DEF Shape
    <3> QED BY <3>2 DEF Brings, Range
  <2>6. NamesOf(db', id) = NamesOf(tx, id)
    BY <2>3 DEF NamesOf, RowsOf
  <2> QED BY <2>1, <2>4, <2>5, <2>6 DEF Listed
<1> QED BY <1>1, <1>2, <1>3, StoreTyped, PendingNeedsLock, PTL DEF Spec, MixedOnlyByBreakOff
=============================================================================
