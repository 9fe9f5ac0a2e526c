---------------------------- MODULE SharedStore ----------------------------
(***************************************************************************)
(* The sessions of several processes on one SQLite file, and the event     *)
(* loop some of them share.                                                *)
(*                                                                         *)
(* The command line runs one session to its end.  In the web process a     *)
(* route declared "def" runs in a worker thread and one declared           *)
(* "async def" (uploads, collect) runs on the event loop and blocks it,    *)
(* also while it waits for the database or for ansible.  Either way the    *)
(* session of a request is committed by a dependency that the event loop   *)
(* resumes after the handler has returned.                                 *)
(*                                                                         *)
(* A session reads outside any transaction until its first write; that     *)
(* write takes the file's write lock, waiting at most the driver's 30 s,   *)
(* and the lock is kept to the commit.  tx is the lock holder's view.      *)
(***************************************************************************)
EXTENDS Integers, FiniteSets, FiniteSetsExt, Sequences, Functions

CONSTANTS Clients, UserNames, HostNames, Keys, Values, Names,
          Commands,   \* what a client may start: [kind, via, on, ...]
          Listings,   \* what docker ps may list: sequences of names and NotADict
          NotADict,   \* an entry of a listing that is no JSON object
          FactsRuns,  \* what ansible may bring: the hosts it reached, by name
          DockerRuns, \* and their listings: sequences of [host, listing]
          InitialFiles,   \* committed states to begin with
          MaxId,      \* bound on the rowids of the files to begin with
          MaxStarts,  \* bound on the number of sessions
          None

Guarded == {"delete_user", "demote", "disable"}
UserKinds == Guarded \cup {"promote", "enable"}
AddKinds == {"setup", "users_add"}
FieldKinds == {"set_custom_field", "remove_custom_field"}
HostKinds == FieldKinds \cup {"delete_host"}
ImportKinds == {"import_docker", "collect"}
Parts == {"facts", "docker", "other"}

Ids == Nat \ {0}
User == [id : Ids, admin : BOOLEAN, active : BOOLEAN]
Host == [id : Ids, fields : [Keys -> Values \cup {None}]]
Row == [host_id : Ids, name : Names]

IsTable(t, keys, rows) == DOMAIN t \subseteq keys /\ t \in [DOMAIN t -> rows]
IsFile(d) ==
    /\ d = [users |-> d.users, hosts |-> d.hosts, rows |-> d.rows]
    /\ IsTable(d.users, UserNames, User)
    /\ IsTable(d.hosts, HostNames, Host)
    /\ IsTable(d.rows, Ids, Row)

\* Rowids are primary keys.
UniqueIds(t) == \A x, y \in DOMAIN t : t[x].id = t[y].id => x = y

\* A hostname, an fqdn and a name of the inventory stand for the host they find,
\* so that two records of one import may be of the same host.
Records == [host : HostNames, listing : Listings]

\* Statements of an import, or parts of a collection, that are still to do.
Statements ==
    [do : {"lookup"}, host : HostNames, listing : Listings]
    \cup [do : {"replace"}, listing : Listings]
    \cup [do : {"find", "save"}, host : HostNames] \cup [do : Parts \cup {"log"}]

\* got: a user, a host with its containers, or the rowid of a host.
\* mixed: the hosts whose containers were last deleted while rows of an earlier
\* record of theirs were pending.
Sought == [id : Ids, fields : [Keys -> Values \cup {None}], rows : SUBSET Ids]
Sessions ==
    [cmd : Commands, pc : {"read", "guard", "create", "write", "work", "commit"},
     got : {None} \cup User \cup Sought \cup [id : Ids],
     todo : Seq(Statements), pending : Seq(Row), dead : BOOLEAN,
     overtaken : BOOLEAN, mixed : SUBSET Ids]

IsCommand(cmd) ==
    /\ cmd.via \in {"cli", "sync", "async"}
    /\ cmd.kind \in UserKinds \cup AddKinds \cup HostKinds \cup ImportKinds
    /\ cmd.kind \in UserKinds \cup AddKinds => cmd.on \in UserNames
    /\ cmd.kind \in HostKinds => cmd.on \in HostNames
    /\ cmd.kind \in FieldKinds => cmd.key \in Keys /\ cmd.value \in Values
    /\ cmd.kind = "import_docker" => cmd.records \in Seq(Records)
    /\ cmd.kind = "collect" => cmd.parts \in Seq(Parts) /\ cmd.parts # <<>>

ASSUME SharedStoreAssumption ==
    /\ MaxId \in Nat /\ MaxStarts \in Nat
    /\ Listings \subseteq Seq(Names \cup {NotADict}) /\ NotADict \notin Names
    /\ FactsRuns \subseteq Seq(HostNames) /\ DockerRuns \subseteq Seq(Records)
    /\ None \notin Clients \cup Sessions \cup [id : Ids]
    /\ \A cmd \in Commands : IsCommand(cmd)
    /\ \A d \in InitialFiles :
          /\ IsFile(d) /\ UniqueIds(d.users) /\ UniqueIds(d.hosts)
          /\ \A u \in DOMAIN d.users : d.users[u].id =< MaxId
          /\ \A h \in DOMAIN d.hosts : d.hosts[h].id =< MaxId
          /\ \A i \in DOMAIN d.rows : i =< MaxId

VARIABLES
    db,      \* committed: users, hosts by name; containers by rowid
    lock,    \* the session that holds the write lock, or None
    tx,      \* the lock holder's view of the file, or None
    loop,    \* the async handler on the web process's event loop, or None
    sess,    \* client -> its session, or None
    starts   \* sessions begun so far

vars == <<db, lock, tx, loop, sess, starts>>

\* A fresh host has no custom fields.
NoFields == [k \in Keys |-> None]

\* mutant: the first rowid is 0
free_id_from_zero(used) == IF used = {} THEN 0 ELSE Max(used) + 1

FreeId(used) == IF used = {} THEN 1 ELSE Max(used) + 1
UserIds(d) == {d.users[u].id : u \in DOMAIN d.users}
HostIds(d) == {d.hosts[h].id : h \in DOMAIN d.hosts}
RowsOf(d, id) == {i \in DOMAIN d.rows : d.rows[i].host_id = id}
NamesOf(d, id) == {d.rows[i].name : i \in RowsOf(d, id)}

View(c) == IF lock = c THEN tx ELSE db
Free(c) == lock \in {None, c}
HasActiveAdmin(d) == \E u \in DOMAIN d.users : d.users[u].admin /\ d.users[u].active

------------------------------------------------------------------------------
(* Sessions: begin, go on, end.                                             *)

NewSession(cmd, todo) ==
    [cmd |-> cmd, pc |-> IF todo = <<>> THEN "read" ELSE "work", got |-> None,
     todo |-> todo, pending |-> <<>>, dead |-> FALSE,
     overtaken |-> FALSE, mixed |-> {}]

At(c, kinds, pc) == sess[c] # None /\ sess[c].cmd.kind \in kinds /\ sess[c].pc = pc
Doing(c, what) == At(c, ImportKinds, "work") /\ sess[c].todo[1].do = what

\* Whoever has read before this commit may now act on what it no longer says.
AfterCommit(c, new, S) ==
    [x \in Clients |->
        IF x # c /\ S[x] # None /\ new # db
        THEN [S[x] EXCEPT !.overtaken = TRUE] ELSE S[x]]

\* The handler of an async route that ends gives the event loop back.
LeaveLoop(c) == loop' = IF loop = c THEN None ELSE loop
LeaveLoopIfDone(c, s) == loop' = IF loop = c /\ s.pc = "commit" THEN None ELSE loop

\* mutant: the session is dropped without a rollback
end_without_rollback(c) ==
    /\ sess' = [sess EXCEPT ![c] = None]
    /\ LeaveLoop(c)
    /\ UNCHANGED <<db, lock, tx, starts>>

\* An exception, or a command with nothing to do: rollback and close.
end(c) ==
    /\ sess' = [sess EXCEPT ![c] = None]
    /\ LeaveLoop(c)
    /\ IF lock = c THEN lock' = None /\ tx' = None ELSE UNCHANGED <<lock, tx>>
    /\ UNCHANGED <<db, starts>>

\* session.commit() inside a service: flush, commit and end in one step.
flush_and_commit(c, new) ==
    /\ lock = None
    /\ db' = new
    /\ sess' = [AfterCommit(c, new, sess) EXCEPT ![c] = None]
    /\ LeaveLoop(c)
    /\ UNCHANGED <<lock, tx, starts>>

\* A flush, or an executed DELETE: the lock is taken and kept.
flush(c, new, s) ==
    /\ Free(c)
    /\ lock' = c /\ tx' = new
    /\ sess' = [sess EXCEPT ![c] = s]
    /\ LeaveLoopIfDone(c, s)
    /\ UNCHANGED <<db, starts>>

goes_on(c, s) ==
    /\ sess' = [sess EXCEPT ![c] = s]
    /\ LeaveLoopIfDone(c, s)
    /\ UNCHANGED <<db, lock, tx, starts>>

\* A first read: what has been committed so far is in it.
has_read(c, got, pc) ==
    goes_on(c, [sess[c] EXCEPT !.got = got, !.pc = pc, !.overtaken = FALSE])

Lookups(records) ==
    [i \in DOMAIN records |->
        [do |-> "lookup", host |-> records[i].host, listing |-> records[i].listing]]
Finds(names) == [i \in DOMAIN names |-> [do |-> "find", host |-> names[i]]]

\* What an operation still has to do: statements of an import, one record after
\* the other whatever becomes of each, or parts of a collection.
Todo(cmd) ==
    CASE cmd.kind = "import_docker" -> Lookups(cmd.records) \o <<[do |-> "log"]>>
      [] cmd.kind = "collect" -> [i \in DOMAIN cmd.parts |-> [do |-> cmd.parts[i]]]
      [] OTHER -> <<>>

\* The gate and the dispatch of a request run on the event loop.
begin(c, cmd) ==
    /\ sess[c] = None /\ starts < MaxStarts
    /\ cmd.via # "cli" => loop = None
    /\ loop' = IF cmd.via = "async" THEN c ELSE loop
    /\ sess' = [sess EXCEPT ![c] = NewSession(cmd, Todo(cmd))]
    /\ starts' = starts + 1
    /\ UNCHANGED <<db, lock, tx>>

\* get_session at the end of a request or a command.  In the web process the
\* event loop must be free to resume it.
commit(c) ==
    /\ sess[c] # None /\ sess[c].pc = "commit"
    /\ sess[c].cmd.via # "cli" => loop = None
    /\ LET new == View(c)
       IN  /\ db' = new
           /\ sess' = [AfterCommit(c, new, sess) EXCEPT ![c] = None]
    /\ IF lock = c THEN lock' = None /\ tx' = None ELSE UNCHANGED <<lock, tx>>
    /\ UNCHANGED <<loop, starts>>

------------------------------------------------------------------------------
(* Accounts: services/users.py from the command line, /setup from the web.  *)

get_user_by_username(c) ==
    /\ At(c, UserKinds, "read")
    /\ LET cmd == sess[c].cmd
       IN  \/ cmd.on \notin DOMAIN db.users /\ end(c)
           \/ /\ cmd.on \in DOMAIN db.users
              /\ has_read(c, db.users[cmd.on],
                          IF cmd.kind \in Guarded THEN "guard" ELSE "write")

\* mutant: the guard forgets to ask whether the other admin is active
other_admin_exists(user) ==
    \E u \in DOMAIN db.users : db.users[u].admin /\ db.users[u].id # user.id

other_active_admin_exists(user) ==
    \E u \in DOMAIN db.users :
        db.users[u].admin /\ db.users[u].active /\ db.users[u].id # user.id

refuses(user) == user.admin /\ user.active /\ ~other_active_admin_exists(user)

guard_last_admin(c) ==
    /\ At(c, Guarded, "guard")
    /\ \/ refuses(sess[c].got) /\ end(c)
       \/ ~refuses(sess[c].got) /\ goes_on(c, [sess[c] EXCEPT !.pc = "write"])

\* The row as the command leaves it.
Changed(kind, user) ==
    CASE kind = "promote" -> [user EXCEPT !.admin = TRUE]
      [] kind = "demote" -> [user EXCEPT !.admin = FALSE]
      [] kind = "enable" -> [user EXCEPT !.active = TRUE]
      [] kind = "disable" -> [user EXCEPT !.active = FALSE]

without_user(d, id) ==
    [d EXCEPT !.users = [u \in {v \in DOMAIN d.users : d.users[v].id # id} |-> d.users[u]]]
with_user_changed(d, id, kind) ==
    [d EXCEPT !.users = [u \in DOMAIN d.users |->
        IF d.users[u].id = id THEN Changed(kind, d.users[u]) ELSE d.users[u]]]

\* DELETE by primary key, whatever row has it by now.
delete_user(c) ==
    /\ At(c, {"delete_user"}, "write")
    /\ flush_and_commit(c, without_user(db, sess[c].got.id))

\* Only a changed attribute is written; an UPDATE of no row is an error.
set_admin_or_active(c) ==
    /\ At(c, UserKinds \ {"delete_user"}, "write")
    /\ LET user == sess[c].got
           kind == sess[c].cmd.kind
       IN  \/ Changed(kind, user) = user /\ end(c)
           \/ /\ Changed(kind, user) # user /\ user.id \notin UserIds(db)
              /\ lock = None /\ end(c)
           \/ /\ Changed(kind, user) # user /\ user.id \in UserIds(db)
              /\ flush_and_commit(c, with_user_changed(db, user.id, kind))

\* mutant: /setup stays open
setup_always(c) == At(c, {"setup"}, "read") /\ has_read(c, None, "create")

\* /setup answers 404 once there is an account.
setup_available(c) ==
    /\ At(c, {"setup"}, "read")
    /\ \/ DOMAIN db.users # {} /\ end(c)
       \/ DOMAIN db.users = {} /\ has_read(c, None, "create")

create_user_lookup(c) ==
    /\ \/ At(c, {"users_add"}, "read") \/ At(c, {"setup"}, "create")
    /\ \/ sess[c].cmd.on \in DOMAIN db.users /\ end(c)
       \/ /\ sess[c].cmd.on \notin DOMAIN db.users
          /\ goes_on(c, [sess[c] EXCEPT
                 !.pc = "write",
                 !.overtaken = IF sess[c].pc = "read" THEN FALSE ELSE @])

with_user(d, name, admin) ==
    LET row == [id |-> FreeId(UserIds(d)), admin |-> admin, active |-> TRUE]
    IN  [d EXCEPT !.users = [u \in DOMAIN d.users \cup {name} |->
            IF u = name THEN row ELSE d.users[u]]]

create_user(c) ==
    /\ At(c, AddKinds, "write")
    /\ LET cmd == sess[c].cmd
       IN  \/ cmd.on \in DOMAIN db.users /\ lock = None /\ end(c)
           \/ /\ cmd.on \notin DOMAIN db.users
              /\ flush_and_commit(c, with_user(db, cmd.on, cmd.kind = "setup"))

------------------------------------------------------------------------------
(* Hosts: services/hosts.py from the web and the command line.              *)

get_host(c) ==
    /\ At(c, HostKinds, "read")
    /\ LET on == sess[c].cmd.on
       IN  \/ on \notin DOMAIN db.hosts /\ end(c)
           \/ /\ on \in DOMAIN db.hosts
              /\ LET host == db.hosts[on]
                 IN  has_read(c, [id |-> host.id, fields |-> host.fields,
                                  rows |-> RowsOf(db, host.id)], "write")

with_fields(d, id, fields) ==
    [d EXCEPT !.hosts = [h \in DOMAIN d.hosts |->
        IF d.hosts[h].id = id THEN [d.hosts[h] EXCEPT !.fields = fields] ELSE d.hosts[h]]]

\* mutant: the dictionary is replaced by the one key
only_this_key(cmd, fields) ==
    [k \in Keys |-> IF k = cmd.key /\ cmd.kind = "set_custom_field" THEN cmd.value ELSE None]

\* The whole dictionary that was read is written back with one key changed.
edited(cmd, fields) ==
    [fields EXCEPT ![cmd.key] = IF cmd.kind = "set_custom_field" THEN cmd.value ELSE None]

write_field(c) ==
    /\ At(c, FieldKinds, "write")
    /\ LET got == sess[c].got
           fields == edited(sess[c].cmd, got.fields)
       IN  \/ fields = got.fields /\ goes_on(c, [sess[c] EXCEPT !.pc = "commit"])
           \/ /\ fields # got.fields /\ got.id \notin HostIds(db)
              /\ lock = None /\ end(c)
           \/ /\ fields # got.fields /\ got.id \in HostIds(db)
              /\ flush(c, with_fields(db, got.id, fields), [sess[c] EXCEPT !.pc = "commit"])

\* mutant: the old rows stay
keeps_rows(d, rows) == d

without_rows(d, rows) ==
    [d EXCEPT !.rows = [i \in DOMAIN d.rows \ rows |-> d.rows[i]]]
without_host(d, id) ==
    [d EXCEPT !.hosts = [h \in {x \in DOMAIN d.hosts : d.hosts[x].id # id} |-> d.hosts[h]]]

\* mutant: no cascade to the containers
delete_host_only(c) ==
    /\ At(c, {"delete_host"}, "write")
    /\ flush_and_commit(c, without_host(db, sess[c].got.id))

\* The cascade deletes, by primary key, the containers it loaded.
delete_host(c) ==
    /\ At(c, {"delete_host"}, "write")
    /\ flush_and_commit(c, without_host(without_rows(db, sess[c].got.rows), sess[c].got.id))

------------------------------------------------------------------------------
(* docker import and collection.                                            *)

skip(s) == [s EXCEPT !.todo = Tail(@)]
then_do(s, todo) == [s EXCEPT !.todo = todo \o Tail(@)]

\* import_containers, up to the lookup of the host.  The caller notes the
\* error of an unknown host, or of a session that is dead after a failed flush.
\* Nobody overtakes a session that holds the lock, but what has overtaken it
\* before stays in its transaction.
lookup(c) ==
    /\ Doing(c, "lookup")
    /\ LET s == sess[c]
           now == s.todo[1]
       IN  \/ /\ s.dead \/ now.host \notin DOMAIN View(c).hosts
              /\ goes_on(c, skip(s))
           \/ /\ ~s.dead /\ now.host \in DOMAIN View(c).hosts
              /\ goes_on(c, [then_do(s, <<[do |-> "replace", listing |-> now.listing]>>)
                                EXCEPT !.got = [id |-> View(c).hosts[now.host].id],
                                       !.overtaken = @ /\ lock = c])

BrokenAt(listing) == {i \in DOMAIN listing : listing[i] = NotADict}
\* The records before the one that raises.
ReadUpTo(listing) ==
    IF BrokenAt(listing) = {} THEN listing
    ELSE SubSeq(listing, 1, Min(BrokenAt(listing)) - 1)
Added(id, names) == [i \in DOMAIN names |-> [host_id |-> id, name |-> names[i]]]

with_rows(d, added) ==
    LET base == FreeId(DOMAIN d.rows) - 1
    IN  [d EXCEPT !.rows = [i \in DOMAIN d.rows \cup {base + n : n \in DOMAIN added} |->
            IF i \in DOMAIN d.rows THEN d.rows[i] ELSE added[i - base]]]

\* UNIQUE (host_id, name)
clash(d, added) ==
    \/ \E i, j \in DOMAIN added : i # j /\ added[i] = added[j]
    \/ \E i \in DOMAIN added, j \in DOMAIN d.rows : added[i] = d.rows[j]

\* A flush that fails rolls the whole transaction back and leaves the session
\* dead until it is closed.
fails(c) ==
    /\ Free(c)
    /\ lock' = None /\ tx' = None
    /\ sess' = [sess EXCEPT ![c] = [skip(sess[c]) EXCEPT !.dead = TRUE, !.pending = <<>>]]
    /\ UNCHANGED <<db, loop, starts>>

HasPending(s, id) == \E i \in DOMAIN s.pending : s.pending[i].host_id = id

\* import_containers, from the DELETE on.  A record that raises leaves the rows
\* before it pending in the session: the DELETE of the next record does not see
\* them, its flush writes them.
replace(c) ==
    /\ Doing(c, "replace")
    /\ LET id == sess[c].got.id
           listing == sess[c].todo[1].listing
           cleared == without_rows(View(c), RowsOf(View(c), id))
           added == sess[c].pending \o Added(id, ReadUpTo(listing))
           s == [skip(sess[c]) EXCEPT
                    !.mixed = IF HasPending(sess[c], id) THEN @ \cup {id} ELSE @ \ {id}]
       IN  \/ BrokenAt(listing) # {} /\ flush(c, cleared, [s EXCEPT !.pending = added])
           \/ /\ BrokenAt(listing) = {} /\ ~clash(cleared, added)
              /\ flush(c, with_rows(cleared, added), [s EXCEPT !.pending = <<>>])
           \/ BrokenAt(listing) = {} /\ clash(cleared, added) /\ fails(c)

with_host(d, name) ==
    LET row == [id |-> FreeId(HostIds(d)), fields |-> NoFields]
    IN  [d EXCEPT !.hosts = [h \in DOMAIN d.hosts \cup {name} |->
            IF h = name THEN row ELSE d.hosts[h]]]

\* import_host, up to the lookup by machine_id.
find_host(c) ==
    /\ Doing(c, "find")
    /\ LET s == sess[c]
           name == s.todo[1].host
           hosts == View(c).hosts
       IN  \/ s.dead /\ goes_on(c, skip(s))
           \/ /\ ~s.dead
              /\ goes_on(c, [then_do(s, <<[do |-> "save", host |-> name]>>) EXCEPT
                     !.got = IF name \in DOMAIN hosts THEN [id |-> hosts[name].id] ELSE None,
                     !.overtaken = @ /\ lock = c])

\* import_host, its flush: the row that was found is updated (last_seen at
\* least) by primary key, or a new one inserted; machine_id is UNIQUE.  No
\* containers are pending: the log of a docker run has flushed them.
save_host(c) ==
    /\ Doing(c, "save")
    /\ LET s == sess[c]
           name == s.todo[1].host
       IN  \/ s.got # None /\ s.got.id \in HostIds(View(c)) /\ flush(c, View(c), skip(s))
           \/ s.got # None /\ s.got.id \notin HostIds(View(c)) /\ fails(c)
           \/ /\ s.got = None /\ name \notin DOMAIN View(c).hosts
              /\ flush(c, with_host(View(c), name), skip(s))
           \/ s.got = None /\ name \in DOMAIN View(c).hosts /\ fails(c)

\* The end of every import: the log entry is flushed with what is pending.
\* After the last one the handler returns.
log(c) ==
    /\ Doing(c, "log")
    /\ LET s == sess[c]
           done == [skip(s) EXCEPT !.pending = <<>>,
                                   !.pc = IF Len(s.todo) = 1 THEN "commit" ELSE @]
       IN  \/ s.dead /\ end(c)
           \/ ~s.dead /\ Free(c) /\ clash(View(c), s.pending) /\ end(c)
           \/ ~s.dead /\ ~clash(View(c), s.pending)
              /\ flush(c, with_rows(View(c), s.pending), done)

\* What one ansible run may bring, a file for each host of the inventory.
Brought(kind) ==
    CASE kind = "facts" -> {Finds(names) : names \in FactsRuns}
      [] kind = "docker" -> {Lookups(records) : records \in DockerRuns}
      [] kind = "other" -> {<<>>}

\* One part of a collection: ansible runs for up to 300 s.
run_ansible(c) ==
    \E kind \in Parts :
        /\ Doing(c, kind)
        /\ \E brought \in Brought(kind) :
               goes_on(c, then_do(sess[c], brought \o <<[do |-> "log"]>>))

\* CollectError, ansible missing or timed out: the web page shows it and the
\* session commits what the parts before have written.
collect_error(c) ==
    /\ \E kind \in Parts : Doing(c, kind)
    /\ \/ sess[c].cmd.via = "cli" /\ end(c)
       \/ sess[c].cmd.via # "cli" /\ goes_on(c, [sess[c] EXCEPT !.pc = "commit", !.todo = <<>>])

------------------------------------------------------------------------------
(* Waiting for the lock, and losing patience after the driver's 30 s.       *)

writes_next(c) ==
    \/ At(c, UserKinds \cup HostKinds \cup AddKinds, "write")
    \/ \E what \in {"save", "replace", "log"} : Doing(c, what) /\ ~sess[c].dead

waits_for_lock(c) == lock \notin {None, c} /\ writes_next(c)

\* mutant: no timeout, the driver tries again for ever
tries_again(c) == waits_for_lock(c) /\ UNCHANGED vars

\* "database is locked": noted for a DELETE of an import, fatal to the session
\* in a flush, and the end of any other command.
give_up(c) ==
    /\ waits_for_lock(c)
    /\ \/ Doing(c, "replace") /\ goes_on(c, skip(sess[c]))
       \/ Doing(c, "save") /\ goes_on(c, [skip(sess[c]) EXCEPT !.dead = TRUE])
       \/ ~Doing(c, "replace") /\ ~Doing(c, "save") /\ end(c)

\* A command that is interrupted: the file rolls its transaction back.
interrupted(c) == sess[c] # None /\ sess[c].cmd.via = "cli" /\ end(c)

------------------------------------------------------------------------------
works(c) ==
    \/ get_user_by_username(c) \/ guard_last_admin(c)
    \/ delete_user(c) \/ set_admin_or_active(c)
    \/ setup_available(c) \/ create_user_lookup(c) \/ create_user(c)
    \/ get_host(c) \/ write_field(c) \/ delete_host(c)
    \/ lookup(c) \/ replace(c) \/ find_host(c) \/ save_host(c) \/ log(c)
    \/ run_ansible(c) \/ commit(c)

Init ==
    /\ db \in InitialFiles
    /\ lock = None /\ tx = None /\ loop = None
    /\ sess = [c \in Clients |-> None] /\ starts = 0

step(c) ==
    \/ \E cmd \in Commands : begin(c, cmd)
    \/ works(c) \/ collect_error(c) \/ give_up(c) \/ interrupted(c)

Next == \E c \in Clients : step(c)

\* A thread, a process and the event loop run what they can; ansible answers or
\* is killed after 300 s; the driver stops waiting for the lock after 30 s.
\* Nobody is obliged to begin anything, and no commit is obliged to come in time.
Fairness == \A c \in Clients : WF_vars(works(c) \/ collect_error(c) \/ give_up(c))

Spec == Init /\ [][Next]_vars /\ Fairness

------------------------------------------------------------------------------
(* Properties.                                                              *)

\* Every session, the lock and the event loop have the shape the code gives them.
TypeOK ==
    /\ IsFile(db) /\ UniqueIds(db.users) /\ UniqueIds(db.hosts)
    /\ lock \in Clients \cup {None} /\ loop \in Clients \cup {None}
    /\ IF lock = None THEN tx = None ELSE IsFile(tx)
    /\ sess \in [Clients -> Sessions \cup {None}]
    /\ starts \in Nat

\* The step in which c's session ends.
Ends(c) == sess[c] # None /\ sess'[c] = None

\* users.py, _guard_last_admin: to be left without an active admin takes more
\* than one command.  A commit takes the last one away only if another session
\* committed between this one's reads and its write.
AdminLostOnlyByRace ==
    [][\A c \in Clients :
          Ends(c) /\ HasActiveAdmin(db) /\ ~HasActiveAdmin(db') => sess[c].overtaken]_vars

\* routes/auth.py, _setup_available: /setup closes with the first account.  It
\* adds another one only if that account was committed after it had looked.
SetupOnlyOnFreshInstall ==
    [][\A c \in Clients :
          Ends(c) /\ sess[c].cmd.kind = "setup" /\ db' # db /\ DOMAIN db.users # {}
          => sess[c].overtaken]_vars

\* hosts.py, set_custom_field: a custom field of a host that stays changes only
\* by a command that names it, or by one that wrote back a dictionary it had
\* read before another commit.
FieldLostOnlyByRace ==
    [][\A c \in Clients, h \in DOMAIN db.hosts \cap DOMAIN db'.hosts, k \in Keys :
          /\ Ends(c) /\ db.hosts[h].id = db'.hosts[h].id
          /\ db.hosts[h].fields[k] # db'.hosts[h].fields[k]
          => \/ sess[c].overtaken
             \/ /\ sess[c].cmd.kind \in FieldKinds
                /\ sess[c].cmd.on = h /\ sess[c].cmd.key = k]_vars

Orphans(d) == {d.rows[i] : i \in {j \in DOMAIN d.rows : d.rows[j].host_id \notin HostIds(d)}}

\* docker_import.py, hosts.py: a container without a host appears only when the
\* host was deleted between an import's lookup and its DELETE, or containers
\* came between a deletion's read and its write.
OrphansOnlyByRace ==
    [][\A c \in Clients :
          Ends(c) /\ ~(Orphans(db') \subseteq Orphans(db)) => sess[c].overtaken]_vars

\* The session of c, an import, ends with other containers for this host.
ListingChanges(c, id) ==
    Ends(c) /\ sess[c].cmd.kind \in ImportKinds /\ NamesOf(db', id) # NamesOf(db, id)
IsOneListing(names) == \E l \in Listings : names = Range(ReadUpTo(l))

\* docker_import.py, collect.py: whatever fails on the way (a record, a flush,
\* the wait for the lock, ansible), an import that commits leaves a host with
\* the rows it had or with the records of one listing, all of them or those
\* before the one that raised: never none of a good one, and two mixed only when
\* two records of one import were of this host and the first one broke off.
MixedOnlyByBreakOff ==
    [][\A c \in Clients, h \in DOMAIN db.hosts \cap DOMAIN db'.hosts :
          LET id == db.hosts[h].id
          IN  ListingChanges(c, id) /\ id \notin sess[c].mixed
              => IsOneListing(NamesOf(db', id))]_vars

waits_for_loop(c) ==
    sess[c] # None /\ sess[c].pc = "commit" /\ sess[c].cmd.via # "cli" /\ loop # None

blocked(c) == waits_for_lock(c) \/ waits_for_loop(c)
Active == {c \in Clients : sess[c] # None}

\* collect.py, import_.py: sessions wait for each other in a circle only when a
\* handler on the event loop waits for the write lock of a session that waits
\* for the event loop to commit it.
OnlyTheLoopDeadlocks ==
    Active # {} /\ (\A c \in Active : blocked(c)) =>
        loop # None /\ lock # None /\ waits_for_lock(loop) /\ waits_for_loop(lock)

\* session.py: every session ends, whoever holds the lock or the event loop;
\* that circle, too, is broken.
SessionsEnd == \A c \in Clients : sess[c] # None ~> sess[c] = None
=============================================================================
