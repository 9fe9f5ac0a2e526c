--------------------------- MODULE MCSharedStore ---------------------------
(***************************************************************************)
(* Small instances of SharedStore: two sessions at a time, a fresh install *)
(* or two administrators and two hosts, one with a container.              *)
(***************************************************************************)
EXTENDS SharedStore, TLC

CONSTANTS ann, bob, nas, pi, web1, db1, cache, rack, room, x, y

Nothing == [n \in {} |-> None]

Fresh == [users |-> Nothing, hosts |-> Nothing, rows |-> Nothing]
Running ==
    [users |-> (ann :> [id |-> 1, admin |-> TRUE, active |-> TRUE]
                @@ bob :> [id |-> 2, admin |-> TRUE, active |-> TRUE]),
     hosts |-> (nas :> [id |-> 1, fields |-> NoFields]
                @@ pi :> [id |-> 2, fields |-> NoFields]),
     rows |-> (1 :> [host_id |-> 1, name |-> web1])]
MC_InitialFiles == {Fresh, Running}

Whole == <<web1, db1>>
Cut == <<cache, NotADict>>
Twice == <<web1, web1>>
MC_Listings == {Whole, Cut, Twice, <<>>}

Account(kind, on) == [kind |-> kind, via |-> "cli", on |-> on]
Setup(on) == [kind |-> "setup", via |-> "sync", on |-> on]
Field(via, kind, key, value) ==
    [kind |-> kind, via |-> via, on |-> nas, key |-> key, value |-> value]
Of(host, listing) == [host |-> host, listing |-> listing]
Upload(via, records) == [kind |-> "import_docker", via |-> via, records |-> records]
Collect(via, parts) == [kind |-> "collect", via |-> via, parts |-> parts]

MC_FactsRuns == {<<>>, <<nas, pi>>}
MC_DockerRuns ==
    {<<>>, <<Of(nas, Twice)>>, <<Of(nas, Cut), Of(pi, Whole)>>, <<Of(nas, Cut), Of(nas, Cut)>>}

MC_Commands == {
    Account("delete_user", bob), Account("demote", ann), Account("disable", bob),
    Account("promote", bob), Account("enable", bob), Account("users_add", ann),
    Setup(ann), Setup(bob),
    Field("sync", "set_custom_field", rack, x),
    Field("sync", "set_custom_field", room, y),
    Field("cli", "remove_custom_field", rack, x),
    [kind |-> "delete_host", via |-> "cli", on |-> nas],
    Upload("async", <<Of(nas, Cut), Of(nas, Whole)>>), Upload("cli", <<Of(nas, Cut)>>),
    Upload("async", <<Of(nas, Whole), Of(nas, Twice)>>),
    Collect("async", <<"facts", "docker", "other">>), Collect("cli", <<"facts">>),
    Collect("cli", <<"docker">>)}
=============================================================================
