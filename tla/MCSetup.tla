------------------------------ MODULE MCSetup ------------------------------
(* Setup with the deployments that tell its rules apart. *)
EXTENDS Setup

host   == <<"srv", "protect">>
backup == <<"backup">>
data   == <<"data">>

mount(s, d) == [source |-> s, dest |-> d]

\* The clips and, in a directory below them, the database.
plain == [mounts |-> {mount(host, data)}, sqlite |-> <<"data", "db", "events">>, root |-> data]

\* The same paths, but the database's directory is a mount of its own.
nested == [plain EXCEPT !.mounts = @ \cup {mount(<<"srv", "protect", "new">>, <<"data", "db">>)}]

\* The database is kept where no clips are, and one camera's clips on another disk.
apart == [plain EXCEPT !.mounts = @ \cup {mount(<<"srv", "conf">>, <<"config">>),
                                          mount(<<"srv", "disk">>, <<"data", "front">>)},
                       !.sqlite = <<"config", "events">>]

\* The clips are elsewhere in the service's view, and the same on the host.
moved == [mounts |-> {mount(host, <<"footage">>)}, sqlite |-> <<"footage", "db", "events">>,
          root   |-> <<"footage">>]

Deployments == {plain, nested, apart, moved}
Places      == {host, <<"srv">>}
=============================================================================
