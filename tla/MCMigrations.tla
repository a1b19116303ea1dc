---------------------------- MODULE MCMigrations ----------------------------
(* Small instances of Migrations for TLC: scripts like those of the          *)
(* repository, each cut down to one statement of a kind.                    *)
EXTENDS Migrations, TLC

Add(o) == [does |-> "add", object |-> o]
Create(o) == [does |-> "create", object |-> o]
About(what) == [does |-> what, object |-> "row"]

MCObjects == {"runs", "into", "status", "index", "actions", "trigger", "message", "row"}
MCScripts ==
    <<[python |-> FALSE, statements |-> <<Create("runs")>>],                               \* 006
      [python |-> FALSE, statements |-> <<Add("into"), Add("status"), Create("index")>>],  \* 007
      [python |-> FALSE, statements |-> <<Create("actions")>>],                            \* 008
      [python |-> FALSE, statements |-> <<Create("trigger"), About("run"), About("hide"),
                                          About("audit")>>],                              \* 011
      [python |-> TRUE, statements |-> <<Create("message")>>]>>                            \* 014

=============================================================================
