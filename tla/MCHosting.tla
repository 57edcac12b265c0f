------------------------------ MODULE MCHosting ------------------------------
(* A small instance of Hosting for TLC. *)
EXTENDS HostingProperties

MCRaw == {"My_App", "my-app", "my-app-", "!"}
\* The second one stands for a name cut at 63 characters behind a hyphen.
MCNames == {<<"my-app">>, <<"my-app-">>}
MCSanitized == [r \in MCRaw |-> CASE r = "!" -> NoName
                                  [] r = "my-app-" -> <<"my-app-">>
                                  [] OTHER -> <<"my-app">>]
MCRouted == [n \in MCNames |-> <<"my-app">>]
MCFaults == [single |-> 1, multi |-> 3]
MCPayloads == {[min |-> 4, max |-> 0, target |-> 0], [min |-> 0, max |-> 9, target |-> 101]}

=============================================================================
