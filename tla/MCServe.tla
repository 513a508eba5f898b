------------------------------ MODULE MCServe -------------------------------
(***************************************************************************)
(* Small instances of Serve for TLC.                                        *)
(***************************************************************************)
EXTENDS Serve, TLC

CONSTANTS p1, e1, e2

Base == [cli |-> None, env |-> None, repo |-> None, global |-> None, keyFile |-> None,
         pathFile |-> None, named |-> None, xdg |-> None, home |-> "home", git |-> None]
Repo == [authz |-> None, session |-> None, remote |-> None, peer |-> None, key |-> None,
         keysTable |-> FALSE, identity |-> None]
Global == [hooks |-> FALSE, key |-> None, identity |-> None, keys |-> None, remotes |-> None]
Remote == [peer |-> None, key |-> None, name |-> None, email |-> None, color |-> None]

Paths == {"./k"}
Secrets == <<"s1", "s2">>

\* Every combination of the settings of the key.
KeyScopes ==
  {[Base EXCEPT !.cli = c, !.env = v, !.keyFile = f, !.pathFile = "path secret", !.named = n,
                !.repo = [Repo EXCEPT !.key = k, !.remote = r],
                !.global = [Global EXCEPT !.key = g,
                                          !.remotes = [x \in {"r"} |-> [Remote EXCEPT !.key = rk]]]] :
     c \in {None, "work"}, v \in {None, "", "./k"}, f \in {None, "repo secret"}, n \in {None, "named secret"},
     k \in {None, "work"}, r \in {None, "r", "unknown"}, g \in {None, "work", "device"}, rk \in {None, "./k"}}

Red == [hash |-> FALSE, channels |-> <<"FF", "00", "00">>]
Ink == [hash |-> TRUE, channels |-> <<"0a", "0A", "ff">>]
Short == [hash |-> TRUE, channels |-> <<"ff", "00">>]
Plus == [hash |-> TRUE, channels |-> <<"+f", "00", "ff">>]
NoHex == [hash |-> FALSE, channels |-> <<"00", "00", "zz">>]
Who(n, c) == [name |-> n, email |-> None, color |-> c]

\* Every layering of names and colours.
IdentityScopes ==
  {[Base EXCEPT !.repo = [Repo EXCEPT !.remote = "r", !.identity = Who(a, x)],
                !.global = [Global EXCEPT !.identity = Who(b, y),
                              !.remotes = [i \in {"r"} |-> [Remote EXCEPT !.name = c, !.color = z]]],
                !.git = g, !.keyFile = "repo secret"] :
     a \in {None, "", "al"}, b \in {None, "bo"}, c \in {None, "", "cy"},
     x \in {None, Red, Short, Plus}, y \in {None, Ink}, z \in {None, Ink, NoHex}, g \in {None, "git"}}

Runs(c) == [command |-> c]

\* Entries of the wrong shape, one file at a time.
BadScopes ==
  {[Base EXCEPT !.repo = f] : f \in {Other, [Repo EXCEPT !.keysTable = TRUE]}
     \cup {[Repo EXCEPT !.authz = h] : h \in {None, Other, Runs(None), Runs(Other), Runs(<<>>), Runs(<<"a", Other>>), Runs(<<"a">>)}}
     \cup {[Repo EXCEPT !.session = h] : h \in {Other, Runs(Other), Runs(<<>>), Runs(<<"b", "c">>)}}
     \cup {[Repo EXCEPT !.remote = r, !.peer = q] : r \in {Other, "r"}, q \in {None, Other, "id"}}
     \cup {[Repo EXCEPT !.key = Other], [Repo EXCEPT !.identity = Other],
           [Repo EXCEPT !.identity = Who(Other, None)], [Repo EXCEPT !.peer = "id"]}}
  \cup
  {[Base EXCEPT !.global = f] : f \in {Other, [Global EXCEPT !.hooks = TRUE], [Global EXCEPT !.key = Other]}
     \cup {[Global EXCEPT !.keys = k] : k \in {Other, [backend |-> None], [backend |-> Other],
                                             [backend |-> "file"], [backend |-> "secret-service"]}}
     \cup {[Global EXCEPT !.remotes = r] : r \in {Other, [i \in {"r"} |-> Other],
                                                [i \in {"r"} |-> [Remote EXCEPT !.name = Other]]}}}
  \cup {[Base EXCEPT !.home = h, !.xdg = x] : h \in {None, "", "home"}, x \in {None, "", "xdg"}}
  \cup {[Base EXCEPT !.keyFile = "short"], [Base EXCEPT !.cli = "./k"]}

ByFile == Base
ByCommand == [Base EXCEPT !.repo = [Repo EXCEPT !.authz = Runs(<<"a">>), !.session = Runs(<<"b">>)]]

Outcomes == {[spawned |-> FALSE, success |-> FALSE, first |-> {}]}
            \cup [spawned : {TRUE}, success : BOOLEAN, first : SUBSET {"pull", "push", "deny"}]

Add(w, a) == [kind |-> "add", who |-> w, access |-> a]
Remove(w, a) == [kind |-> "remove", who |-> w, access |-> a]

Nothing == [dirs |-> {"home"}, scopes |-> {ByFile}, trust |-> <<>>, outcomes |-> {}, ops |-> {},
            starts |-> 1, kills |-> 0, dials |-> 0, edits |-> 0, stores |-> 0]
\* Every setting there can be, by one process that starts.
Settings == [Nothing EXCEPT !.scopes = KeyScopes \cup IdentityScopes \cup BadScopes,
                            !.dirs = {"home", "xdg"}]
\* Two processes that need the device key, restarts, a torn document.
Restarts == [Nothing EXCEPT !.starts = 4, !.kills = 2, !.dials = 2, !.stores = 1,
                            !.trust = 1 :> Perms]
\* The trust file edited while peers connect.
Edited == [Nothing EXCEPT !.dials = 3, !.edits = 2, !.kills = 1,
                          !.trust = 1 :> Perms @@ 2 :> {"pull"},
                          !.ops = {Add(1, {}), Add(2, {"push"}), Remove(1, {}), Remove(1, {"push"}),
                                   Remove(2, {"pull"})}]
\* The same with a command as the gate.
Commanded == [Nothing EXCEPT !.scopes = {ByCommand}, !.dials = 2, !.outcomes = Outcomes]
AllPlans == [settings |-> Settings, restarts |-> Restarts, edited |-> Edited, commanded |-> Commanded]
OnlySettings == [settings |-> Settings]
=============================================================================
