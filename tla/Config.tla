------------------------------- MODULE Config -------------------------------
(***************************************************************************)
(* The settings a command runs with: .eg/config.toml and the global         *)
(* config.toml as parsed, and the one result of merging every scope.        *)
(*                                                                          *)
(* A file is None (missing), Other (unreadable, not UTF-8 or not TOML) or a *)
(* record of its entries; an entry is None (absent), Other (a TOML value of *)
(* the wrong type) or its value.  A parse answers Err or the settings.      *)
(***************************************************************************)
EXTENDS Naturals, Sequences

CONSTANTS
  None, Other, Err,  \* no value, a value of the wrong type, an error
  KeyPaths           \* the key settings that look like paths

DeviceKey == "device"

\* Option::or
Or(a, b) == IF a # None THEN a ELSE b

StringIn(v) == IF v = Other THEN Err ELSE v

-----------------------------------------------------------------------------
NoIdentity == [name |-> None, email |-> None, color |-> None]

Strings(block) == [f \in DOMAIN block |-> StringIn(block[f])]
AnyErr(block) == \E f \in DOMAIN block : block[f] = Err

IdentityIn(v) ==
  IF v = None THEN NoIdentity
  ELSE IF v = Other \/ AnyErr(Strings(v)) THEN Err
  ELSE v

\* command_field: what [authz] or [session] names as its program and arguments.
CommandField(v) ==
  LET c == IF v \in {None, Other} THEN None ELSE v.command
  IN IF c = None THEN None
     ELSE IF c \in {Other, <<>>} \/ \E i \in DOMAIN c : c[i] = Other THEN Err
     ELSE c

RepoDefaults ==
  [authz |-> None, session |-> None, remote |-> None, peer |-> None, key |-> None,
   identity |-> NoIdentity]

\* Config::load and parse.
M_BadIsDefault(file) ==
  IF file \in {None, Other} \/ IdentityIn(file.identity) = Err THEN RepoDefaults
  ELSE [authz |-> CommandField(file.authz), session |-> CommandField(file.session),
        remote |-> file.remote, peer |-> file.peer, key |-> file.key,
        identity |-> IdentityIn(file.identity)]
ParseRepo(file) ==
  IF file = None THEN RepoDefaults
  ELSE IF file = Other \/ file.keysTable THEN Err
  ELSE LET c == [authz |-> CommandField(file.authz), session |-> CommandField(file.session),
                 remote |-> StringIn(file.remote), peer |-> StringIn(file.peer),
                 key |-> StringIn(file.key), identity |-> IdentityIn(file.identity)]
       IN IF AnyErr(c) \/ (c.remote # None /\ c.peer # None) THEN Err ELSE c

GlobalDefaults == [identity |-> NoIdentity, key |-> None, backend |-> "file", remotes |-> <<>>]

\* keys.backend: a [keys] that is no table, or lacks the entry, is the default.
Backend(keys) ==
  LET b == IF keys \in {None, Other} THEN None ELSE keys.backend
  IN CASE b = None -> "file" [] b \in {"file", "secret-service"} -> b [] OTHER -> Err

\* The [remote.<name>] blocks, by name.
RemotesIn(v) ==
  IF v = None THEN <<>>
  ELSE IF v = Other \/ \E r \in DOMAIN v : v[r] = Other \/ AnyErr(Strings(v[r])) THEN Err
  ELSE v

\* load_global and GlobalConfig::parse.
ParseGlobal(file) ==
  IF file = None THEN GlobalDefaults
  ELSE IF file = Other \/ file.hooks THEN Err
  ELSE LET c == [identity |-> IdentityIn(file.identity), key |-> StringIn(file.key),
                 backend |-> Backend(file.keys), remotes |-> RemotesIn(file.remotes)]
       IN IF AnyErr(c) THEN Err ELSE c

-----------------------------------------------------------------------------
\* u8::from_str_radix, of a channel's two characters: two hex digits, or one
\* behind a plus sign.
HexPairs == {"00", "0a", "0A", "ff", "FF"}
Signed == {"+f"}
Byte == [t \in HexPairs \cup Signed |->
           CASE t = "00" -> 0 [] t \in {"0a", "0A"} -> 10 [] t = "+f" -> 15 [] OTHER -> 255]

\* normalize_color: an optional '#', then three channels that are read so.
NormalizeColor(c) ==
  IF Len(c.channels) # 3 \/ \E i \in DOMAIN c.channels : c.channels[i] \notin DOMAIN Byte
    THEN Err
    ELSE [i \in 1..3 |-> Byte[c.channels[i]]]

\* first_valid: a malformed value, skipped with a warning, is as none.
Valid(c) == IF c = None \/ NormalizeColor(c) = Err THEN None ELSE NormalizeColor(c)
FirstValid(hi, mid, lo) == Or(Or(Valid(hi), Valid(mid)), Valid(lo))

\* IdentityConfig::layer, highest priority first.
Layer(hi, mid, lo) ==
  [name |-> Or(Or(hi.name, mid.name), lo.name),
   email |-> Or(Or(hi.email, mid.email), lo.email),
   color |-> FirstValid(hi.color, mid.color, lo.color)]

Selector(k) == IF k \in KeyPaths THEN [at |-> "path", name |-> k] ELSE [at |-> "keyring", name |-> k]
RepoFile == [at |-> "repo", name |-> None]

Select(k) == IF k = None THEN None ELSE Selector(k)

\* resolve: every scope of s merged, or an error.
M_KeyFileFirst(s, repo, global, remote) ==
  Or(Or(IF s.keyFile # None THEN RepoFile ELSE None, Select(Or(Or(s.cli, s.env), repo.key))),
     Or(Select(Or(remote.key, global.key)), Selector(DeviceKey)))
KeyOf(s, repo, global, remote) ==
  Or(Or(Select(Or(Or(s.cli, s.env), repo.key)), IF s.keyFile # None THEN RepoFile ELSE None),
     Or(Select(Or(remote.key, global.key)), Selector(DeviceKey)))

NoRemote == [peer |-> None, key |-> None, name |-> None, email |-> None, color |-> None]

\* env_key and xdg_dir: a blank variable counts as unset.
Variable(v) == IF v = "" THEN None ELSE v
ConfigDir(s) == IF Or(Variable(s.xdg), Variable(s.home)) = None THEN Err
                ELSE Or(Variable(s.xdg), Variable(s.home))

\* local_identity: an empty string keeps a field blank, an unset one is asked
\* of git (external).
Announced(set, git) == IF set = None THEN git ELSE Variable(set)
LocalIdentity(identity, git) ==
  [name |-> Announced(identity.name, git), email |-> Announced(identity.email, git),
   color |-> identity.color]

\* The scopes of s, parsed: the repo's, the machine's, and the remote the repo
\* is bound to.
Parsed(s) ==
  LET repo == ParseRepo(s.repo)
      global == IF ConfigDir(s) = Err THEN Err ELSE ParseGlobal(s.global)
      remote == IF Err \in {repo, global} THEN Err
                ELSE IF repo.remote = None THEN NoRemote
                ELSE IF repo.remote \in DOMAIN global.remotes THEN global.remotes[repo.remote]
                ELSE Err
  IN [repo |-> repo, global |-> global, remote |-> remote]

\* effective and resolve.
Resolve(s) ==
  LET p == Parsed(s)
      identity == Layer(p.repo.identity, p.remote, p.global.identity)
  IN IF p.remote = Err THEN Err
     ELSE [key |-> KeyOf([s EXCEPT !.env = Variable(@)], p.repo, p.global, p.remote),
           me |-> LocalIdentity(identity, s.git),
           authz |-> p.repo.authz, session |-> p.repo.session,
           backend |-> p.global.backend, dir |-> ConfigDir(s)]

-----------------------------------------------------------------------------
(* What the documentation promises of a merge, stated without following it. *)

\* v is the first setting of the sequence c that there is.
FirstSet(c, v) ==
  \E i \in DOMAIN c : c[i] = v /\ v # None /\ \A j \in 1..(i - 1) : c[j] = None

\* The key follows the command line, the environment, the repo's setting, its
\* key file, the remote's, the machine's and the device key; a name is the
\* nearest scope's, blank if that is blank, git's if no scope has one; the
\* colour is the nearest that is a hex string of six digits.  (Of the colour
\* nothing is said where a scope has one with a sign, which the code takes.)
HexColor(c) == Len(c.channels) = 3 /\ \A i \in DOMAIN c.channels : c.channels[i] \in HexPairs
HasSign(c) == \E i \in DOMAIN c.channels : c.channels[i] \in Signed
AsDocumented(s, e) ==
  LET p == Parsed(s)
      ids == <<p.repo.identity, p.remote, p.global.identity>>
      set(f) == {i \in 1..3 : ids[i][f] # None}
      colors == {i \in set("color") : HexColor(ids[i].color)}
      nearest(S, i) == i \in S /\ \A j \in S : i <= j
  IN /\ FirstSet(<<Select(s.cli), Select(Variable(s.env)), Select(p.repo.key),
                   IF s.keyFile = None THEN None ELSE RepoFile,
                   Select(p.remote.key), Select(p.global.key), Selector(DeviceKey)>>, e.key)
     /\ \A f \in {"name", "email"} :
          e.me[f] \in IF set(f) = {} THEN {s.git}
                      ELSE {Variable(ids[i][f]) : i \in {j \in 1..3 : nearest(set(f), j)}}
     /\ \/ \E i \in set("color") : HasSign(ids[i].color)
        \/ e.me.color \in IF colors = {} THEN {None}
                          ELSE {NormalizeColor(ids[i].color) : i \in {j \in 1..3 : nearest(colors, j)}}

\* Every entry of a file is of the type it should be; blocks are tables.
WellTyped(block) == \A f \in DOMAIN block : block[f] # Other
IdentityFine(v) == v = None \/ (v # Other /\ WellTyped(v))
HookFine(v) ==
  v = None \/ /\ v # Other
              /\ \/ v.command = None
                 \/ v.command \notin {Other, <<>>} /\ \A i \in DOMAIN v.command : v.command[i] # Other

RepoFine(f) ==
  f = None \/ /\ f # Other /\ ~f.keysTable
              /\ Other \notin {f.remote, f.peer, f.key} /\ None \in {f.remote, f.peer}
              /\ IdentityFine(f.identity)

KeysFine(v) == v = None \/ (v # Other /\ v.backend \in {None, "file", "secret-service"})

GlobalFine(f) ==
  f = None \/ /\ f # Other /\ ~f.hooks /\ f.key # Other /\ f.remotes # Other
              /\ IdentityFine(f.identity)
              /\ f.remotes # None => \A r \in DOMAIN f.remotes :
                                      f.remotes[r] # Other /\ WellTyped(f.remotes[r])
=============================================================================
