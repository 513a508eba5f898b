------------------------------- MODULE Serve --------------------------------
(***************************************************************************)
(* A serving host and the files it lives by: its settings and its key, read *)
(* at start; the stored document; the gate that decides each connection,    *)
(* from the trust file or an authz command; the registry of sessions with   *)
(* the operator's revoke and the session hook; and the other eg processes   *)
(* of the machine that read and write the same files.                       *)
(*                                                                          *)
(* The documents themselves and what a session does are LiveSync's.         *)
(***************************************************************************)
EXTENDS Config, FiniteSets

CONSTANTS
  Server,     \* the process that serves
  Others,     \* other processes of the machine, which use its key
  Editors,    \* runs of eg trust, in the shell or in the repl
  MaxPeer,    \* peers are numbered in the order of their ids
  MaxConns,   \* connections that are dialled
  Fresh,      \* the secrets that are generated, in order
  Plans       \* the circumstances to consider, by name

Procs == {Server} \cup Others
Peers == 1..MaxPeer
Conns == 1..MaxConns
Perms == {"pull", "push"}

\* Circumstances: what a start may find as its scopes and config directories,
\* what the authz command may do, the trust file at first, the eg trust
\* commands given, and how often each thing happens.
Plan == [starts : Nat, kills : Nat, dials : 0 .. MaxConns, edits : Nat, stores : Nat]
Limits(p) == [f \in {"starts", "kills", "dials", "edits", "stores"} |-> p[f]]

\* The selectors and the colours that the settings of s come to.
Selectors(s) ==
  LET p == Parsed(s)
      keys == IF p.remote = Err THEN {} ELSE {p.repo.key, p.remote.key, p.global.key}
  IN {RepoFile} \cup {Selector(k) : k \in {s.cli, Variable(s.env), DeviceKey} \cup keys}
Colors(s) ==
  LET p == Parsed(s)
  IN IF p.remote = Err THEN {}
     ELSE {NormalizeColor(c) :
             c \in {p.repo.identity.color, p.remote.color, p.global.identity.color} \ {None}}

\* The contents .eg/trust may have, and the eg trust commands there are.
Files == UNION {[D -> SUBSET Perms] : D \in SUBSET Peers}
Ops == [kind : {"add", "remove"}, who : Peers, access : SUBSET Perms]

ASSUME PlansAssumption == \A p \in DOMAIN Plans : Limits(Plans[p]) \in Plan
ASSUME TrustAssumption ==
  /\ Other \notin Files
  /\ \A p \in DOMAIN Plans : Plans[p].trust \in Files \cup {Other} /\ Plans[p].ops \subseteq Ops
ASSUME PeersAssumption == {MaxPeer, MaxConns} \subseteq Nat
ASSUME ProcsAssumption == Server \notin Others
ASSUME ErrAssumption == Err \notin [1..3 -> 0..255]
ASSUME KeysAssumption == DeviceKey \notin KeyPaths /\ None # "short"
ASSUME LineageAssumption == None # Other /\ {None, Other} \cap Nat = {}
ASSUME DirsAssumption ==
  \A p \in DOMAIN Plans : \A s \in Plans[p].scopes : ConfigDir(s) \in Plans[p].dirs \cup {Err}
ASSUME ScopesAssumption ==
  \A p \in DOMAIN Plans : \A s \in Plans[p].scopes :
    /\ {"cli", "env", "keyFile"} \subseteq DOMAIN s
    /\ None \notin Selectors(s) /\ None \notin Colors(s)
ASSUME FreshAssumption ==
  /\ \A i, j \in DOMAIN Fresh : Fresh[i] = Fresh[j] => i = j
  /\ \A i \in DOMAIN Fresh : Fresh[i] \notin {None, Err, Other, "short"}

VARIABLES
  plan,      \* the circumstances of this behaviour
  phase,     \* phase[p]: how far process p has come
  scopes,    \* scopes[p]: what it found, until it has its key
  eff,       \* eff[p]: what it resolved that to
  secret,    \* secret[p]: the secret it holds
  keyring,   \* keyring[d]: the device key file of config dir d
  minted,    \* secrets generated so far
  docFile,   \* the lineage in .eg/doc: None, Other (torn) or a number
  doc,       \* the lineage of the document the server has in memory
  seeds,     \* documents seeded from the working tree so far
  shown,     \* lineages that peers have been served (history)
  trust,     \* .eg/trust: the rows in it, or Other when they do not parse
  editor,    \* editor[e]: how far an eg trust has come
  conn,      \* the connection the accept loop is busy with
  registry,  \* the sessions on record
  tasks,     \* the sessions whose task runs
  joined,    \* the connections that said hello to the session hook
  bye,       \* bye[c]: how often the hook was told that c is over
  credible,  \* contents of .eg/trust that are current or half written (history)
  removed,   \* peers whose grant was removed, by an edit that ran alone (history)
  out,       \* of those, the peers revoked since (history)
  starts, kills, dials, edits, stores

server == <<docFile, doc, seeds, shown>>
gate == <<conn, registry, tasks, joined, bye, dials>>
trusting == <<trust, editor, credible, removed, edits>>
keying == <<phase, scopes, eff, secret, keyring, minted>>
vars == <<plan, keying, server, trusting, gate, out, starts, kills, stores>>

-----------------------------------------------------------------------------
Down == "down"
NoConn == [who |-> 0, id |-> 0, stage |-> "none", perms |-> {}, bound |-> {}]
Idle == [stage |-> "idle", op |-> None, rows |-> <<>>]

Init ==
  /\ plan \in DOMAIN Plans
  /\ phase = [p \in Procs |-> Down]
  /\ scopes = [p \in Procs |-> None] /\ eff = [p \in Procs |-> None]
  /\ secret = [p \in Procs |-> None]
  /\ keyring = [d \in Plans[plan].dirs |-> None] /\ minted = 0
  /\ docFile = None /\ doc = None /\ seeds = 0 /\ shown = {}
  /\ trust = Plans[plan].trust /\ editor = [e \in Editors |-> Idle]
  /\ credible = {Plans[plan].trust} /\ removed = {} /\ out = {}
  /\ conn = NoConn /\ registry = {} /\ tasks = {} /\ joined = {}
  /\ bye = [c \in Conns |-> 0]
  /\ starts = 0 /\ kills = 0 /\ dials = 0 /\ edits = 0 /\ stores = 0

-----------------------------------------------------------------------------
(* Settings and keys: effective, of net and of keys. *)

Goes(p, to) == phase' = [phase EXCEPT ![p] = to]

Start(p, s) ==
  /\ phase[p] = Down
  /\ starts < Plans[plan].starts /\ starts' = starts + 1
  /\ Goes(p, "resolving")
  /\ scopes' = [scopes EXCEPT ![p] = s]
  /\ UNCHANGED <<plan, eff, secret, keyring, minted, server, trusting, gate, out, kills, stores>>

\* The command ends with an error.
Fails(p) ==
  /\ Goes(p, Down)
  /\ scopes' = [scopes EXCEPT ![p] = None]
  /\ eff' = [eff EXCEPT ![p] = None]
  /\ secret' = [secret EXCEPT ![p] = None]

ResolveScopes(p) ==
  /\ phase[p] = "resolving"
  /\ IF Resolve(scopes[p]) = Err
       THEN Fails(p)
       ELSE /\ Goes(p, "keying")
            /\ eff' = [eff EXCEPT ![p] = Resolve(scopes[p])]
            /\ UNCHANGED <<scopes, secret>>
  /\ UNCHANGED <<plan, keyring, minted, server, trusting, gate, out, starts, kills, stores>>

UsesDevice(p) == eff[p].key = Selector(DeviceKey)

\* The file a selector other than the device key's names, as it is read.
KeyText(p) ==
  CASE eff[p].key.at = "repo" -> scopes[p].keyFile
    [] eff[p].key.at = "path" -> scopes[p].pathFile
    [] OTHER -> IF eff[p].backend = "file" THEN scopes[p].named ELSE Err

\* parse_secret: 32 bytes, or an error.
Readable(text) == text \notin {None, Err, Other, "short"}

HasKey(p, k) ==
  /\ Goes(p, IF p = Server THEN "opening" ELSE "up")
  /\ secret' = [secret EXCEPT ![p] = k]
  /\ scopes' = [scopes EXCEPT ![p] = None]
  /\ UNCHANGED eff

ReadKey(p) ==
  /\ phase[p] = "keying"
  /\ LET text == IF UsesDevice(p) /\ eff[p].backend = "file" THEN keyring[eff[p].dir]
                 ELSE KeyText(p)
     IN \/ /\ Readable(text)
           /\ HasKey(p, text)
           /\ UNCHANGED minted
        \/ /\ ~Readable(text) /\ (text # None \/ ~UsesDevice(p))
           /\ Fails(p)
           /\ UNCHANGED minted
        \/ /\ text = None /\ UsesDevice(p)
           /\ minted < Len(Fresh) /\ minted' = minted + 1
           /\ Goes(p, "minting")
           /\ secret' = [secret EXCEPT ![p] = Fresh[minted']]
           /\ UNCHANGED <<scopes, eff>>
  /\ UNCHANGED <<plan, keyring, server, trusting, gate, out, starts, kills, stores>>

\* write_new_secret: create_new refuses a file another process has created.
M_MayCreate(d) == TRUE
MayCreate(d) == keyring[d] = None
CreateKey(p) ==
  /\ phase[p] = "minting"
  /\ IF MayCreate(eff[p].dir)
       THEN /\ Goes(p, "writing")
            /\ keyring' = [keyring EXCEPT ![eff[p].dir] = "short"]
            /\ UNCHANGED <<scopes, eff, secret>>
       ELSE Fails(p) /\ UNCHANGED keyring
  /\ UNCHANGED <<plan, minted, server, trusting, gate, out, starts, kills, stores>>

WriteKey(p) ==
  /\ phase[p] = "writing"
  /\ keyring' = [keyring EXCEPT ![eff[p].dir] = secret[p]]
  /\ HasKey(p, secret[p])
  /\ UNCHANGED <<plan, minted, server, trusting, gate, out, starts, kills, stores>>

-----------------------------------------------------------------------------
(* The stored document: open_or_seed, then store, before anybody is let in. *)

M_SeedAgain == docFile \in {None, Other}
NothingStored == docFile = None

\* read_doc: a document that does not load ends the command.
OpenDoc ==
  /\ phase[Server] = "opening"
  /\ \/ /\ NothingStored
        /\ seeds' = seeds + 1 /\ doc' = seeds'
        /\ Goes(Server, "storing")
        /\ docFile' = Other
        /\ UNCHANGED <<scopes, eff, secret>>
     \/ /\ docFile = Other /\ ~NothingStored
        /\ Fails(Server)
        /\ UNCHANGED <<seeds, doc, docFile>>
     \/ /\ docFile \in Nat
        /\ doc' = docFile
        /\ Goes(Server, "storing")
        /\ docFile' = Other
        /\ UNCHANGED <<scopes, eff, secret, seeds>>
  /\ UNCHANGED <<plan, keyring, minted, shown, trusting, gate, out, starts, kills, stores>>

\* write_private truncates the file and then writes it.
StoreAgain ==
  /\ phase[Server] = "up"
  /\ stores < Plans[plan].stores /\ stores' = stores + 1
  /\ Goes(Server, "storing")
  /\ docFile' = Other
  /\ UNCHANGED <<plan, scopes, eff, secret, keyring, minted, doc, seeds, shown, trusting, gate,
                 out, starts, kills>>

Stored ==
  /\ phase[Server] = "storing"
  /\ docFile' = doc
  /\ Goes(Server, "up")
  /\ UNCHANGED <<plan, scopes, eff, secret, keyring, minted, doc, seeds, shown, trusting, gate,
                 out, starts, kills, stores>>

\* A process dies; sessions die with the server and nothing says bye.
Ends(p) ==
  /\ Fails(p)
  /\ IF p = Server
       THEN /\ doc' = None
            /\ conn' = NoConn /\ registry' = {} /\ tasks' = {} /\ joined' = {}
            /\ bye' = [c \in Conns |-> 0]
       ELSE UNCHANGED <<doc, conn, registry, tasks, joined, bye>>
  /\ UNCHANGED <<plan, keyring, minted, docFile, seeds, shown, trusting, dials, out, starts, stores>>

Killed(p) ==
  /\ phase[p] # Down
  /\ kills < Plans[plan].kills /\ kills' = kills + 1
  /\ Ends(p)

-----------------------------------------------------------------------------
(* The gate. *)

Serving == phase[Server] = "up"
OneConn == UNCHANGED <<plan, keying, server, trusting, out, starts, kills, stores>>

\* A connection whose handshake is done reaches the accept loop.
Dialled(w) ==
  /\ Serving /\ conn = NoConn
  /\ dials < Plans[plan].dials /\ dials' = dials + 1
  /\ conn' = [who |-> w, id |-> dials', stage |-> "deciding", perms |-> {}, bound |-> {}]
  /\ UNCHANGED <<registry, tasks, joined, bye>>
  /\ OneConn

\* Trust::perms, of a file that parses.
Granted(w) == IF trust = Other \/ w \notin DOMAIN trust THEN {} ELSE trust[w]

\* What the gate says of w now: {} refuses.
Decided(perms, bound) ==
  /\ conn.stage = "deciding"
  /\ conn' = [conn EXCEPT !.stage = IF perms = {} THEN "refusing" ELSE "granted",
                          !.perms = perms, !.bound = bound]
  /\ UNCHANGED <<registry, tasks, joined, bye, dials>>
  /\ OneConn

TrustDecides ==
  /\ Serving
  /\ eff[Server].authz = None
  /\ Decided(Granted(conn.who),
             UNION {f[conn.who] : f \in {g \in credible : g # Other /\ conn.who \in DOMAIN g}})

\* parse_verdict: the words of the first line.
ParseVerdict(first) == first \cap Perms

\* CommandAuthorizer::authorize: the command may not start, fail, or answer.
CommandVerdict(o) == IF o.spawned /\ o.success THEN ParseVerdict(o.first) ELSE {}
CommandDecides(o) ==
  /\ Serving
  /\ eff[Server].authz # None
  /\ Decided(CommandVerdict(o), IF o.spawned /\ o.success THEN o.first ELSE {})

\* The refusal is sent, or does not get through in REFUSE_TIMEOUT.
Refused ==
  /\ Serving /\ conn.stage = "refusing"
  /\ conn' = NoConn
  /\ UNCHANGED <<registry, tasks, joined, bye, dials>>
  /\ OneConn

\* The dialer's stream arrives: the session is announced, spawned and registered.
Admitted ==
  /\ Serving /\ conn.stage = "granted"
  /\ conn' = NoConn
  /\ joined' = joined \cup {conn.id}
  /\ LET s == [id |-> conn.id, who |-> conn.who, perms |-> conn.perms]
     IN /\ tasks' = tasks \cup {s}
        /\ registry' = (registry \cap tasks) \cup {s}
  /\ shown' = shown \cup {doc}
  /\ UNCHANGED <<plan, keying, docFile, doc, seeds, trusting, bye, dials, out, starts, kills, stores>>

\* The dialer vanished: accept fails, and serve with it.
AcceptFails ==
  /\ Serving /\ conn.stage \in {"deciding", "granted"}
  /\ Ends(Server)
  /\ UNCHANGED kills

\* drive_live returns: the session's task says bye and is finished.
SessionEnds(s) ==
  /\ Serving
  /\ tasks' = tasks \ {s}
  /\ bye' = [bye EXCEPT ![s.id] = @ + 1]
  /\ UNCHANGED <<conn, registry, joined, dials>>
  /\ OneConn

-----------------------------------------------------------------------------
(* The operator, in the repl and in the shell. *)

ListSessions ==
  /\ Serving
  /\ registry' = registry \cap tasks
  /\ UNCHANGED <<conn, tasks, joined, bye, dials>>
  /\ OneConn

\* The sessions revoke aborts, saying bye in their place.
M_FinishedToo(w) == {s \in registry : s.who = w}
M_OneOf(w) ==
  {s \in registry \cap tasks : s.who = w /\ \A t \in registry : t.who = w => s.id <= t.id}
Revocable(w) == {s \in registry \cap tasks : s.who = w}

Revoke(w) ==
  /\ Serving
  /\ tasks' = tasks \ Revocable(w)
  /\ bye' = [c \in Conns |-> IF \E s \in Revocable(w) : s.id = c THEN bye[c] + 1 ELSE bye[c]]
  /\ registry' = {s \in registry : s.who # w}
  /\ out' = IF w \in removed /\ ~(conn.who = w /\ conn.stage = "granted")
              THEN out \cup {w} ELSE out
  /\ UNCHANGED <<plan, keying, server, trusting, conn, joined, dials, starts, kills, stores>>

\* perms_from: no access named is all of it.
PermsFrom(access) == IF access = {} THEN Perms ELSE access

With(rows, w, perms) == [x \in DOMAIN rows \cup {w} |-> IF x = w THEN perms ELSE rows[x]]
Without(rows, w) == [x \in DOMAIN rows \ {w} |-> rows[x]]

\* Trust::set, forget and drop_perms.
Changed(rows, op) ==
  IF op.kind = "add" THEN With(rows, op.who, PermsFrom(op.access))
  ELSE IF op.who \notin DOMAIN rows THEN rows
  ELSE IF op.access = {} \/ rows[op.who] \subseteq op.access THEN Without(rows, op.who)
  ELSE With(rows, op.who, rows[op.who] \ op.access)

Editing == UNCHANGED <<plan, keying, server, gate, starts, kills, stores>>

\* perform_action: load the file, change it in memory.
EditLoads(e, op) ==
  /\ editor[e] = Idle /\ trust # Other
  /\ edits < Plans[plan].edits /\ edits' = edits + 1
  /\ editor' = [editor EXCEPT ![e] = [stage |-> "loaded", op |-> op, rows |-> Changed(trust, op)]]
  /\ removed' = IF op.kind = "add" THEN removed \ {op.who} ELSE removed
  /\ out' = IF op.kind = "add" THEN out \ {op.who} ELSE out
  /\ UNCHANGED <<trust, credible>>
  /\ Editing

\* save, through write_private: truncate ...
EditTruncates(e) ==
  /\ editor[e].stage = "loaded"
  /\ editor' = [editor EXCEPT ![e].stage = "truncated"]
  /\ trust' = <<>>
  /\ credible' = credible \cup {editor[e].rows}
  /\ UNCHANGED <<removed, out, edits>>
  /\ Editing

\* ... and write.  Over a longer text another edit has written meanwhile, the
\* end of that text stays.
Overlaid(new, left) ==
  {new} \cup IF left = <<>> THEN {}
             ELSE {Other} \cup IF left = Other THEN {}
             ELSE {[x \in DOMAIN new \cup {y \in DOMAIN left : \A z \in DOMAIN new : y > z} |->
                     IF x \in DOMAIN new THEN new[x] ELSE left[x]]}

Alone(e) == trust = <<>> /\ \A d \in Editors \ {e} : editor[d] = Idle

EditWrites(e) ==
  /\ editor[e].stage = "truncated"
  /\ editor' = [editor EXCEPT ![e] = Idle]
  /\ trust' \in Overlaid(editor[e].rows, trust)
  /\ credible' = IF trust = <<>> /\ \A d \in Editors \ {e} : editor[d].stage # "truncated"
                   THEN {editor[e].rows} ELSE credible
  /\ removed' = IF Alone(e) THEN removed \cup ({editor[e].op.who} \ DOMAIN editor[e].rows) ELSE removed
  /\ UNCHANGED <<out, edits>>
  /\ Editing

\* eg trust is interrupted: what it wrote of the file is a beginning of its
\* text, a row of which may lack its later fields (they default to false).
M_DefaultTrue(rows, p) == rows[p] \cup {"push"}
LastRow(rows, p) == rows[p] \cap {"pull"}
Upto(rows, k) == [p \in {q \in DOMAIN rows : q <= k} |-> rows[p]]
Beginnings(rows) ==
  {Other} \cup {Upto(rows, k) : k \in 0 .. MaxPeer}
          \cup {[Upto(rows, k) EXCEPT ![k] = LastRow(rows, k)] : k \in DOMAIN rows}

EditDies(e) ==
  /\ editor[e] # Idle
  /\ kills < Plans[plan].kills /\ kills' = kills + 1
  /\ editor' = [editor EXCEPT ![e] = Idle]
  /\ IF editor[e].stage = "truncated" /\ trust = <<>>
       THEN trust' \in Beginnings(editor[e].rows)
       ELSE trust' \in {trust} \cup IF editor[e].stage = "truncated" THEN {Other} ELSE {}
  /\ UNCHANGED <<plan, keying, server, gate, credible, removed, out, edits, starts, stores>>

-----------------------------------------------------------------------------
Next ==
  \/ \E p \in Procs : \E s \in Plans[plan].scopes : Start(p, s)
  \/ \E p \in Procs : ResolveScopes(p) \/ ReadKey(p) \/ CreateKey(p) \/ WriteKey(p)
  \/ \E p \in Procs : Killed(p)
  \/ OpenDoc \/ StoreAgain \/ Stored
  \/ \E w \in Peers : Dialled(w)
  \/ TrustDecides
  \/ \E o \in Plans[plan].outcomes : CommandDecides(o)
  \/ Refused \/ Admitted \/ AcceptFails
  \/ \E s \in tasks : SessionEnds(s)
  \/ ListSessions
  \/ \E w \in Peers : Revoke(w)
  \/ \E e \in Editors : \E op \in Plans[plan].ops : EditLoads(e, op)
  \/ \E e \in Editors : EditTruncates(e) \/ EditWrites(e) \/ EditDies(e)

Spec == Init /\ [][Next]_vars

-----------------------------------------------------------------------------
Holding(p) == phase[p] \in {"opening", "storing", "up"}

\* The scopes merge as config.rs documents: see AsDocumented.
ResolvesAsDocumented ==
  \A p \in Procs : phase[p] = "keying" => AsDocumented(scopes[p], eff[p])

\* A malformed entry of a config file ends the command; it is never read as
\* absent.  (Of [authz], [session] and [keys] only if what stands there is a
\* table: see BlocksNeverDegrade.)
NeverFallsBack ==
  \A p \in Procs : phase[p] = "keying" =>
    LET f == scopes[p].repo
        g == scopes[p].global
    IN /\ RepoFine(f) /\ GlobalFine(g)
       /\ f = None \/ \A h \in {f.authz, f.session} : h = Other \/ HookFine(h)
       /\ g = None \/ g.keys = Other \/ KeysFine(g.keys)

\* The same of those blocks whatever stands there: "malformed input is an error,
\* never a fallback", as Config::load and GlobalConfig::parse say of themselves.
BlocksNeverDegrade ==
  \A p \in Procs : phase[p] = "keying" =>
    /\ scopes[p].repo # None => HookFine(scopes[p].repo.authz) /\ HookFine(scopes[p].repo.session)
    /\ scopes[p].global # None => KeysFine(scopes[p].global.keys)

\* A machine has one device identity: processes that run have a whole key, and
\* with the device key of a config directory they hold the same, the one that is
\* on disk, however their first starts interleave or are cut short.
OneIdentity ==
  \A p \in Procs : Holding(p) =>
    /\ secret[p] \notin {None, Err, Other, "short"}
    /\ UsesDevice(p) => secret[p] = keyring[eff[p].dir]

\* Peers are never served two unrelated documents from one repo: a torn
\* .eg/doc stops serve rather than have it seed a second history.
OneHistory == Cardinality(shown) <= 1

\* While serve runs, the session hook hears of each session's end once: when
\* the session ends by itself, or when revoke aborts it, never both.
HooksPaired == \A c \in joined : bye[c] = IF \E s \in tasks : s.id = c THEN 0 ELSE 1

\* Nobody is granted more than the policy says: than the trust file in force or
\* being written, whole, says of the peer, or than a successful authz command
\* answers, also when files are torn and commands die.
GrantsBounded == conn.perms \subseteq conn.bound

\* Removing a peer's grant and then revoking it is lasting: it has no session
\* until it is granted access again.  (Of a connection that already had its
\* verdict at the revoke nothing is said.)
RevokedStaysOut ==
  \A s \in tasks : eff[Server].authz = None => s.who \notin out
=============================================================================
