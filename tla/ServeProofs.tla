---------------------------- MODULE ServeProofs -----------------------------
(***************************************************************************)
(* Theorems about Serve, for any number of processes, peers, connections,   *)
(* edits and interruptions.                                                 *)
(***************************************************************************)
EXTENDS Serve, FiniteSetTheorems, TLAPS

\* f is a function on S, whatever its values.
On(f, S) == f = [x \in S |-> f[x]]

HasSettings(p) == phase[p] \in {"keying", "minting", "writing", "opening", "storing", "up"}

\* What the processes know: where each keeps its device key, and that it is
\* whole unless a process is in the middle of writing it.
Shapes ==
  /\ plan \in DOMAIN Plans
  /\ phase \in [Procs -> {Down, "resolving", "keying", "minting", "writing", "opening", "storing", "up"}]
  /\ On(scopes, Procs) /\ On(eff, Procs) /\ On(secret, Procs) /\ On(keyring, Plans[plan].dirs)
  /\ minted \in Nat

Settled ==
  \A p \in Procs :
    /\ phase[p] = "resolving" => scopes[p] \in Plans[plan].scopes
    /\ HasSettings(p) => eff[p].dir \in Plans[plan].dirs
    /\ phase[p] \in {"minting", "writing"} => Readable(secret[p])

\* A process that writes a device key is alone in that.
Writing ==
  \A p \in Procs : phase[p] = "writing" =>
    /\ keyring[eff[p].dir] = "short"
    /\ \A q \in Procs \ {p} : phase[q] = "writing" => eff[q].dir # eff[p].dir

Identified ==
  \A p \in Procs : Holding(p) =>
    Readable(secret[p]) /\ (UsesDevice(p) => secret[p] = keyring[eff[p].dir])

KeyInv == Shapes /\ Settled /\ Writing /\ Identified

-----------------------------------------------------------------------------
(* The device key. *)

\* Settings that merge are those of a config directory.
LEMMA ResolvedDir ==
  ASSUME NEW p \in DOMAIN Plans, NEW s \in Plans[p].scopes, Resolve(s) # Err
  PROVE  Resolve(s).dir \in Plans[p].dirs
<1>1. Parsed(s).remote # Err
  BY DEF Resolve
<1>2. ConfigDir(s) # Err
  BY <1>1 DEF Parsed
<1>3. Resolve(s).dir = ConfigDir(s)
  BY <1>1 DEF Resolve
<1> QED
  BY <1>2, <1>3, DirsAssumption

LEMMA KeyInit == Init => KeyInv
  BY DEF Init, KeyInv, Shapes, Settled, Writing, Identified, HasSettings, Holding, Down, On

LEMMA KeyStart ==
  ASSUME KeyInv, NEW p \in Procs, NEW s \in Plans[plan].scopes, Start(p, s)
  PROVE  KeyInv'
  BY DEF KeyInv, Shapes, Settled, Writing, Identified, HasSettings, Holding, Down, On, Start, Goes,
         UsesDevice, Readable

LEMMA KeyFails ==
  ASSUME KeyInv, NEW p \in Procs, Fails(p), UNCHANGED <<plan, keyring, minted>>
  PROVE  KeyInv'
  BY DEF KeyInv, Shapes, Settled, Writing, Identified, HasSettings, Holding, Down, On, Fails, Goes,
         UsesDevice, Readable

LEMMA KeyResolve ==
  ASSUME KeyInv, NEW p \in Procs, ResolveScopes(p)
  PROVE  KeyInv'
<1>1. CASE Resolve(scopes[p]) = Err
  BY <1>1, KeyFails DEF ResolveScopes
<1>2. CASE Resolve(scopes[p]) # Err
  <2>1. Resolve(scopes[p]).dir \in Plans[plan].dirs
    BY <1>2, ResolvedDir DEF ResolveScopes, KeyInv, Shapes, Settled
  <2>2. eff' = [eff EXCEPT ![p] = Resolve(scopes[p])] /\ Goes(p, "keying")
        /\ UNCHANGED <<plan, scopes, secret, keyring, minted>> /\ phase[p] = "resolving"
    BY <1>2 DEF ResolveScopes
  <2> QED
    BY <2>1, <2>2 DEF KeyInv, Shapes, Settled, Writing, Identified, HasSettings, Holding, Down, On,
                     Goes, UsesDevice, Readable
<1> QED
  BY <1>1, <1>2

\* The text a process with the device key as its own has read is its keyring's.
LEMMA DeviceText ==
  ASSUME NEW p \in Procs, UsesDevice(p), eff[p].backend # "file"
  PROVE  ~Readable(KeyText(p))
  BY KeysAssumption DEF UsesDevice, Selector, KeyText, Readable

LEMMA KeyRead ==
  ASSUME KeyInv, NEW p \in Procs, ReadKey(p)
  PROVE  KeyInv'
<1> DEFINE text == IF UsesDevice(p) /\ eff[p].backend = "file" THEN keyring[eff[p].dir]
                   ELSE KeyText(p)
<1>1. CASE Readable(text) /\ HasKey(p, text) /\ UNCHANGED minted
  <2>1. UsesDevice(p) => text = keyring[eff[p].dir]
    BY <1>1, DeviceText
  <2> HIDE DEF text
  <2>2. /\ phase[p] = "keying" /\ UNCHANGED <<plan, keyring, eff>> /\ minted' = minted
        /\ secret' = [secret EXCEPT ![p] = text] /\ scopes' = [scopes EXCEPT ![p] = None]
        /\ Goes(p, IF p = Server THEN "opening" ELSE "up")
    BY <1>1 DEF ReadKey, HasKey
  <2> QED
    BY <1>1, <2>1, <2>2 DEF KeyInv, Shapes, Settled, Writing, Identified, HasSettings, Holding, Down,
                           On, Goes, UsesDevice, Readable
<1>2. CASE Fails(p) /\ UNCHANGED minted
  BY <1>2, KeyFails DEF ReadKey
<1>3. CASE /\ minted < Len(Fresh) /\ minted' = minted + 1
           /\ Goes(p, "minting")
           /\ secret' = [secret EXCEPT ![p] = Fresh[minted']]
           /\ UNCHANGED <<scopes, eff>>
  <2>1. minted' \in DOMAIN Fresh
    BY <1>3 DEF KeyInv, Shapes
  <2>2. Readable(Fresh[minted'])
    BY <2>1, FreshAssumption DEF Readable
  <2> QED
    BY <1>3, <2>2 DEF ReadKey, KeyInv, Shapes, Settled, Writing, Identified, HasSettings, Holding,
                      Down, On, Goes, UsesDevice, Readable
<1> QED
  BY <1>1, <1>2, <1>3 DEF ReadKey

LEMMA KeyCreate ==
  ASSUME KeyInv, NEW p \in Procs, CreateKey(p)
  PROVE  KeyInv'
<1>1. CASE MayCreate(eff[p].dir)
  <2>1. /\ phase[p] = "minting" /\ keyring[eff[p].dir] = None
        /\ phase' = [phase EXCEPT ![p] = "writing"]
        /\ keyring' = [keyring EXCEPT ![eff[p].dir] = "short"]
        /\ UNCHANGED <<plan, scopes, eff, secret, minted>>
    BY <1>1 DEF CreateKey, MayCreate, Goes
  <2>2. Shapes' /\ Settled'
    BY <2>1 DEF KeyInv, Shapes, Settled, HasSettings, Down, On, Readable
  <2>3. eff[p].dir \in Plans[plan].dirs
    BY <2>1 DEF KeyInv, Settled, HasSettings
  <2>4. \A q \in Procs : phase[q] = "writing" => eff[q].dir # eff[p].dir
    BY <2>1, KeysAssumption DEF KeyInv, Writing
  <2>5. Writing'
    BY <2>1, <2>3, <2>4 DEF KeyInv, Shapes, Settled, HasSettings, Writing, On
  <2>6. ASSUME NEW q \in Procs, Holding(q)'
        PROVE  Readable(secret'[q]) /\ (UsesDevice(q)' => secret'[q] = keyring'[eff'[q].dir])
    <3>1. q # p /\ Holding(q)
      BY <2>1, <2>6 DEF KeyInv, Shapes, Holding
    <3>2. Readable(secret[q]) /\ eff[q].dir \in Plans[plan].dirs
      BY <3>1 DEF KeyInv, Identified, Settled, HasSettings, Holding
    <3>3. ASSUME UsesDevice(q)' PROVE secret'[q] = keyring'[eff'[q].dir]
      <4>1. secret[q] = keyring[eff[q].dir]
        BY <2>1, <3>1, <3>3 DEF KeyInv, Identified, UsesDevice
      <4>2. eff[q].dir # eff[p].dir
        BY <2>1, <3>2, <4>1 DEF Readable
      <4> QED
        BY <2>1, <3>2, <4>1, <4>2 DEF KeyInv, Shapes, On
    <3> QED
      BY <2>1, <3>2, <3>3
  <2> QED
    BY <2>2, <2>5, <2>6 DEF KeyInv, Identified, Readable
<1>2. CASE ~MayCreate(eff[p].dir)
  BY <1>2, KeyFails DEF CreateKey
<1> QED
  BY <1>1, <1>2

LEMMA KeyWrite ==
  ASSUME KeyInv, NEW p \in Procs, WriteKey(p)
  PROVE  KeyInv'
<1>1. /\ phase[p] = "writing"
      /\ phase' = [phase EXCEPT ![p] = IF p = Server THEN "opening" ELSE "up"]
      /\ keyring' = [keyring EXCEPT ![eff[p].dir] = secret[p]]
      /\ secret' = [secret EXCEPT ![p] = secret[p]] /\ scopes' = [scopes EXCEPT ![p] = None]
      /\ UNCHANGED <<plan, eff, minted>>
  BY DEF WriteKey, HasKey, Goes
<1>2. secret' = secret /\ Readable(secret[p])
  BY <1>1 DEF KeyInv, Shapes, Settled, On
<1>3. Shapes' /\ Settled'
  BY <1>1, <1>2 DEF KeyInv, Shapes, Settled, HasSettings, Down, On, Readable
<1>4. eff[p].dir \in Plans[plan].dirs
  BY <1>1 DEF KeyInv, Settled, HasSettings
<1>5. Writing'
  BY <1>1, <1>2, <1>4 DEF KeyInv, Shapes, Settled, HasSettings, Writing, On
<1>6. ASSUME NEW q \in Procs, Holding(q)'
      PROVE  Readable(secret'[q]) /\ (UsesDevice(q)' => secret'[q] = keyring'[eff'[q].dir])
  <2>1. CASE q = p
    BY <2>1, <1>1, <1>2, <1>4 DEF KeyInv, Shapes, On
  <2>2. CASE q # p
    <3>1. Holding(q)
      BY <1>1, <1>6, <2>2 DEF KeyInv, Shapes, Holding
    <3>2. Readable(secret[q]) /\ eff[q].dir \in Plans[plan].dirs
      BY <3>1 DEF KeyInv, Identified, Settled, HasSettings, Holding
    <3>3. ASSUME UsesDevice(q)' PROVE secret'[q] = keyring'[eff'[q].dir]
      <4>1. secret[q] = keyring[eff[q].dir]
        BY <1>1, <3>1, <3>3 DEF KeyInv, Identified, UsesDevice
      <4>2. eff[q].dir # eff[p].dir
        BY <1>1, <3>2, <4>1 DEF Readable, KeyInv, Writing
      <4> QED
        BY <1>1, <1>2, <3>2, <4>1, <4>2 DEF KeyInv, Shapes, On
    <3> QED
      BY <1>2, <3>2, <3>3
  <2> QED
    BY <2>1, <2>2
<1> QED
  BY <1>3, <1>5, <1>6 DEF KeyInv, Identified, Readable

\* The server goes on, holding its key.
LEMMA KeyGoesOn ==
  ASSUME KeyInv, Holding(Server), NEW to \in {"storing", "up"}, Goes(Server, to),
         UNCHANGED <<plan, scopes, eff, secret, keyring, minted>>
  PROVE  KeyInv'
  BY DEF KeyInv, Shapes, Settled, Writing, Identified, HasSettings, Holding, Down, On, Goes,
         UsesDevice, Readable, Procs

LEMMA KeySame ==
  ASSUME KeyInv, UNCHANGED <<plan, keying>>
  PROVE  KeyInv'
  BY DEF keying, KeyInv, Shapes, Settled, Writing, Identified, HasSettings, Holding, Down, On,
         UsesDevice, Readable

LEMMA KeyNext == KeyInv /\ [Next]_vars => KeyInv'
<1> SUFFICES ASSUME KeyInv, [Next]_vars PROVE KeyInv'
  OBVIOUS
<1> Server \in Procs
  BY DEF Procs
<1>1. ASSUME NEW p \in Procs, NEW s \in Plans[plan].scopes, Start(p, s) PROVE KeyInv'
  BY <1>1, KeyStart
<1>2. ASSUME NEW p \in Procs, ResolveScopes(p) \/ ReadKey(p) \/ CreateKey(p) \/ WriteKey(p)
      PROVE  KeyInv'
  BY <1>2, KeyResolve, KeyRead, KeyCreate, KeyWrite
<1>3. ASSUME NEW p \in Procs, Ends(p) PROVE KeyInv'
  BY <1>3, KeyFails DEF Ends
<1>4. CASE OpenDoc
  <2>1. CASE Fails(Server)
    BY <1>4, <2>1, KeyFails DEF OpenDoc
  <2>2. CASE Goes(Server, "storing") /\ UNCHANGED <<scopes, eff, secret>>
    BY <1>4, <2>2, KeyGoesOn DEF OpenDoc, Holding
  <2> QED
    BY <1>4, <2>1, <2>2 DEF OpenDoc
<1>5. CASE StoreAgain \/ Stored
  BY <1>5, KeyGoesOn DEF StoreAgain, Stored, Holding
<1>6. ASSUME UNCHANGED <<plan, keying>> PROVE KeyInv'
  BY <1>6, KeySame
<1>7. CASE UNCHANGED vars
  BY <1>7, <1>6 DEF vars
<1>8. ASSUME NEW w \in Peers, Dialled(w) \/ Revoke(w) PROVE KeyInv'
  BY <1>8, <1>6 DEF Dialled, Revoke, OneConn
<1>9. CASE TrustDecides \/ Refused \/ Admitted \/ ListSessions
  BY <1>9, <1>6 DEF TrustDecides, Decided, Refused, Admitted, ListSessions, OneConn
<1>10. ASSUME NEW o, CommandDecides(o) PROVE KeyInv'
  BY <1>10, <1>6 DEF CommandDecides, Decided, OneConn
<1>11. ASSUME NEW s \in tasks, SessionEnds(s) PROVE KeyInv'
  BY <1>11, <1>6 DEF SessionEnds, OneConn
<1>12. ASSUME NEW e \in Editors, NEW op, EditLoads(e, op) PROVE KeyInv'
  BY <1>12, <1>6 DEF EditLoads, Editing
<1>13. ASSUME NEW e \in Editors, EditTruncates(e) \/ EditWrites(e) \/ EditDies(e) PROVE KeyInv'
  BY <1>13, <1>6 DEF EditTruncates, EditWrites, EditDies, Editing
<1> QED
  BY <1>1, <1>2, <1>3, <1>4, <1>5, <1>7, <1>8, <1>9, <1>10, <1>11, <1>12, <1>13
     DEF Next, Killed, AcceptFails

\* However first starts interleave or are cut short, the processes of a machine
\* that run with its device key hold the secret that is on disk
\* (write_new_secret creates, never overwrites).
THEOREM IdentityIsOne == Spec => []OneIdentity
<1>1. KeyInv => OneIdentity
  BY DEF KeyInv, Identified, OneIdentity, Readable
<1> QED
  BY <1>1, KeyInit, KeyNext, PTL DEF Spec

-----------------------------------------------------------------------------
(* Sessions and the session hook. *)

\* The connection in the accept loop is a new one.
Accepting ==
  /\ conn = [who |-> conn.who, id |-> conn.id, stage |-> conn.stage,
              perms |-> conn.perms, bound |-> conn.bound]
  /\ dials \in 0 .. MaxConns
  /\ conn # NoConn => conn.id \in 1 .. dials /\ conn.id \notin joined

\* A session that runs is on record, under an id of its own.
Recorded ==
  /\ tasks \subseteq registry /\ joined \subseteq 1 .. dials
  /\ \A s \in tasks : s.id \in joined
  /\ \A s, t \in tasks : s.id = t.id => s = t

\* Nobody has said bye of a connection that never said hello.
NotYet == bye \in [Conns -> Nat] /\ \A c \in Conns \ joined : bye[c] = 0

HookInv == Accepting /\ Recorded /\ NotYet /\ HooksPaired

LEMMA HookInit == Init => HookInv
  BY PeersAssumption DEF Init, HookInv, Accepting, Recorded, NotYet, HooksPaired, NoConn

LEMMA HookSame ==
  ASSUME HookInv, UNCHANGED gate
  PROVE  HookInv'
  BY DEF gate, HookInv, Accepting, Recorded, NotYet, HooksPaired

\* The end of serve is the end of its sessions.
LEMMA HookEnds ==
  ASSUME HookInv, NEW p \in Procs, Ends(p)
  PROVE  HookInv'
<1>1. CASE p = Server
  BY <1>1 DEF Ends, HookInv, Accepting, Recorded, NotYet, HooksPaired, NoConn
<1>2. CASE p # Server
  BY <1>2, HookSame DEF Ends, gate
<1> QED
  BY <1>1, <1>2

LEMMA HookDialled ==
  ASSUME HookInv, plan \in DOMAIN Plans, NEW w \in Peers, Dialled(w)
  PROVE  HookInv'
<1> Limits(Plans[plan]) \in Plan
  BY PlansAssumption
<1> Limits(Plans[plan]).dials = Plans[plan].dials
  BY DEF Limits
<1> Plans[plan].dials \in 0 .. MaxConns
  BY DEF Plan
<1>1. dials' \in 1 .. MaxConns /\ dials' = dials + 1
  BY PeersAssumption DEF Dialled, HookInv, Accepting
<1>2. UNCHANGED <<registry, tasks, joined, bye>>
  BY DEF Dialled
<1>3. Accepting'
  BY <1>1, <1>2 DEF Dialled, HookInv, Accepting, Recorded
<1> QED
  BY <1>1, <1>2, <1>3 DEF HookInv, Accepting, Recorded, NotYet, HooksPaired

LEMMA HookDecided ==
  ASSUME HookInv, NEW perms, NEW bound, Decided(perms, bound)
  PROVE  HookInv'
<1>1. conn.stage = "deciding" /\ conn # NoConn /\ conn'.id = conn.id
      /\ UNCHANGED <<registry, tasks, joined, bye, dials>>
  BY DEF Decided, HookInv, Accepting, NoConn
<1>2. Accepting'
  BY <1>1 DEF Decided, HookInv, Accepting
<1> QED
  BY <1>1, <1>2 DEF HookInv, Recorded, NotYet, HooksPaired

LEMMA HookRefused ==
  ASSUME HookInv, Refused
  PROVE  HookInv'
  BY DEF Refused, HookInv, Accepting, Recorded, NotYet, HooksPaired, NoConn

LEMMA HookAdmitted ==
  ASSUME HookInv, Admitted
  PROVE  HookInv'
<1> DEFINE s == [id |-> conn.id, who |-> conn.who, perms |-> conn.perms]
<1>1. conn.id \in 1 .. dials /\ conn.id \notin joined
  BY DEF Admitted, HookInv, Accepting, NoConn
<1>2. /\ conn' = NoConn /\ joined' = joined \cup {conn.id} /\ tasks' = tasks \cup {s}
      /\ registry' = (registry \cap tasks) \cup {s} /\ UNCHANGED <<bye, dials>> /\ s.id = conn.id
  BY DEF Admitted
<1> HIDE DEF s
<1>3. Accepting'
  BY <1>2 DEF HookInv, Accepting, NoConn
<1>4. Recorded'
  BY <1>1, <1>2 DEF HookInv, Recorded
<1>5. conn.id \in Conns
  BY <1>1, PeersAssumption DEF HookInv, Accepting, Conns
<1>6. NotYet' /\ HooksPaired'
  BY <1>1, <1>2, <1>5 DEF HookInv, NotYet, HooksPaired, Recorded
<1> QED
  BY <1>3, <1>4, <1>6 DEF HookInv

LEMMA HookEnded ==
  ASSUME HookInv, NEW s \in tasks, SessionEnds(s)
  PROVE  HookInv'
<1>1. /\ tasks' = tasks \ {s} /\ bye' = [bye EXCEPT ![s.id] = @ + 1]
      /\ UNCHANGED <<conn, registry, joined, dials>>
  BY DEF SessionEnds
<1>2. s.id \in joined /\ s.id \in Conns
  BY PeersAssumption DEF HookInv, Recorded, Accepting, Conns
<1>3. Accepting' /\ Recorded'
  BY <1>1 DEF HookInv, Accepting, Recorded
<1>4. NotYet'
  BY <1>1, <1>2 DEF HookInv, NotYet
<1>5. ASSUME NEW c \in joined PROVE bye'[c] = IF \E t \in tasks' : t.id = c THEN 0 ELSE 1
  <2>1. c \in Conns
    BY PeersAssumption DEF HookInv, Recorded, Accepting, Conns
  <2>2. CASE c = s.id
    <3>1. bye[c] = 0
      BY <2>2 DEF HookInv, HooksPaired
    <3>2. ~ \E t \in tasks' : t.id = c
      BY <1>1, <2>2 DEF HookInv, Recorded
    <3> QED
      BY <1>1, <2>1, <2>2, <3>1, <3>2 DEF HookInv, NotYet
  <2>3. CASE c # s.id
    BY <1>1, <1>2, <2>1, <2>3 DEF HookInv, NotYet, HooksPaired
  <2> QED
    BY <2>2, <2>3
<1> QED
  BY <1>1, <1>3, <1>4, <1>5 DEF HookInv, HooksPaired

LEMMA HookListed ==
  ASSUME HookInv, ListSessions
  PROVE  HookInv'
  BY DEF ListSessions, HookInv, Accepting, Recorded, NotYet, HooksPaired

LEMMA HookRevoke ==
  ASSUME HookInv, NEW w \in Peers, Revoke(w)
  PROVE  HookInv'
<1>1. /\ tasks' = tasks \ Revocable(w)
      /\ bye' = [c \in Conns |-> IF \E s \in Revocable(w) : s.id = c THEN bye[c] + 1 ELSE bye[c]]
      /\ registry' = {s \in registry : s.who # w}
      /\ UNCHANGED <<conn, joined, dials>>
  BY DEF Revoke
<1>2. Revocable(w) = {s \in tasks : s.who = w}
  BY DEF Revocable, HookInv, Recorded
<1>3. Accepting' /\ Recorded'
  BY <1>1, <1>2 DEF HookInv, Accepting, Recorded
<1>4. NotYet'
  BY <1>1, <1>2 DEF HookInv, NotYet, Recorded
<1>5. ASSUME NEW c \in joined PROVE bye'[c] = IF \E t \in tasks' : t.id = c THEN 0 ELSE 1
  <2>1. c \in Conns
    BY PeersAssumption DEF HookInv, Recorded, Accepting, Conns
  <2>2. CASE \E s \in Revocable(w) : s.id = c
    BY <1>1, <1>2, <2>1, <2>2 DEF HookInv, NotYet, HooksPaired, Recorded
  <2>3. CASE ~ \E s \in Revocable(w) : s.id = c
    BY <1>1, <1>2, <2>1, <2>3 DEF HookInv, NotYet, HooksPaired, Recorded
  <2> QED
    BY <2>2, <2>3
<1> QED
  BY <1>1, <1>3, <1>4, <1>5 DEF HookInv, HooksPaired

LEMMA HookNext == KeyInv /\ HookInv /\ [Next]_vars => HookInv'
<1> SUFFICES ASSUME KeyInv, HookInv, [Next]_vars PROVE HookInv'
  OBVIOUS
<1> plan \in DOMAIN Plans /\ Server \in Procs
  BY DEF KeyInv, Shapes, Procs
<1>1. ASSUME NEW p \in Procs, Ends(p) PROVE HookInv'
  BY <1>1, HookEnds
<1>2. ASSUME NEW w \in Peers, Dialled(w) \/ Revoke(w) PROVE HookInv'
  BY <1>2, HookDialled, HookRevoke
<1>3. CASE TrustDecides
  BY <1>3, HookDecided DEF TrustDecides
<1>4. ASSUME NEW o, CommandDecides(o) PROVE HookInv'
  BY <1>4, HookDecided DEF CommandDecides
<1>5. CASE Refused \/ Admitted \/ ListSessions
  BY <1>5, HookRefused, HookAdmitted, HookListed
<1>6. ASSUME NEW s \in tasks, SessionEnds(s) PROVE HookInv'
  BY <1>6, HookEnded
<1>7. ASSUME NEW p \in Procs, NEW s, Start(p, s) PROVE HookInv'
  BY <1>7, HookSame DEF Start
<1>8. ASSUME NEW p \in Procs, ResolveScopes(p) \/ ReadKey(p) \/ CreateKey(p) \/ WriteKey(p)
      PROVE  HookInv'
  BY <1>8, HookSame DEF ResolveScopes, ReadKey, CreateKey, WriteKey
<1>9. CASE OpenDoc \/ StoreAgain \/ Stored \/ UNCHANGED vars
  BY <1>9, HookSame DEF OpenDoc, StoreAgain, Stored, vars
<1>10. ASSUME NEW e \in Editors, NEW op, EditLoads(e, op) PROVE HookInv'
  BY <1>10, HookSame DEF EditLoads, Editing
<1>11. ASSUME NEW e \in Editors, EditTruncates(e) \/ EditWrites(e) \/ EditDies(e) PROVE HookInv'
  BY <1>11, HookSame DEF EditTruncates, EditWrites, EditDies, Editing
<1> QED
  BY <1>1, <1>2, <1>3, <1>4, <1>5, <1>6, <1>7, <1>8, <1>9, <1>10, <1>11 DEF Next, Killed, AcceptFails

\* While serve runs, the session hook hears one bye for each session that is
\* over, whether the session ended by itself or was revoked, and none before.
THEOREM HooksArePaired == Spec => []HooksPaired
<1>1. HookInv => HooksPaired
  BY DEF HookInv
<1> QED
  BY <1>1, KeyInit, KeyNext, HookInit, HookNext, PTL DEF Spec

-----------------------------------------------------------------------------
(* The trust file. *)

\* What the contents on record as in force or being written grant to w.
Bound(w) == UNION {f[w] : f \in {g \in credible : g # Other /\ w \in DOMAIN g}}

Within(f) == f # Other => \A w \in DOMAIN f : f[w] \subseteq Bound(w)

Edited ==
  /\ On(editor, Editors)
  /\ \A e \in Editors :
       /\ editor[e] = [stage |-> editor[e].stage, op |-> editor[e].op, rows |-> editor[e].rows]
       /\ editor[e].rows \in Files
       /\ editor[e].stage = "truncated" => editor[e].rows \in credible

\* The file, torn and overlaid as it may be, grants nothing that no file in
\* force or being written does.
FileInv == trust \in Files \cup {Other} /\ Edited /\ Within(trust)

LEMMA EmptyFile == <<>> \in Files /\ DOMAIN <<>> = {} /\ <<>> # Other
<1>1. <<>> \in [{} -> SUBSET Perms] /\ DOMAIN <<>> = {}
  OBVIOUS
<1> QED
  BY <1>1, TrustAssumption DEF Files

LEMMA FileDomain ==
  ASSUME NEW f \in Files
  PROVE  DOMAIN f \subseteq Peers /\ f \in [DOMAIN f -> SUBSET Perms] /\ f # Other
  BY TrustAssumption DEF Files

LEMMA IsFile ==
  ASSUME NEW D \in SUBSET Peers, NEW f \in [D -> SUBSET Perms]
  PROVE  f \in Files
  BY DEF Files

LEMMA ChangedFile ==
  ASSUME NEW f \in Files, NEW op \in Ops
  PROVE  Changed(f, op) \in Files
<1>0. DOMAIN f \subseteq Peers /\ f \in [DOMAIN f -> SUBSET Perms] /\ op.who \in Peers /\ op.access \subseteq Perms
  BY FileDomain DEF Ops
<1>1. ASSUME NEW P \in SUBSET Perms PROVE With(f, op.who, P) \in Files
  <2> DEFINE D == DOMAIN f \cup {op.who}
  <2>1. D \in SUBSET Peers /\ With(f, op.who, P) \in [D -> SUBSET Perms]
    BY <1>0 DEF With
  <2> QED
    BY <2>1, IsFile
<1>2. Without(f, op.who) \in Files
  <2> DEFINE D == DOMAIN f \ {op.who}
  <2>1. D \in SUBSET Peers /\ Without(f, op.who) \in [D -> SUBSET Perms]
    BY <1>0 DEF Without
  <2> QED
    BY <2>1, IsFile
<1>3. PermsFrom(op.access) \in SUBSET Perms
  BY <1>0 DEF PermsFrom
<1>4. op.who \in DOMAIN f => f[op.who] \ op.access \in SUBSET Perms
  BY <1>0
<1> QED
  BY <1>1, <1>2, <1>3, <1>4 DEF Changed

\* A text that overlays another: rows of the new, and rows of the old.
LEMMA OverlaidRows ==
  ASSUME NEW f \in Files, NEW g \in Files \cup {Other}, NEW r \in Overlaid(f, g), r # Other
  PROVE  /\ r \in Files
         /\ \A w \in DOMAIN r : (w \in DOMAIN f /\ r[w] = f[w])
                              \/ (g # Other /\ w \in DOMAIN g /\ r[w] = g[w])
<1>0. DOMAIN f \subseteq Peers /\ f \in [DOMAIN f -> SUBSET Perms]
  BY FileDomain
<1>1. CASE r = f
  BY <1>1
<1>2. CASE r # f
  <2> DEFINE D == DOMAIN f \cup {y \in DOMAIN g : \A z \in DOMAIN f : y > z}
  <2>1. g # Other /\ r = [x \in D |-> IF x \in DOMAIN f THEN f[x] ELSE g[x]]
    BY <1>2 DEF Overlaid
  <2>2. DOMAIN g \subseteq Peers /\ g \in [DOMAIN g -> SUBSET Perms]
    BY <2>1, FileDomain
  <2>3. D \in SUBSET Peers /\ r \in [D -> SUBSET Perms]
    BY <2>1, <2>2, <1>0
  <2>4. r \in Files
    BY <2>3, IsFile
  <2> QED
    BY <2>1, <2>4
<1> QED
  BY <1>1, <1>2

\* The beginning of a text has some of its rows, the last of them cut short.
LEMMA BeginningRows ==
  ASSUME NEW f \in Files, NEW r \in Beginnings(f), r # Other
  PROVE  r \in Files /\ DOMAIN r \subseteq DOMAIN f /\ \A w \in DOMAIN r : r[w] \subseteq f[w]
<1>0. DOMAIN f \subseteq Peers /\ f \in [DOMAIN f -> SUBSET Perms]
  BY FileDomain
<1>1. \A k : /\ DOMAIN Upto(f, k) \in SUBSET Peers /\ DOMAIN Upto(f, k) \subseteq DOMAIN f
             /\ Upto(f, k) \in [DOMAIN Upto(f, k) -> SUBSET Perms]
             /\ \A w \in DOMAIN Upto(f, k) : Upto(f, k)[w] = f[w]
  BY <1>0 DEF Upto
<1>2. CASE \E k \in 0 .. MaxPeer : r = Upto(f, k)
  BY <1>1, <1>2, IsFile
<1>3. CASE \E k \in DOMAIN f : r = [Upto(f, k) EXCEPT ![k] = LastRow(f, k)]
  <2>1. PICK k \in DOMAIN f : r = [Upto(f, k) EXCEPT ![k] = LastRow(f, k)]
    BY <1>3
  <2>2. LastRow(f, k) \in SUBSET Perms /\ LastRow(f, k) \subseteq f[k]
    BY <1>0 DEF LastRow
  <2>3. /\ r \in [DOMAIN Upto(f, k) -> SUBSET Perms]
        /\ \A w \in DOMAIN Upto(f, k) : r[w] \subseteq f[w]
    BY <1>1, <2>1, <2>2
  <2> QED
    BY <1>1, <2>3, IsFile
<1> QED
  BY <1>2, <1>3 DEF Beginnings

LEMMA BoundOf ==
  ASSUME NEW f \in credible, f # Other, NEW w \in DOMAIN f
  PROVE  f[w] \subseteq Bound(w)
  BY DEF Bound

LEMMA FileInit == Init => FileInv
<1> SUFFICES ASSUME Init PROVE FileInv
  OBVIOUS
<1>1. trust \in Files \cup {Other} /\ credible = {trust}
  BY TrustAssumption DEF Init
<1>2. Within(trust)
  BY <1>1, BoundOf DEF Within
<1>3. Edited
  BY EmptyFile DEF Init, Edited, On, Idle
<1> QED
  BY <1>1, <1>2, <1>3 DEF FileInv

LEMMA FileSame ==
  ASSUME FileInv, UNCHANGED trusting
  PROVE  FileInv'
  BY DEF trusting, FileInv, Edited, Within, Bound, On

LEMMA FileLoads ==
  ASSUME FileInv, NEW e \in Editors, NEW op \in Ops, EditLoads(e, op)
  PROVE  FileInv'
<1>1. Changed(trust, op) \in Files
  BY ChangedFile DEF FileInv, EditLoads
<1>2. editor' = [editor EXCEPT ![e] = [stage |-> "loaded", op |-> op, rows |-> Changed(trust, op)]]
      /\ UNCHANGED <<trust, credible>>
  BY DEF EditLoads
<1>3. Edited'
  BY <1>1, <1>2 DEF FileInv, Edited, On
<1> QED
  BY <1>2, <1>3 DEF FileInv, Within, Bound

LEMMA FileTruncates ==
  ASSUME FileInv, NEW e \in Editors, EditTruncates(e)
  PROVE  FileInv'
<1>1. /\ trust' = <<>> /\ credible' = credible \cup {editor[e].rows}
      /\ editor' = [editor EXCEPT ![e].stage = "truncated"]
  BY DEF EditTruncates
<1>2. Edited'
  BY <1>1 DEF FileInv, Edited, On
<1> QED
  BY <1>1, <1>2, EmptyFile DEF FileInv, Within

LEMMA FileWrites ==
  ASSUME FileInv, NEW e \in Editors, EditWrites(e)
  PROVE  FileInv'
<1> DEFINE new == editor[e].rows
<1>1. /\ trust' \in Overlaid(new, trust)
      /\ editor' = [editor EXCEPT ![e] = Idle]
      /\ editor[e].stage = "truncated"
  BY DEF EditWrites
<1>2. new \in Files /\ new \in credible /\ new # Other
  BY <1>1, FileDomain DEF FileInv, Edited
<1>3. trust' \in Files \cup {Other}
  BY <1>1, <1>2, OverlaidRows DEF FileInv
<1>4. CASE trust = <<>> /\ \A d \in Editors \ {e} : editor[d].stage # "truncated"
  <2>1. credible' = {new}
    BY <1>4 DEF EditWrites
  <2>2. trust' = new
    BY <1>1, <1>4 DEF Overlaid
  <2>3. Within(trust)'
    BY <2>1, <2>2, BoundOf DEF Within, Bound
  <2>4. Edited'
    BY <1>1, <1>4, EmptyFile DEF FileInv, Edited, On, Idle
  <2> QED
    BY <1>3, <2>3, <2>4 DEF FileInv
<1>5. CASE ~(trust = <<>> /\ \A d \in Editors \ {e} : editor[d].stage # "truncated")
  <2>1. credible' = credible
    BY <1>5 DEF EditWrites
  <2>2. Within(trust)'
    <3>1. SUFFICES ASSUME trust' # Other, NEW w \in DOMAIN trust' PROVE trust'[w] \subseteq Bound(w)
      BY <2>1 DEF Within, Bound
    <3>2. CASE w \in DOMAIN new /\ trust'[w] = new[w]
      BY <1>2, <3>2, BoundOf
    <3>3. CASE trust # Other /\ w \in DOMAIN trust /\ trust'[w] = trust[w]
      BY <3>3 DEF FileInv, Within
    <3> QED
      BY <1>1, <1>2, <3>1, <3>2, <3>3, OverlaidRows DEF FileInv
  <2>3. Edited'
    BY <1>1, <2>1, EmptyFile DEF FileInv, Edited, On, Idle
  <2> QED
    BY <1>3, <2>2, <2>3 DEF FileInv
<1> QED
  BY <1>4, <1>5

LEMMA FileDies ==
  ASSUME FileInv, NEW e \in Editors, EditDies(e)
  PROVE  FileInv'
<1> DEFINE new == editor[e].rows
<1>1. editor' = [editor EXCEPT ![e] = Idle] /\ UNCHANGED credible
  BY DEF EditDies
<1>2. Edited'
  BY <1>1, EmptyFile DEF FileInv, Edited, On, Idle
<1>3. CASE editor[e].stage = "truncated" /\ trust' \in Beginnings(new)
  <2>1. new \in Files /\ new \in credible /\ new # Other
    BY <1>3, FileDomain DEF FileInv, Edited
  <2>2. trust' # Other => /\ trust' \in Files /\ DOMAIN trust' \subseteq DOMAIN new
                         /\ \A w \in DOMAIN trust' : trust'[w] \subseteq new[w]
    BY <1>3, <2>1, BeginningRows
  <2>3. \A w \in DOMAIN new : new[w] \subseteq Bound(w)
    BY <2>1, BoundOf
  <2>4. Within(trust)'
    BY <1>1, <2>2, <2>3 DEF Within, Bound
  <2> QED
    BY <1>2, <2>2, <2>4 DEF FileInv
<1>4. CASE trust' \in {trust, Other}
  BY <1>1, <1>2, <1>4 DEF FileInv, Within, Bound
<1> QED
  BY <1>3, <1>4 DEF EditDies

LEMMA FileNext == KeyInv /\ FileInv /\ [Next]_vars => FileInv'
<1> SUFFICES ASSUME KeyInv, FileInv, [Next]_vars PROVE FileInv'
  OBVIOUS
<1> plan \in DOMAIN Plans
  BY DEF KeyInv, Shapes
<1>1. ASSUME NEW e \in Editors, NEW op \in Plans[plan].ops, EditLoads(e, op) PROVE FileInv'
  BY <1>1, FileLoads, TrustAssumption
<1>2. ASSUME NEW e \in Editors, EditTruncates(e) \/ EditWrites(e) \/ EditDies(e) PROVE FileInv'
  BY <1>2, FileTruncates, FileWrites, FileDies
<1>3. ASSUME NEW p \in Procs, Ends(p) PROVE FileInv'
  BY <1>3, FileSame DEF Ends
<1>4. ASSUME NEW w \in Peers, Dialled(w) \/ Revoke(w) PROVE FileInv'
  BY <1>4, FileSame DEF Dialled, Revoke, OneConn
<1>5. ASSUME NEW o, CommandDecides(o) PROVE FileInv'
  BY <1>5, FileSame DEF CommandDecides, Decided, OneConn
<1>6. CASE TrustDecides \/ Refused \/ Admitted \/ ListSessions
  BY <1>6, FileSame DEF TrustDecides, Decided, Refused, Admitted, ListSessions, OneConn
<1>7. ASSUME NEW s \in tasks, SessionEnds(s) PROVE FileInv'
  BY <1>7, FileSame DEF SessionEnds, OneConn
<1>8. ASSUME NEW p \in Procs, NEW s, Start(p, s) PROVE FileInv'
  BY <1>8, FileSame DEF Start
<1>9. ASSUME NEW p \in Procs, ResolveScopes(p) \/ ReadKey(p) \/ CreateKey(p) \/ WriteKey(p)
      PROVE  FileInv'
  BY <1>9, FileSame DEF ResolveScopes, ReadKey, CreateKey, WriteKey
<1>10. CASE OpenDoc \/ StoreAgain \/ Stored \/ UNCHANGED vars
  BY <1>10, FileSame DEF OpenDoc, StoreAgain, Stored, vars
<1> QED
  BY <1>1, <1>2, <1>3, <1>4, <1>5, <1>6, <1>7, <1>8, <1>9, <1>10 DEF Next, Killed, AcceptFails, Procs

LEMMA BoundNext == HookInv /\ FileInv /\ GrantsBounded /\ [Next]_vars => GrantsBounded'
<1> SUFFICES ASSUME HookInv, FileInv, GrantsBounded, [Next]_vars PROVE GrantsBounded'
  OBVIOUS
<1>1. ASSUME NEW perms, NEW bound, perms \subseteq bound, Decided(perms, bound) PROVE GrantsBounded'
  BY <1>1 DEF Decided, GrantsBounded, HookInv, Accepting
<1>2. ASSUME conn' \in {conn, NoConn} PROVE GrantsBounded'
  BY <1>2 DEF GrantsBounded, NoConn
<1>3. CASE TrustDecides
  <2>1. Granted(conn.who) \subseteq Bound(conn.who)
    BY DEF Granted, FileInv, Within
  <2> QED
    BY <1>1, <1>3, <2>1 DEF TrustDecides, Bound
<1>4. ASSUME NEW o, CommandDecides(o) PROVE GrantsBounded'
  <2>1. CommandVerdict(o) \subseteq (IF o.spawned /\ o.success THEN o.first ELSE {})
    BY DEF CommandVerdict, ParseVerdict
  <2> QED
    BY <1>1, <1>4, <2>1 DEF CommandDecides
<1>5. ASSUME NEW w \in Peers, Dialled(w) PROVE GrantsBounded'
  BY <1>5 DEF Dialled, GrantsBounded
<1>6. ASSUME NEW w \in Peers, Revoke(w) PROVE GrantsBounded'
  BY <1>6, <1>2 DEF Revoke
<1>7. ASSUME NEW p \in Procs, Ends(p) PROVE GrantsBounded'
  BY <1>7, <1>2 DEF Ends
<1>8. CASE Refused \/ Admitted \/ ListSessions
  BY <1>8, <1>2 DEF Refused, Admitted, ListSessions
<1>9. ASSUME NEW s \in tasks, SessionEnds(s) PROVE GrantsBounded'
  BY <1>9, <1>2 DEF SessionEnds
<1>10. ASSUME NEW p \in Procs, NEW s, Start(p, s) PROVE GrantsBounded'
  BY <1>10, <1>2 DEF Start, gate
<1>11. ASSUME NEW p \in Procs, ResolveScopes(p) \/ ReadKey(p) \/ CreateKey(p) \/ WriteKey(p)
       PROVE  GrantsBounded'
  BY <1>11, <1>2 DEF ResolveScopes, ReadKey, CreateKey, WriteKey, gate
<1>12. CASE OpenDoc \/ StoreAgain \/ Stored \/ UNCHANGED vars
  BY <1>12, <1>2 DEF OpenDoc, StoreAgain, Stored, vars, gate
<1>13. ASSUME NEW e \in Editors, NEW op, EditLoads(e, op) PROVE GrantsBounded'
  BY <1>13, <1>2 DEF EditLoads, Editing, gate
<1>14. ASSUME NEW e \in Editors, EditTruncates(e) \/ EditWrites(e) \/ EditDies(e) PROVE GrantsBounded'
  BY <1>14, <1>2 DEF EditTruncates, EditWrites, EditDies, Editing, gate
<1> QED
  BY <1>3, <1>4, <1>5, <1>6, <1>7, <1>8, <1>9, <1>10, <1>11, <1>12, <1>13, <1>14
     DEF Next, Killed, AcceptFails, Procs

\* Nobody is granted more than the policy: neither a half-written trust file,
\* nor one two edits have written over each other, nor a command that dies
\* grants what no whole file or answer does.
THEOREM GrantsAreBounded == Spec => []GrantsBounded
<1>1. Init => GrantsBounded
  BY DEF Init, GrantsBounded, NoConn
<1> QED
  BY <1>1, KeyInit, KeyNext, HookInit, HookNext, FileInit, FileNext, BoundNext, PTL DEF Spec

-----------------------------------------------------------------------------
(* Revoke. *)

\* A grant that was removed is in no file, and in none that is being written.
RemovedInv ==
  /\ out \subseteq removed
  /\ \A w \in removed : trust # Other => w \notin DOMAIN trust
  /\ \A w \in removed, e \in Editors : w \notin DOMAIN editor[e].rows

\* A peer that was revoked after that has no session, and none on the way.
KeptOut ==
  eff[Server].authz = None => \A w \in out :
    (\A s \in tasks : s.who # w) /\ ~(conn.who = w /\ conn.stage = "granted")

\* Only a server that holds its key has connections.
Attended == tasks # {} \/ conn # NoConn => phase[Server] \in {"storing", "up"}

OutInv == RemovedInv /\ KeptOut /\ Attended

LEMMA ChangedDomain ==
  ASSUME NEW f, NEW op
  PROVE  DOMAIN Changed(f, op) \subseteq DOMAIN f \cup (IF op.kind = "add" THEN {op.who} ELSE {})
  BY DEF Changed, With, Without

LEMMA OutInit == Init => OutInv
<1> SUFFICES ASSUME Init PROVE OutInv
  OBVIOUS
<1> QED
  BY DEF Init, OutInv, RemovedInv, KeptOut, Attended, NoConn

LEMMA RemovedSame ==
  ASSUME RemovedInv, UNCHANGED <<trusting, out>>
  PROVE  RemovedInv'
  BY DEF RemovedInv, trusting

LEMMA RemovedLoads ==
  ASSUME RemovedInv, FileInv, NEW e \in Editors, NEW op, EditLoads(e, op)
  PROVE  RemovedInv'
<1>1. /\ trust # Other /\ trust' = trust
      /\ editor' = [editor EXCEPT ![e] = [stage |-> "loaded", op |-> op, rows |-> Changed(trust, op)]]
      /\ removed' = IF op.kind = "add" THEN removed \ {op.who} ELSE removed
      /\ out' = IF op.kind = "add" THEN out \ {op.who} ELSE out
  BY DEF EditLoads
<1>2. \A w \in removed' : w \notin DOMAIN Changed(trust, op)
  BY <1>1, ChangedDomain DEF RemovedInv
<1>3. \A d \in Editors : editor'[d].rows = IF d = e THEN Changed(trust, op) ELSE editor[d].rows
  BY <1>1 DEF FileInv, Edited, On
<1> QED
  BY <1>1, <1>2, <1>3 DEF RemovedInv

\* An edit that ends with the file it has written, alone or not.
LEMMA RemovedWrites ==
  ASSUME RemovedInv, FileInv, NEW e \in Editors, EditWrites(e)
  PROVE  RemovedInv'
<1> DEFINE new == editor[e].rows
<1>1. /\ trust' \in Overlaid(new, trust) /\ UNCHANGED out
      /\ editor' = [editor EXCEPT ![e] = Idle]
      /\ removed' = IF Alone(e) THEN removed \cup ({editor[e].op.who} \ DOMAIN new) ELSE removed
  BY DEF EditWrites
<1>2. new \in Files /\ trust \in Files \cup {Other}
  BY DEF FileInv, Edited
<1>3. \A d \in Editors : editor'[d] = IF d = e THEN Idle ELSE editor[d]
  BY <1>1 DEF FileInv, Edited, On
<1>4. DOMAIN Idle.rows = {}
  BY EmptyFile DEF Idle
<1>5. CASE Alone(e)
  <2>1. trust' = new
    BY <1>1, <1>5 DEF Alone, Overlaid
  <2>2. \A d \in Editors : DOMAIN editor'[d].rows = {}
    BY <1>3, <1>4, <1>5 DEF Alone
  <2> QED
    BY <1>1, <1>5, <2>1, <2>2 DEF RemovedInv
<1>6. CASE ~Alone(e)
  <2>1. ASSUME NEW w \in removed, trust' # Other PROVE w \notin DOMAIN trust'
    BY <1>1, <1>2, <2>1, OverlaidRows DEF RemovedInv
  <2> QED
    BY <1>1, <1>3, <1>4, <1>6, <2>1 DEF RemovedInv
<1> QED
  BY <1>5, <1>6

LEMMA RemovedTruncates ==
  ASSUME RemovedInv, FileInv, NEW e \in Editors, EditTruncates(e)
  PROVE  RemovedInv'
<1>1. \A d \in Editors : editor'[d].rows = editor[d].rows
  BY DEF EditTruncates, FileInv, Edited, On
<1> QED
  BY <1>1, EmptyFile DEF EditTruncates, RemovedInv

LEMMA RemovedDies ==
  ASSUME RemovedInv, FileInv, NEW e \in Editors, EditDies(e)
  PROVE  RemovedInv'
<1>1. \A d \in Editors : editor'[d] = IF d = e THEN Idle ELSE editor[d]
  BY DEF EditDies, FileInv, Edited, On
<1>2. DOMAIN Idle.rows = {}
  BY EmptyFile DEF Idle
<1>3. ASSUME trust' # Other PROVE DOMAIN trust' \subseteq DOMAIN editor[e].rows \/ trust' = trust
  BY <1>3, BeginningRows DEF EditDies, FileInv, Edited
<1> QED
  BY <1>1, <1>2, <1>3 DEF EditDies, RemovedInv

LEMMA OutNext == KeyInv /\ HookInv /\ FileInv /\ OutInv /\ [Next]_vars => OutInv'
<1> SUFFICES ASSUME KeyInv, HookInv, FileInv, OutInv, [Next]_vars PROVE OutInv'
  OBVIOUS
<1> Server \in Procs
  BY DEF Procs
<1> RemovedInv /\ KeptOut /\ Attended
  BY DEF OutInv
<1>1. ASSUME NEW e \in Editors, NEW op, EditLoads(e, op) PROVE OutInv'
  BY <1>1, RemovedLoads DEF EditLoads, Editing, keying, gate, OutInv, KeptOut, Attended
<1>2. ASSUME NEW e \in Editors, EditTruncates(e) \/ EditWrites(e) \/ EditDies(e) PROVE OutInv'
  BY <1>2, RemovedTruncates, RemovedWrites, RemovedDies
     DEF EditTruncates, EditWrites, EditDies, Editing, keying, gate, OutInv, KeptOut, Attended
<1>3. ASSUME UNCHANGED <<trusting, out>>, tasks' = {}, conn' = NoConn PROVE OutInv'
  BY <1>3, RemovedSame DEF OutInv, KeptOut, Attended, NoConn
<1>4. ASSUME NEW p \in Procs, Ends(p) PROVE OutInv'
  <2>1. CASE p = Server
    BY <1>3, <1>4, <2>1 DEF Ends
  <2>2. CASE p # Server
    <3>1. phase'[Server] = phase[Server] /\ eff'[Server] = eff[Server]
      BY <1>4, <2>2 DEF Ends, Fails, Goes, KeyInv, Shapes, On
    <3> QED
      BY <1>4, <2>2, <3>1, RemovedSame DEF Ends, OutInv, KeptOut, Attended
  <2> QED
    BY <2>1, <2>2
<1>5. ASSUME NEW p \in Procs, UNCHANGED <<trusting, gate, out>>,
             phase[p] \notin {"storing", "up"},
             \A q \in Procs \ {p} : phase'[q] = phase[q] /\ eff'[q] = eff[q]
      PROVE  OutInv'
  <2>1. CASE p = Server
    BY <1>3, <1>5, <2>1 DEF gate, Attended
  <2>2. CASE p # Server
    BY <1>5, <2>2, RemovedSame DEF gate, OutInv, KeptOut, Attended
  <2> QED
    BY <2>1, <2>2
<1>6. ASSUME NEW p \in Procs, NEW s, Start(p, s) PROVE OutInv'
  BY <1>5, <1>6 DEF Start, Goes, Down, KeyInv, Shapes
<1>7. ASSUME NEW p \in Procs, ResolveScopes(p) \/ ReadKey(p) \/ CreateKey(p) \/ WriteKey(p)
      PROVE  OutInv'
  <2>1. phase[p] \notin {"storing", "up"} /\ UNCHANGED <<trusting, gate, out>>
    BY <1>7 DEF ResolveScopes, ReadKey, CreateKey, WriteKey
  <2>2. \A q \in Procs \ {p} : phase'[q] = phase[q] /\ eff'[q] = eff[q]
    BY <1>7 DEF ResolveScopes, ReadKey, CreateKey, WriteKey, Fails, HasKey, Goes, KeyInv, Shapes, On
  <2> QED
    BY <1>5, <2>1, <2>2
<1>8. CASE OpenDoc
  <2>1. \A q \in Procs \ {Server} : phase'[q] = phase[q] /\ eff'[q] = eff[q]
    BY <1>8 DEF OpenDoc, Fails, Goes, KeyInv, Shapes, On
  <2> QED
    BY <1>5, <1>8, <2>1 DEF OpenDoc
<1>9. CASE StoreAgain \/ Stored
  BY <1>9, RemovedSame DEF StoreAgain, Stored, Goes, gate, KeyInv, Shapes, OutInv, KeptOut, Attended
<1>10. ASSUME NEW w \in Peers, Dialled(w) PROVE OutInv'
  BY <1>10, RemovedSame DEF Dialled, Serving, OneConn, keying, OutInv, KeptOut, Attended
<1>11. CASE TrustDecides
  <2>1. ASSUME NEW w \in out PROVE ~(conn'.who = w /\ conn'.stage = "granted")
    <3>1. Granted(w) = {}
      BY <2>1 DEF Granted, RemovedInv
    <3> QED
      BY <1>11, <3>1 DEF TrustDecides, Decided, HookInv, Accepting
  <2> QED
    BY <1>11, <2>1, RemovedSame
       DEF TrustDecides, Decided, Serving, OneConn, keying, OutInv, KeptOut, Attended
<1>12. ASSUME NEW o, CommandDecides(o) PROVE OutInv'
  BY <1>12, RemovedSame DEF CommandDecides, Decided, Serving, OneConn, keying, OutInv, KeptOut, Attended
<1>13. CASE Refused \/ ListSessions
  BY <1>13, RemovedSame
     DEF Refused, ListSessions, Serving, OneConn, keying, OutInv, KeptOut, Attended, NoConn
<1>14. CASE Admitted
  BY <1>14, RemovedSame DEF Admitted, Serving, keying, OutInv, KeptOut, Attended, NoConn
<1>15. ASSUME NEW s \in tasks, SessionEnds(s) PROVE OutInv'
  BY <1>15, RemovedSame DEF SessionEnds, Serving, OneConn, keying, OutInv, KeptOut, Attended
<1>16. ASSUME NEW w \in Peers, Revoke(w) PROVE OutInv'
  <2>1. RemovedInv'
    BY <1>16 DEF Revoke, trusting, RemovedInv
  <2>2. KeptOut'
    BY <1>16 DEF Revoke, Revocable, keying, KeptOut, HookInv, Recorded
  <2>3. Attended'
    BY <1>16 DEF Revoke, keying, Attended, Serving
  <2> QED
    BY <2>1, <2>2, <2>3 DEF OutInv
<1>17. CASE UNCHANGED vars
  BY <1>17, RemovedSame DEF vars, keying, gate, OutInv, KeptOut, Attended
<1> QED
  BY <1>1, <1>2, <1>4, <1>6, <1>7, <1>8, <1>9, <1>10, <1>11, <1>12, <1>13, <1>14, <1>15, <1>16, <1>17
     DEF Next, Killed, AcceptFails

\* A grant that is removed by an edit that ran alone, and revoked after it, is
\* gone for good: through restarts of serve, edits of other rows that die or
\* overwrite each other, and connections under way.
THEOREM RevokedForGood == Spec => []RevokedStaysOut
<1>1. OutInv => RevokedStaysOut
  BY DEF OutInv, KeptOut, RevokedStaysOut
<1> QED
  BY <1>1, KeyInit, KeyNext, HookInit, HookNext, FileInit, FileNext, OutInit, OutNext, PTL DEF Spec

-----------------------------------------------------------------------------
(* The stored document. *)

\* One document was ever seeded, and the file, once there, is it or torn.
HistoryInv ==
  /\ docFile \in {None, Other, 1} /\ seeds = (IF docFile = None THEN 0 ELSE 1)
  /\ shown \subseteq {1}
  /\ phase[Server] \in {"storing", "up"} => doc = 1 /\ docFile # None

LEMMA HistorySame ==
  ASSUME HistoryInv, UNCHANGED server,
         phase'[Server] = phase[Server] \/ phase'[Server] \notin {"storing", "up"}
  PROVE  HistoryInv'
  BY DEF HistoryInv, server

LEMMA HistoryEnds ==
  ASSUME KeyInv, HistoryInv, NEW p \in Procs, Ends(p)
  PROVE  HistoryInv'
  BY DEF KeyInv, Shapes, Procs, Ends, Fails, Goes, Down, HistoryInv

LEMMA HistoryNext == KeyInv /\ HistoryInv /\ [Next]_vars => HistoryInv'
<1> SUFFICES ASSUME KeyInv, HistoryInv, [Next]_vars PROVE HistoryInv'
  OBVIOUS
<1> Server \in Procs
  BY DEF Procs
<1>1. CASE OpenDoc
  BY <1>1, LineageAssumption
     DEF OpenDoc, NothingStored, Fails, Goes, Down, KeyInv, Shapes, HistoryInv
<1>2. CASE StoreAgain \/ Stored
  <2>1. None # 1 /\ None # Other
    BY LineageAssumption
  <2>2. CASE StoreAgain
    BY <2>1, <2>2 DEF StoreAgain, Goes, KeyInv, Shapes, HistoryInv
  <2>3. CASE Stored
    BY <2>1, <2>3 DEF Stored, Goes, KeyInv, Shapes, HistoryInv
  <2> QED
    BY <1>2, <2>2, <2>3
<1>3. CASE Admitted
  BY <1>3 DEF Admitted, Serving, keying, HistoryInv
<1>4. ASSUME NEW p \in Procs, Ends(p) PROVE HistoryInv'
  BY <1>4, HistoryEnds
<1>5. ASSUME NEW p \in Procs, NEW s, Start(p, s) PROVE HistoryInv'
  BY <1>5, HistorySame DEF Start, Goes, KeyInv, Shapes
<1>6. ASSUME NEW p \in Procs, ResolveScopes(p) \/ ReadKey(p) \/ CreateKey(p) \/ WriteKey(p)
      PROVE  HistoryInv'
  BY <1>6, HistorySame
     DEF ResolveScopes, ReadKey, CreateKey, WriteKey, Fails, HasKey, Goes, Down, KeyInv, Shapes
<1>7. ASSUME UNCHANGED <<keying, server>> PROVE HistoryInv'
  BY <1>7, HistorySame DEF keying
<1>8. ASSUME NEW w \in Peers, Dialled(w) \/ Revoke(w) PROVE HistoryInv'
  BY <1>8, <1>7 DEF Dialled, Revoke, OneConn
<1>9. CASE TrustDecides \/ Refused \/ ListSessions
  BY <1>9, <1>7 DEF TrustDecides, Decided, Refused, ListSessions, OneConn
<1>10. ASSUME NEW o, CommandDecides(o) PROVE HistoryInv'
  BY <1>10, <1>7 DEF CommandDecides, Decided, OneConn
<1>11. ASSUME NEW s \in tasks, SessionEnds(s) PROVE HistoryInv'
  BY <1>11, <1>7 DEF SessionEnds, OneConn
<1>12. ASSUME NEW e \in Editors, NEW op, EditLoads(e, op) PROVE HistoryInv'
  BY <1>12, <1>7 DEF EditLoads, Editing
<1>13. ASSUME NEW e \in Editors, EditTruncates(e) \/ EditWrites(e) \/ EditDies(e) PROVE HistoryInv'
  BY <1>13, <1>7 DEF EditTruncates, EditWrites, EditDies, Editing
<1>14. CASE UNCHANGED vars
  BY <1>14, <1>7 DEF vars
<1> QED
  BY <1>1, <1>2, <1>3, <1>4, <1>5, <1>6, <1>8, <1>9, <1>10, <1>11, <1>12, <1>13, <1>14
     DEF Next, Killed, AcceptFails

\* However often serve dies while it writes .eg/doc, the peers of a repo are
\* never served a second, unrelated document.
THEOREM HistoryIsOne == Spec => []OneHistory
<1>1. Init => HistoryInv
  BY LineageAssumption DEF Init, HistoryInv, Down, Procs
<1>2. HistoryInv => OneHistory
  <2>1. SUFFICES ASSUME HistoryInv PROVE OneHistory
    OBVIOUS
  <2>2. Cardinality({1}) = 1 /\ IsFiniteSet({1})
    BY FS_Singleton
  <2>3. Cardinality(shown) <= Cardinality({1})
    BY <2>1, <2>2, FS_Subset DEF HistoryInv
  <2> QED
    BY <2>2, <2>3 DEF OneHistory
<1> QED
  BY <1>1, <1>2, KeyInit, KeyNext, HistoryNext, PTL DEF Spec

-----------------------------------------------------------------------------
(* Settings. *)

\* A process that has resolved its settings resolved those it found.
ResolvedInv ==
  \A p \in Procs : phase[p] = "keying" =>
    /\ scopes[p] \in Plans[plan].scopes /\ Resolve(scopes[p]) # Err
    /\ eff[p] = Resolve(scopes[p])

LEMMA ResolvedNext == KeyInv /\ ResolvedInv /\ [Next]_vars => ResolvedInv'
<1> SUFFICES ASSUME KeyInv, ResolvedInv, [Next]_vars PROVE ResolvedInv'
  OBVIOUS
<1> Server \in Procs
  BY DEF Procs
<1>0. /\ phase = [p \in Procs |-> phase[p]] /\ scopes = [p \in Procs |-> scopes[p]]
      /\ eff = [p \in Procs |-> eff[p]]
  BY DEF KeyInv, Shapes, On
<1>1. ASSUME NEW p \in Procs, NEW to, Goes(p, to), to # "keying", UNCHANGED plan,
             scopes' = [scopes EXCEPT ![p] = scopes'[p]], eff' = [eff EXCEPT ![p] = eff'[p]]
      PROVE  ResolvedInv'
  <2>1. phase' = [phase EXCEPT ![p] = to]
    BY <1>1 DEF Goes
  <2>2. \A r \in Procs : r # p => phase'[r] = phase[r] /\ scopes'[r] = scopes[r] /\ eff'[r] = eff[r]
    BY <1>0, <1>1, <2>1
  <2>3. phase'[p] = to
    BY <1>0, <2>1
  <2> QED BY <1>1, <2>2, <2>3 DEF ResolvedInv
<1>2. ASSUME NEW p \in Procs, Fails(p), UNCHANGED plan PROVE ResolvedInv'
  <2>1. Goes(p, Down) /\ scopes' = [scopes EXCEPT ![p] = None] /\ eff' = [eff EXCEPT ![p] = None]
    BY <1>2 DEF Fails
  <2>2. scopes'[p] = None /\ eff'[p] = None /\ Down # "keying"
    BY <1>0, <2>1 DEF Down
  <2> QED BY <1>1, <1>2, <2>1, <2>2
<1>3. ASSUME NEW p \in Procs, NEW to, Goes(p, to), to # "keying", UNCHANGED <<plan, eff>>,
             UNCHANGED scopes \/ scopes' = [scopes EXCEPT ![p] = None]
      PROVE  ResolvedInv'
  <2>1. scopes' = [scopes EXCEPT ![p] = scopes'[p]] /\ eff' = [eff EXCEPT ![p] = eff'[p]]
    BY <1>0, <1>3
  <2> QED BY <1>1, <1>3, <2>1
<1>4. ASSUME NEW p \in Procs, NEW s, Start(p, s) PROVE ResolvedInv'
  <2>1. Goes(p, "resolving") /\ UNCHANGED <<plan, eff>> /\ scopes' = [scopes EXCEPT ![p] = s]
    BY <1>4 DEF Start
  <2>2. scopes' = [scopes EXCEPT ![p] = scopes'[p]] /\ eff' = [eff EXCEPT ![p] = eff'[p]]
    BY <1>0, <2>1
  <2> QED BY <1>1, <2>1, <2>2
<1>5. ASSUME NEW p \in Procs, ResolveScopes(p) PROVE ResolvedInv'
  <2>1. CASE Resolve(scopes[p]) = Err
    BY <1>2, <1>5, <2>1 DEF ResolveScopes
  <2>2. CASE Resolve(scopes[p]) # Err
    <3>1. /\ phase[p] = "resolving" /\ phase' = [phase EXCEPT ![p] = "keying"]
          /\ eff' = [eff EXCEPT ![p] = Resolve(scopes[p])] /\ UNCHANGED <<plan, scopes>>
      BY <1>5, <2>2 DEF ResolveScopes, Goes
    <3>2. scopes[p] \in Plans[plan].scopes
      BY <3>1 DEF KeyInv, Settled
    <3>3. \A r \in Procs : r # p => phase'[r] = phase[r] /\ eff'[r] = eff[r]
      BY <1>0, <3>1
    <3>4. eff'[p] = Resolve(scopes[p])
      BY <1>0, <3>1
    <3> QED BY <2>2, <3>1, <3>2, <3>3, <3>4 DEF ResolvedInv
  <2> QED BY <2>1, <2>2
<1>6. ASSUME NEW p \in Procs, ReadKey(p) PROVE ResolvedInv'
  <2>1. CASE \E k : HasKey(p, k)
    BY <1>3, <1>6, <2>1 DEF ReadKey, HasKey
  <2>2. CASE Fails(p)
    BY <1>2, <1>6, <2>2 DEF ReadKey
  <2>3. CASE Goes(p, "minting") /\ UNCHANGED <<scopes, eff>>
    BY <1>3, <1>6, <2>3 DEF ReadKey
  <2> QED BY <1>6, <2>1, <2>2, <2>3 DEF ReadKey
<1>7. ASSUME NEW p \in Procs, CreateKey(p) PROVE ResolvedInv'
  <2>1. CASE Fails(p)
    BY <1>2, <1>7, <2>1 DEF CreateKey
  <2>2. CASE Goes(p, "writing") /\ UNCHANGED <<scopes, eff>>
    BY <1>3, <1>7, <2>2 DEF CreateKey
  <2> QED BY <1>7, <2>1, <2>2 DEF CreateKey
<1>8. ASSUME NEW p \in Procs, WriteKey(p) PROVE ResolvedInv'
  BY <1>3, <1>8 DEF WriteKey, HasKey
<1>9. ASSUME NEW p \in Procs, Ends(p) PROVE ResolvedInv'
  BY <1>2, <1>9 DEF Ends
<1>10. CASE OpenDoc
  <2>1. CASE Fails(Server)
    BY <1>2, <1>10, <2>1 DEF OpenDoc
  <2>2. CASE Goes(Server, "storing") /\ UNCHANGED <<scopes, eff, secret>>
    BY <1>3, <1>10, <2>2 DEF OpenDoc
  <2> QED BY <1>10, <2>1, <2>2 DEF OpenDoc
<1>11. CASE StoreAgain \/ Stored
  BY <1>3, <1>11 DEF StoreAgain, Stored
<1>12. ASSUME UNCHANGED <<plan, keying>> PROVE ResolvedInv'
  BY <1>12 DEF keying, ResolvedInv
<1>13. ASSUME NEW w \in Peers, Dialled(w) \/ Revoke(w) PROVE ResolvedInv'
  BY <1>12, <1>13 DEF Dialled, Revoke, OneConn
<1>14. CASE TrustDecides \/ Refused \/ Admitted \/ ListSessions
  BY <1>12, <1>14 DEF TrustDecides, Decided, Refused, Admitted, ListSessions, OneConn
<1>15. ASSUME NEW o, CommandDecides(o) PROVE ResolvedInv'
  BY <1>12, <1>15 DEF CommandDecides, Decided, OneConn
<1>16. ASSUME NEW s \in tasks, SessionEnds(s) PROVE ResolvedInv'
  BY <1>12, <1>16 DEF SessionEnds, OneConn
<1>17. ASSUME NEW e \in Editors, NEW op, EditLoads(e, op) PROVE ResolvedInv'
  BY <1>12, <1>17 DEF EditLoads, Editing
<1>18. ASSUME NEW e \in Editors, EditTruncates(e) \/ EditWrites(e) \/ EditDies(e) PROVE ResolvedInv'
  BY <1>12, <1>18 DEF EditTruncates, EditWrites, EditDies, Editing
<1>19. CASE UNCHANGED vars
  BY <1>12, <1>19 DEF vars
<1> QED
  BY <1>4, <1>5, <1>6, <1>7, <1>8, <1>9, <1>10, <1>11, <1>13, <1>14, <1>15, <1>16, <1>17, <1>18,
     <1>19 DEF Next, Killed, AcceptFails

LEMMA ResolvedAlways == Spec => []ResolvedInv
<1>1. Init => ResolvedInv
  BY DEF Init, ResolvedInv, Down
<1> QED BY <1>1, KeyInit, KeyNext, ResolvedNext, PTL DEF Spec

\* A repo file that parses has its entries as they should be.
LEMMA ParsedRepo ==
  ASSUME NEW f, ParseRepo(f) # Err
  PROVE  /\ RepoFine(f)
         /\ f = None \/ \A h \in {f.authz, f.session} : h = Other \/ HookFine(h)
<1>1. CASE f = None
  BY <1>1 DEF RepoFine
<1>2. CASE f # None
  <2> DEFINE c == [authz |-> CommandField(f.authz), session |-> CommandField(f.session),
                   remote |-> StringIn(f.remote), peer |-> StringIn(f.peer),
                   key |-> StringIn(f.key), identity |-> IdentityIn(f.identity)]
  <2>1. f # Other /\ ~f.keysTable /\ ~AnyErr(c) /\ ~(c.remote # None /\ c.peer # None)
    BY <1>2 DEF ParseRepo
  <2>2. /\ CommandField(f.authz) # Err /\ CommandField(f.session) # Err
        /\ StringIn(f.remote) # Err /\ StringIn(f.peer) # Err /\ StringIn(f.key) # Err
        /\ IdentityIn(f.identity) # Err
    BY <2>1 DEF AnyErr
  <2>3. Other \notin {f.remote, f.peer, f.key} /\ None \in {f.remote, f.peer}
    BY <2>1, <2>2 DEF StringIn
  <2>4. IdentityFine(f.identity)
    BY <2>2 DEF IdentityFine, IdentityIn, AnyErr, Strings, StringIn, WellTyped
  <2>5. ASSUME NEW h, CommandField(h) # Err PROVE h = Other \/ HookFine(h)
    BY <2>5 DEF HookFine, CommandField
  <2> QED BY <1>2, <2>1, <2>2, <2>3, <2>4, <2>5 DEF RepoFine
<1> QED BY <1>1, <1>2

\* So has a global file.
LEMMA ParsedGlobal ==
  ASSUME NEW f, ParseGlobal(f) # Err
  PROVE  GlobalFine(f) /\ (f = None \/ f.keys = Other \/ KeysFine(f.keys))
<1>1. CASE f = None
  BY <1>1 DEF GlobalFine
<1>2. CASE f # None
  <2> DEFINE c == [identity |-> IdentityIn(f.identity), key |-> StringIn(f.key),
                   backend |-> Backend(f.keys), remotes |-> RemotesIn(f.remotes)]
  <2>1. f # Other /\ ~f.hooks /\ ~AnyErr(c)
    BY <1>2 DEF ParseGlobal
  <2>2. StringIn(f.key) # Err /\ IdentityIn(f.identity) # Err /\ RemotesIn(f.remotes) # Err
        /\ Backend(f.keys) # Err
    BY <2>1 DEF AnyErr
  <2>3. f.key # Other
    BY <2>2 DEF StringIn
  <2>4. IdentityFine(f.identity)
    BY <2>2 DEF IdentityFine, IdentityIn, AnyErr, Strings, StringIn, WellTyped
  <2>5. /\ f.remotes # Other
        /\ f.remotes # None => \A r \in DOMAIN f.remotes :
                                 f.remotes[r] # Other /\ WellTyped(f.remotes[r])
    BY <2>2, LineageAssumption DEF RemotesIn, AnyErr, Strings, StringIn, WellTyped
  <2>6. f.keys = Other \/ KeysFine(f.keys)
    BY <2>2 DEF Backend, KeysFine
  <2> QED BY <1>2, <2>1, <2>3, <2>4, <2>5, <2>6 DEF GlobalFine
<1> QED BY <1>1, <1>2

\* Whatever the scopes hold, a merge that succeeds has read every file whole.
LEMMA ResolvedParts ==
  ASSUME NEW s, Resolve(s) # Err
  PROVE  /\ Parsed(s).repo = ParseRepo(s.repo) /\ ParseRepo(s.repo) # Err
         /\ Parsed(s).global = ParseGlobal(s.global) /\ ParseGlobal(s.global) # Err
         /\ Parsed(s).remote # Err
<1>1. Parsed(s).remote # Err
  BY DEF Resolve
<1> QED BY <1>1 DEF Parsed

\* A malformed entry of a config file ends the command, for every content the
\* files may have: it is never read as absent.
THEOREM FallsBackNever == Spec => []NeverFallsBack
<1>1. ResolvedInv => NeverFallsBack
  <2> SUFFICES ASSUME ResolvedInv, NEW p \in Procs, phase[p] = "keying"
               PROVE  LET f == scopes[p].repo
                          g == scopes[p].global
                      IN /\ RepoFine(f) /\ GlobalFine(g)
                         /\ f = None \/ \A h \in {f.authz, f.session} : h = Other \/ HookFine(h)
                         /\ g = None \/ g.keys = Other \/ KeysFine(g.keys)
    BY DEF NeverFallsBack
  <2>1. Resolve(scopes[p]) # Err
    BY DEF ResolvedInv
  <2>2. ParseRepo(scopes[p].repo) # Err /\ ParseGlobal(scopes[p].global) # Err
    BY <2>1, ResolvedParts
  <2> QED BY <2>2, ParsedRepo, ParsedGlobal
<1> QED BY <1>1, ResolvedAlways, PTL

\* The first setting there is, of seven.
LEMMA FirstOfSeven ==
  ASSUME NEW a, NEW b, NEW c, NEW d, NEW e, NEW f, NEW g, g # None
  PROVE  FirstSet(<<a, b, c, d, e, f, g>>, Or(Or(Or(Or(a, b), c), d), Or(Or(e, f), g)))
<1> DEFINE t == <<a, b, c, d, e, f, g>>
           v == Or(Or(Or(Or(a, b), c), d), Or(Or(e, f), g))
<1>0. /\ DOMAIN t = 1..7 /\ t[1] = a /\ t[2] = b /\ t[3] = c /\ t[4] = d /\ t[5] = e /\ t[6] = f
      /\ t[7] = g
  OBVIOUS
<1>1. CASE a # None
  <2>1. v = a /\ 1 \in 1..7 /\ \A j \in 1..(1 - 1) : t[j] = None
    BY <1>1 DEF Or
  <2> QED BY <1>0, <1>1, <2>1 DEF FirstSet
<1>2. CASE a = None /\ b # None
  <2>1. v = b /\ 2 \in 1..7 /\ \A j \in 1..(2 - 1) : j = 1
    BY <1>2 DEF Or
  <2> QED BY <1>0, <1>2, <2>1 DEF FirstSet
<1>3. CASE a = None /\ b = None /\ c # None
  <2>1. v = c /\ 3 \in 1..7 /\ \A j \in 1..(3 - 1) : j \in {1, 2}
    BY <1>3 DEF Or
  <2> QED BY <1>0, <1>3, <2>1 DEF FirstSet
<1>4. CASE a = None /\ b = None /\ c = None /\ d # None
  <2>1. v = d /\ 4 \in 1..7 /\ \A j \in 1..(4 - 1) : j \in {1, 2, 3}
    BY <1>4 DEF Or
  <2> QED BY <1>0, <1>4, <2>1 DEF FirstSet
<1>5. CASE a = None /\ b = None /\ c = None /\ d = None /\ e # None
  <2>1. v = e /\ 5 \in 1..7 /\ \A j \in 1..(5 - 1) : j \in {1, 2, 3, 4}
    BY <1>5 DEF Or
  <2> QED BY <1>0, <1>5, <2>1 DEF FirstSet
<1>6. CASE a = None /\ b = None /\ c = None /\ d = None /\ e = None /\ f # None
  <2>1. v = f /\ 6 \in 1..7 /\ \A j \in 1..(6 - 1) : j \in {1, 2, 3, 4, 5}
    BY <1>6 DEF Or
  <2> QED BY <1>0, <1>6, <2>1 DEF FirstSet
<1>7. CASE a = None /\ b = None /\ c = None /\ d = None /\ e = None /\ f = None
  <2>1. v = g /\ 7 \in 1..7 /\ \A j \in 1..(7 - 1) : j \in {1, 2, 3, 4, 5, 6}
    BY <1>7 DEF Or
  <2> QED BY <1>0, <1>7, <2>1 DEF FirstSet
<1> QED BY <1>1, <1>2, <1>3, <1>4, <1>5, <1>6, <1>7

\* The key is the first that the scopes name.
LEMMA KeyAsDocumented ==
  ASSUME NEW p \in DOMAIN Plans, NEW s \in Plans[p].scopes, Resolve(s) # Err
  PROVE  LET q == Parsed(s)
         IN FirstSet(<<Select(s.cli), Select(Variable(s.env)), Select(q.repo.key),
                       IF s.keyFile = None THEN None ELSE RepoFile,
                       Select(q.remote.key), Select(q.global.key), Selector(DeviceKey)>>,
                     Resolve(s).key)
<1> DEFINE q == Parsed(s)
           env == Variable(s.env)
           file == IF s.keyFile = None THEN None ELSE RepoFile
           r == q.repo.key
           m == q.remote.key
           g == q.global.key
<1>1. q.remote # Err
  BY ResolvedParts
<1>2. /\ RepoFile # None
      /\ \A k \in {s.cli, env, r, m, g, DeviceKey} : Selector(k) # None
  BY <1>1, ScopesAssumption DEF Selectors
<1>3. Resolve(s).key = KeyOf([s EXCEPT !.env = env], q.repo, q.global, q.remote)
  BY <1>1 DEF Resolve
<1>4. {"cli", "env", "keyFile"} \subseteq DOMAIN s
  BY ScopesAssumption
<1>5. /\ [s EXCEPT !.env = env].cli = s.cli /\ [s EXCEPT !.env = env].env = env
      /\ [s EXCEPT !.env = env].keyFile = s.keyFile
  BY <1>4
<1> HIDE DEF q, env, r, m, g
<1>6. Resolve(s).key =
        Or(Or(Select(Or(Or(s.cli, env), r)), file), Or(Select(Or(m, g)), Selector(DeviceKey)))
  BY <1>3, <1>5 DEF KeyOf, r, m, g
<1>7. Select(Or(Or(s.cli, env), r)) = Or(Or(Select(s.cli), Select(env)), Select(r))
  BY <1>2 DEF Or, Select
<1>8. Select(Or(m, g)) = Or(Select(m), Select(g))
  BY <1>2 DEF Or, Select
<1>9. FirstSet(<<Select(s.cli), Select(env), Select(r), file, Select(m), Select(g),
                 Selector(DeviceKey)>>, Resolve(s).key)
  BY <1>2, <1>6, <1>7, <1>8, FirstOfSeven
<1> QED BY <1>9 DEF q, env, r, m, g

\* Of three settings the first there is, and where it stands.
LEMMA FirstOfThree ==
  ASSUME NEW a, NEW b, NEW c, NEW S,
         S = {i \in 1..3 : <<a, b, c>>[i] # None}, S # {}
  PROVE  \E i \in S : (\A j \in S : i <= j) /\ Or(Or(a, b), c) = <<a, b, c>>[i]
<1> DEFINE t == <<a, b, c>>
<1>0. t[1] = a /\ t[2] = b /\ t[3] = c /\ \A i \in 1..3 : i \in {1, 2, 3}
  OBVIOUS
<1>1. CASE a # None
  <2>1. 1 \in S /\ Or(Or(a, b), c) = t[1] /\ \A j \in S : 1 <= j
    BY <1>0, <1>1 DEF Or
  <2> QED BY <2>1
<1>2. CASE a = None /\ b # None
  <2>1. 2 \in S /\ Or(Or(a, b), c) = t[2] /\ \A j \in S : 2 <= j
    BY <1>0, <1>2 DEF Or
  <2> QED BY <2>1
<1>3. CASE a = None /\ b = None
  <2>1. 3 \in S /\ Or(Or(a, b), c) = t[3] /\ \A j \in S : 3 <= j
    BY <1>0, <1>3 DEF Or
  <2> QED BY <2>1
<1> QED BY <1>1, <1>2, <1>3

LEMMA NoneOfThree ==
  ASSUME NEW a, NEW b, NEW c, {i \in 1..3 : <<a, b, c>>[i] # None} = {}
  PROVE  a = None /\ b = None /\ c = None
<1>1. \A i \in 1..3 : <<a, b, c>>[i] = None
  OBVIOUS
<1> QED BY <1>1, 1 \in 1..3, 2 \in 1..3, 3 \in 1..3

\* A name is the nearest scope's, git's if no scope has one.
LEMMA NameAsDocumented ==
  ASSUME NEW a, NEW b, NEW c, NEW git, NEW S, S = {i \in 1..3 : <<a, b, c>>[i] # None}
  PROVE  Announced(Or(Or(a, b), c), git) \in
           IF S = {} THEN {git}
           ELSE {Variable(<<a, b, c>>[i]) : i \in {j \in 1..3 : j \in S /\ \A k \in S : j <= k}}
<1>1. CASE S = {}
  <2>1. Or(Or(a, b), c) = None
    BY <1>1, NoneOfThree DEF Or
  <2> QED BY <1>1, <2>1 DEF Announced
<1>2. CASE S # {}
  <2>1. PICK i \in S : (\A j \in S : i <= j) /\ Or(Or(a, b), c) = <<a, b, c>>[i]
    BY <1>2, FirstOfThree
  <2>2. <<a, b, c>>[i] # None /\ i \in 1..3
    OBVIOUS
  <2> QED BY <1>2, <2>1, <2>2 DEF Announced
<1> QED BY <1>1, <1>2

\* S is where a colour stands among a, b and c; the colour is the first there.
Usable(S, a, b, c) ==
  /\ \A x \in {a, b, c} : x # None => NormalizeColor(x) # None
  /\ S = {i \in 1..3 : <<a, b, c>>[i] # None /\ NormalizeColor(<<a, b, c>>[i]) # Err}
FirstUsable(S, a, b, c) ==
  /\ S = {} => FirstValid(a, b, c) = None
  /\ S # {} => \E i \in S : /\ \A j \in S : i <= j
                            /\ FirstValid(a, b, c) = NormalizeColor(<<a, b, c>>[i])

\* The colour is the nearest that is one.
LEMMA ColorAsDocumented ==
  ASSUME NEW a, NEW b, NEW c, NEW S, Usable(S, a, b, c)
  PROVE  FirstUsable(S, a, b, c)
<1> USE DEF Usable, FirstUsable
<1> DEFINE t == <<a, b, c>>
           v == <<Valid(a), Valid(b), Valid(c)>>
           T == {i \in 1..3 : v[i] # None}
<1>1. \A i \in 1..3 : t[i] \in {a, b, c} /\ v[i] = Valid(t[i])
  <2>1. \A i \in 1..3 : i \in {1, 2, 3}
    OBVIOUS
  <2> QED BY <2>1
<1>2. \A i \in 1..3 : v[i] # None <=> (t[i] # None /\ NormalizeColor(t[i]) # Err)
  BY <1>1 DEF Valid
<1>3. T = S
  BY <1>2
<1>4. CASE S = {}
  <2>1. Valid(a) = None /\ Valid(b) = None /\ Valid(c) = None
    BY <1>3, <1>4, NoneOfThree
  <2> QED BY <1>4, <2>1 DEF FirstValid, Or
<1>5. CASE S # {}
  <2>1. PICK i \in T : (\A j \in T : i <= j) /\ Or(Or(Valid(a), Valid(b)), Valid(c)) = v[i]
    BY <1>3, <1>5, FirstOfThree
  <2>2. i \in S /\ (\A j \in S : i <= j) /\ i \in 1..3
    BY <1>3, <2>1
  <2>3. FirstValid(a, b, c) = NormalizeColor(t[i])
    BY <1>1, <2>1, <2>2 DEF FirstValid, Valid
  <2> QED BY <1>5, <2>2, <2>3
<1> QED BY <1>4, <1>5

\* Where no channel has a sign, the code takes what is documented.
LEMMA PlainColors ==
  ASSUME NEW c, ~HasSign(c)
  PROVE  HexColor(c) <=> NormalizeColor(c) # Err
<1>1. \A t \in DOMAIN Byte : Byte[t] \in 0..255
  BY DEF Byte
<1>2. ASSUME HexColor(c) PROVE NormalizeColor(c) # Err
  <2>1. /\ NormalizeColor(c) = [i \in 1..3 |-> Byte[c.channels[i]]]
        /\ \A i \in 1..3 : c.channels[i] \in DOMAIN Byte
    BY <1>2 DEF HexColor, NormalizeColor, Byte
  <2>2. NormalizeColor(c) \in [1..3 -> 0..255]
    BY <1>1, <2>1
  <2> QED BY <2>2, ErrAssumption
<1>3. ASSUME NormalizeColor(c) # Err PROVE HexColor(c)
  BY <1>3 DEF HasSign, HexColor, NormalizeColor, Byte
<1> QED BY <1>2, <1>3

\* What a merge comes to is what is documented of it.
LEMMA MergeAsDocumented ==
  ASSUME NEW p \in DOMAIN Plans, NEW s \in Plans[p].scopes, Resolve(s) # Err
  PROVE  AsDocumented(s, Resolve(s))
<1> DEFINE q == Parsed(s)
           e == Resolve(s)
           x == q.repo.identity
           y == q.remote
           z == q.global.identity
           ids == <<x, y, z>>
           set(f) == {i \in 1..3 : ids[i][f] # None}
           colors == {i \in set("color") : HexColor(ids[i].color)}
           nearest(S, i) == i \in S /\ \A j \in S : i <= j
           part(f) == <<x[f], y[f], z[f]>>
<1>1. q.remote # Err
  BY ResolvedParts
<1>2. /\ e.me = LocalIdentity(Layer(x, y, z), s.git)
      /\ FirstSet(<<Select(s.cli), Select(Variable(s.env)), Select(q.repo.key),
                   IF s.keyFile = None THEN None ELSE RepoFile,
                   Select(q.remote.key), Select(q.global.key), Selector(DeviceKey)>>, e.key)
  BY <1>1, KeyAsDocumented DEF Resolve
<1>3. \A c \in {x.color, y.color, z.color} : c # None => NormalizeColor(c) # None
  BY <1>1, ScopesAssumption DEF Colors
<1> HIDE DEF q, e, x, y, z
<1>4. \A f : \A i \in 1..3 : ids[i][f] = part(f)[i]
  <2>1. \A i \in 1..3 : i \in {1, 2, 3}
    OBVIOUS
  <2> QED BY <2>1
<1>5. ASSUME NEW f \in {"name", "email"}
      PROVE  e.me[f] \in IF set(f) = {} THEN {s.git}
                         ELSE {Variable(ids[i][f]) : i \in {j \in 1..3 : nearest(set(f), j)}}
  <2>1. e.me[f] = Announced(Or(Or(x[f], y[f]), z[f]), s.git)
    BY <1>2 DEF LocalIdentity, Layer
  <2>2. set(f) = {i \in 1..3 : part(f)[i] # None}
    BY <1>4
  <2> DEFINE S == set(f)
  <2>3. e.me[f] \in
          IF S = {} THEN {s.git}
          ELSE {Variable(part(f)[i]) : i \in {j \in 1..3 : j \in S /\ \A k \in S : j <= k}}
    <3> HIDE DEF S
    <3>1. S = {i \in 1..3 : <<x[f], y[f], z[f]>>[i] # None}
      BY <2>2 DEF S
    <3> QED BY <2>1, <3>1, NameAsDocumented
  <2> QED BY <1>4, <2>3
<1>6. CASE \E i \in set("color") : HasSign(ids[i].color)
  BY <1>2, <1>5, <1>6 DEF AsDocumented, q, e, x, y, z
<1>7. ASSUME \A i \in set("color") : ~HasSign(ids[i].color)
      PROVE  e.me.color \in IF colors = {} THEN {None}
                            ELSE {NormalizeColor(ids[i].color) : i \in {j \in 1..3 : nearest(colors, j)}}
  <2>1. e.me.color = FirstValid(x.color, y.color, z.color)
    BY <1>2 DEF LocalIdentity, Layer
  <2>2. \A i \in 1..3 : ids[i].color = <<x.color, y.color, z.color>>[i]
    BY <1>4
  <2> DEFINE S == colors
             t == <<x.color, y.color, z.color>>
  <2>3. S = {i \in 1..3 : t[i] # None /\ NormalizeColor(t[i]) # Err}
    <3>1. \A i \in set("color") : HexColor(ids[i].color) <=> NormalizeColor(ids[i].color) # Err
      BY <1>7, PlainColors
    <3> QED BY <2>2, <3>1
  <2>4. e.me.color \in
          IF S = {} THEN {None}
          ELSE {NormalizeColor(t[i]) : i \in {j \in 1..3 : j \in S /\ \A k \in S : j <= k}}
    <3> HIDE DEF S
    <3>1. Usable(S, x.color, y.color, z.color)
      BY <1>3, <2>3 DEF Usable
    <3>2. FirstUsable(S, x.color, y.color, z.color)
      BY <3>1, ColorAsDocumented
    <3>3. S \subseteq 1..3
      BY <2>3
    <3>4. CASE S = {}
      BY <2>1, <3>2, <3>4 DEF FirstUsable
    <3>5. CASE S # {}
      <4>1. PICK i \in S : (\A j \in S : i <= j) /\ e.me.color = NormalizeColor(t[i])
        BY <2>1, <3>2, <3>5 DEF FirstUsable
      <4> QED BY <3>3, <3>5, <4>1
    <3> QED BY <3>4, <3>5
  <2>5. {NormalizeColor(ids[i].color) : i \in {j \in 1..3 : nearest(S, j)}}
        = {NormalizeColor(t[i]) : i \in {j \in 1..3 : j \in S /\ \A k \in S : j <= k}}
    <3> HIDE DEF S
    <3> QED BY <2>2
  <2> QED BY <2>4, <2>5
<1>8. CASE \A i \in set("color") : ~HasSign(ids[i].color)
  BY <1>2, <1>5, <1>7, <1>8 DEF AsDocumented, q, e, x, y, z
<1> QED BY <1>6, <1>8

\* Whatever its scopes hold, a command that goes on has merged them as config.rs
\* documents: key, name, email and colour.
THEOREM ResolvesRight == Spec => []ResolvesAsDocumented
<1>1. KeyInv /\ ResolvedInv => ResolvesAsDocumented
  <2> SUFFICES ASSUME KeyInv, ResolvedInv, NEW p \in Procs, phase[p] = "keying"
               PROVE  AsDocumented(scopes[p], eff[p])
    BY DEF ResolvesAsDocumented
  <2> QED BY MergeAsDocumented DEF ResolvedInv, KeyInv, Shapes
<1> QED BY <1>1, KeyInit, KeyNext, ResolvedAlways, PTL DEF Spec
=============================================================================
