---------------------------- MODULE TokenSource ----------------------------
(* handlers/docker/token.go with platform/docker/capabilities.go: requests *)
(* to a registry that asks for a token, and the table of tokens they       *)
(* share.  One repository; a token is the realm that issued it.  A request *)
(* works with the configuration it came with, and tokens(cfg) makes a new  *)
(* source when it is asked for another one than the last.                  *)
EXTENDS Naturals

CONSTANTS Requests,
          MaxRealm,    \* how often the registry names another token service
          MaxCfg,      \* how often an administrator changes the upstream
          MaxMute      \* how often a refusal names no token service

VARIABLES
  src,       \* DockerPlatform.src: [gen, cfg, realm, token]
  req,       \* per request: [pc, cfg, gen, realm, token, again]
  realm,     \* the realm the registry accepts tokens of
  cfg,       \* the configuration
  mute,
  disturbed  \* history: the requests during which something changed

vars == <<src, req, realm, cfg, mute, disturbed>>

Nil == 0
Realms == 1..MaxRealm
Over == {"new", "ok", "failed", "refused"}
Active == {r \in Requests : req[r].pc \notin Over}

Init ==
  /\ src = [gen |-> 0, cfg |-> Nil, realm |-> Nil, token |-> Nil]
  /\ req = [r \in Requests |-> [pc |-> "new", cfg |-> Nil, gen |-> 0, realm |-> Nil,
                                token |-> Nil, again |-> FALSE]]
  /\ realm = 1 /\ cfg = 1 /\ mute = 0 /\ disturbed = {}

(* tokens(cfg), under authMu: the source of the last configuration asked for *)
SourceFor(c) ==
  IF src.cfg = c THEN src
  ELSE [gen |-> src.gen + 1, cfg |-> c, realm |-> Nil, token |-> Nil]

Begin(r) ==
  /\ req[r].pc = "new"
  /\ req' = [req EXCEPT ![r].pc = "inject", ![r].cfg = cfg]
  /\ UNCHANGED <<src, realm, cfg, mute, disturbed>>

(* InjectUpstreamAuth and the locked part of Bearer: anonymous without a   *)
(* realm, the token of the table, or one to be fetched                     *)
Inject(r) ==
  LET s == SourceFor(req[r].cfg)
  IN /\ req[r].pc = "inject"
     /\ src' = s
     /\ req' = [req EXCEPT ![r] = [@ EXCEPT
          !.pc = IF s.realm # Nil /\ s.token = Nil THEN "fetch" ELSE "send",
          !.gen = s.gen, !.realm = s.realm, !.token = s.token]]
     \* somebody else's configuration has thrown the source away, or will
     /\ disturbed' = IF s.gen # src.gen THEN disturbed \cup Active ELSE disturbed
     /\ UNCHANGED <<realm, cfg, mute>>

(* The rest of Bearer: the token service answers, or fails, and an index   *)
(* that was refused once is answered as refused ...                        *)
Fetch(r) ==
  /\ req[r].pc = "fetch"
  /\ \/ /\ req' = [req EXCEPT ![r].pc = "store", ![r].token = req[r].realm]
        /\ UNCHANGED disturbed
     \/ /\ req' = [req EXCEPT ![r].pc = "failed"]
        /\ UNCHANGED disturbed
     \/ /\ req[r].again
        /\ req' = [req EXCEPT ![r].pc = "refused"]
        /\ disturbed' = disturbed \cup {r}
  /\ UNCHANGED <<src, realm, cfg, mute>>

(* ... and the token goes into the table of the source it was asked of,    *)
(* whatever has happened to that meanwhile                                 *)
Store(r) ==
  /\ req[r].pc = "store"
  /\ src' = IF req[r].gen = src.gen THEN [src EXCEPT !.token = req[r].token] ELSE src
  /\ req' = [req EXCEPT ![r].pc = "send"]
  /\ disturbed' = IF req[r].token = src.realm THEN disturbed ELSE disturbed \cup Active
  /\ UNCHANGED <<realm, cfg, mute>>

(* The realm that a refusal names, Nil for one without a challenge that    *)
(* can be read                                                             *)
ParseBearerChallenge(readable) == IF readable THEN realm ELSE Nil

(* The upstream request *)
Send(r) ==
  /\ req[r].pc = "send"
  /\ IF req[r].token = realm
     THEN req' = [req EXCEPT ![r].pc = "ok"] /\ UNCHANGED <<mute, disturbed>>
     ELSE IF req[r].again
     THEN req' = [req EXCEPT ![r].pc = "refused"] /\ UNCHANGED <<mute, disturbed>>
     ELSE \/ /\ req' = [req EXCEPT ![r].pc = "challenged",
                                    ![r].realm = ParseBearerChallenge(TRUE)]
             /\ UNCHANGED <<mute, disturbed>>
          \/ /\ mute < MaxMute /\ mute' = mute + 1
             /\ req' = [req EXCEPT ![r].pc = "challenged",
                                    ![r].realm = ParseBearerChallenge(FALSE)]
             /\ disturbed' = disturbed \cup {r}
  /\ UNCHANGED <<src, realm, cfg>>

(* Mutant: a new challenge leaves the token of the old one in the table *)
InvalidateKeeping(r) ==
  LET s == SourceFor(req[r].cfg)
      c == req[r].realm
  IN /\ req[r].pc = "challenged"
     /\ src' = [s EXCEPT !.realm = IF c = Nil THEN @ ELSE c]
     /\ req' = [req EXCEPT ![r].pc = "inject", ![r].again = TRUE]
     /\ disturbed' = IF s.gen # src.gen \/ c # realm THEN disturbed \cup Active
                     ELSE disturbed
     /\ UNCHANGED <<realm, cfg, mute>>

(* InvalidateUpstreamAuth: ApplyChallenge empties the table; without a     *)
(* challenge Invalidate forgets the token of the repository                *)
Invalidate(r) ==
  LET s == SourceFor(req[r].cfg)
      c == req[r].realm
  IN /\ req[r].pc = "challenged"
     /\ src' = [s EXCEPT !.realm = IF c = Nil THEN @ ELSE c, !.token = Nil]
     /\ req' = [req EXCEPT ![r].pc = "inject", ![r].again = TRUE]
     \* an old challenge that overwrites a newer one
     /\ disturbed' = IF s.gen # src.gen \/ c # realm THEN disturbed \cup Active
                     ELSE disturbed
     /\ UNCHANGED <<realm, cfg, mute>>

-----------------------------------------------------------------------------
(* Environment: another token service, another upstream, time *)
ChangeRealm ==
  /\ realm < MaxRealm /\ realm' = realm + 1
  /\ disturbed' = disturbed \cup Active
  /\ UNCHANGED <<src, req, cfg, mute>>

PutConfig ==
  /\ cfg < MaxCfg /\ cfg' = cfg + 1
  /\ UNCHANGED <<src, req, realm, mute, disturbed>>

Expire ==
  /\ src.token # Nil
  /\ src' = [src EXCEPT !.token = Nil]
  /\ UNCHANGED <<req, realm, cfg, mute, disturbed>>

Step(r) == Begin(r) \/ Inject(r) \/ Fetch(r) \/ Store(r) \/ Send(r) \/ Invalidate(r)
Next == (\E r \in Requests : Step(r)) \/ ChangeRealm \/ PutConfig \/ Expire

Spec == Init /\ [][Next]_vars
Fairness == \A r \in Requests : WF_vars(Step(r))

-----------------------------------------------------------------------------
(* Properties *)

TypeOK ==
  /\ src \in [gen : Nat, cfg : 0..MaxCfg, realm : 0..MaxRealm, token : 0..MaxRealm]
  /\ req \in [Requests -> [pc : Over \cup {"inject", "fetch", "store", "send", "challenged"},
                           cfg : 0..MaxCfg, gen : Nat, realm : 0..MaxRealm,
                           token : 0..MaxRealm, again : BOOLEAN]]
  /\ realm \in Realms /\ cfg \in 1..MaxCfg /\ mute \in 0..MaxMute
  /\ disturbed \subseteq Requests

(* One renewal is enough: a request is answered as refused only if, while  *)
(* it was on its way, the token service failed, the registry changed it    *)
(* or named none, the source was replaced, or somebody stored a token, or  *)
(* applied a challenge, of an older one.  What others had left before it   *)
(* began, a stale token or a stale realm, never costs it its answer.       *)
RefusedOnlyIfDisturbed ==
  \A r \in Requests : req[r].pc = "refused" => r \in disturbed
=============================================================================
