----------------------------- MODULE Admission -----------------------------
(***************************************************************************)
(* Who is let in: the decision of authMiddleware (internal/api/            *)
(* middleware.go) for a request and the methods of authentication that are *)
(* configured.  A request is abstracted to what the decision looks at.     *)
(***************************************************************************)

Path == {"open",     \* health, robots, assets, uploads, callbacks, login, OAuth
         "mcp", "media", "page"}

(* The methods of authentication. *)
Config == [token : BOOLEAN, basic : BOOLEAN, local : BOOLEAN]

(* key, oauth, basic and session: what the request presents is right.  kind: *)
(* what it asks for or sends.  greeting: all of its MCP methods are those    *)
(* anybody may call.  signed: its media URL is signed and has not expired.   *)
Call ==
  [path : Path, get : BOOLEAN, kind : {"html", "form", "json", "other"},
   greeting : BOOLEAN, signed : BOOLEAN,
   key : BOOLEAN, oauth : BOOLEAN, basic : BOOLEAN, session : BOOLEAN]

(* isLocalAuthPublicPath and the paths beside it. *)
OpenPath(q) == q.path = "open"

(* mcpAllowsAnonymousRequest. *)
Greets(q) == q.path = "mcp" /\ ~q.get /\ q.greeting

(* parseMediaContentPath, signedMediaAccessAllowed. *)
ReadsMedia(cfg, q) == q.path = "media" /\ (q.signed \/ (cfg.local /\ q.session))

(* requestCanUseLocalSession: JSON counts, except for MCP. *)
MayUseSession(q) ==
  \/ q.kind \in {"html", "form"}
  \/ q.kind = "json" /\ q.path # "mcp"

Presents(cfg, q) ==
  \/ cfg.token /\ q.key
  \/ q.path = "mcp" /\ q.oauth
  \/ cfg.basic /\ q.basic
  \/ cfg.local /\ MayUseSession(q) /\ q.session

(* What a request that is not let in is told. *)
Refusal(cfg, q) ==
  IF cfg.local /\ MayUseSession(q) THEN "login"
  ELSE IF q.path = "mcp" THEN "bearer"
  ELSE IF cfg.basic THEN "basic"
  ELSE "unauthorized"

(* Mutant: the session is looked at first. *)
AdmitSessionFirst(cfg, q) ==
  IF ~cfg.token /\ ~cfg.basic /\ ~cfg.local THEN "pass"
  ELSE IF OpenPath(q) \/ Greets(q) \/ ReadsMedia(cfg, q) THEN "pass"
  ELSE IF cfg.local /\ MayUseSession(q) THEN IF q.session THEN "pass" ELSE "login"
  ELSE IF Presents(cfg, q) THEN "pass" ELSE Refusal(cfg, q)

Admit(cfg, q) ==
  IF ~cfg.token /\ ~cfg.basic /\ ~cfg.local THEN "pass"
  ELSE IF OpenPath(q) \/ Greets(q) \/ ReadsMedia(cfg, q) \/ Presents(cfg, q) THEN "pass"
  ELSE Refusal(cfg, q)

Credential == {"key", "oauth", "basic", "session"}
With(q, k) == [q EXCEPT ![k] = TRUE]

(* With a credential more, or with a method more once one is configured,     *)
(* whoever was let in still is.                                              *)
CredentialHelps ==
  [k \in Credential |->
    \A cfg \in Config, q \in Call : Admit(cfg, q) = "pass" => Admit(cfg, With(q, k)) = "pass"]

Method == {"token", "basic", "local"}
NoMethod == [token |-> FALSE, basic |-> FALSE, local |-> FALSE]

MethodHelps ==
  [k \in Method |->
    \A cfg \in Config \ {NoMethod}, q \in Call :
      Admit(cfg, q) = "pass" => Admit([cfg EXCEPT ![k] = TRUE], q) = "pass"]
=============================================================================
