---------------------------- MODULE HTTPPrepare ----------------------------
(***************************************************************************)
(* prepareRequest and getToken (src/probes/http/request.go).              *)
(*                                                                         *)
(* The probe builds one request per target and hands that same template   *)
(* to every attempt; attempts run concurrently (several Callers).  An     *)
(* attempt prepares the request (prepareRequest, one step, the token      *)
(* source's Token() included) and later sends it, which reads its         *)
(* Authorization header and drains its body.  Requests are objects: the  *)
(* template "tmpl" and one clone slot per caller, so that sharing the      *)
(* template instead of cloning it is visible.                             *)
(***************************************************************************)
EXTENDS Naturals, Sequences, FiniteSets

CONSTANTS
    Callers,     \* concurrent probe attempts on one target
    Tokens,      \* non-empty token strings the token source may hold
    MaxCalls,    \* attempts per caller explored
    MaxRefresh,  \* token source refreshes explored
    NoToken,     \* model value: Extra("id_token") is not a string
    Missing,     \* model value: the "<token-missing>" placeholder
    TokenErr     \* model value: ts.Token() returned an error

Objs == {"tmpl"} \cup Callers

\* What ts.Token() may return: an error, or a token with an access token
\* ("" if none) and an id_token extra.
Sources == {TokenErr} \cup [access : {""} \cup Tokens, id : {NoToken} \cup Tokens]

NoAuth == "none"

VARIABLES
    UseOAuth,   \* p.oauthTS != nil (fixed for the probe's lifetime)
    Buffered,   \* p.requestBody.Buffered() (fixed for the probe's lifetime)
    src,        \* what the token source's Token() returns now
    refreshes,  \* token source refreshes so far
    auth,       \* obj -> its Authorization header value (a token, Missing or NoAuth)
    body,       \* obj -> the body reader it holds
    readers,    \* body readers created so far (reader 0 is the template's)
    drained,    \* readers the transport has read to the end
    pc,         \* caller -> "idle" | "prepared"
    ref,        \* caller -> the object prepareRequest returned
    tok,        \* caller -> the token its prepareRequest obtained
    calls,      \* caller -> attempts started
    sent        \* requests sent: [tok, auth, fresh]

opts == <<UseOAuth, Buffered>>
vars == <<opts, src, refreshes, auth, body, readers, drained, pc, ref, tok, calls, sent>>

-----------------------------------------------------------------------------
\* Mutant: the id_token type assertion's ok is ignored, so a token with
\* neither yields "" and no error.
getTokenIgnoreOk(s) ==
    CASE s = TokenErr       -> TokenErr
      [] s.access # ""      -> s.access
      [] s.id # NoToken     -> s.id
      [] OTHER              -> ""

\* getToken: the access token, else a string id_token, else an error.
getToken(s) ==
    CASE s = TokenErr       -> TokenErr
      [] s.access # ""      -> s.access
      [] s.id # NoToken     -> s.id
      [] OTHER              -> TokenErr

\* The Authorization value prepareRequest sets: "<token-missing>" on error.
AuthValue(s) == IF getToken(s) = TokenErr THEN Missing ELSE getToken(s)

Init ==
    /\ UseOAuth \in BOOLEAN
    /\ Buffered \in BOOLEAN
    /\ src \in Sources
    /\ refreshes = 0
    /\ auth = [o \in Objs |-> NoAuth]
    /\ body = [o \in Objs |-> 0]
    /\ readers = 1
    /\ drained = {}
    /\ pc = [c \in Callers |-> "idle"]
    /\ ref = [c \in Callers |-> "tmpl"]
    /\ tok = [c \in Callers |-> NoAuth]
    /\ calls = [c \in Callers |-> 0]
    /\ sent = {}

\* Mutant: the request is cloned only for a buffered body, so the token is
\* set on the shared template otherwise.
PrepareCloneOnlyBuffered(c) ==
    /\ pc[c] = "idle"
    /\ calls[c] < MaxCalls
    /\ calls' = [calls EXCEPT ![c] = @ + 1]
    /\ pc' = [pc EXCEPT ![c] = "prepared"]
    /\ tok' = [tok EXCEPT ![c] = IF UseOAuth THEN AuthValue(src) ELSE NoAuth]
    /\ IF ~Buffered
       THEN /\ ref' = [ref EXCEPT ![c] = "tmpl"]
            /\ auth' = IF UseOAuth THEN [auth EXCEPT !["tmpl"] = AuthValue(src)] ELSE auth
            /\ UNCHANGED <<body, readers>>
       ELSE /\ ref' = [ref EXCEPT ![c] = c]
            /\ auth' = [auth EXCEPT ![c] = IF UseOAuth THEN AuthValue(src) ELSE auth["tmpl"]]
            /\ body' = [body EXCEPT ![c] = readers]
            /\ readers' = readers + 1
    /\ UNCHANGED <<opts, src, refreshes, drained, sent>>

\* Mutant: the clone keeps the template's body reader.
PrepareSharedBody(c) ==
    /\ pc[c] = "idle"
    /\ calls[c] < MaxCalls
    /\ calls' = [calls EXCEPT ![c] = @ + 1]
    /\ pc' = [pc EXCEPT ![c] = "prepared"]
    /\ IF ~UseOAuth /\ ~Buffered
       THEN /\ ref' = [ref EXCEPT ![c] = "tmpl"]
            /\ tok' = [tok EXCEPT ![c] = NoAuth]
            /\ UNCHANGED <<auth, body, readers>>
       ELSE /\ ref' = [ref EXCEPT ![c] = c]
            /\ tok' = [tok EXCEPT ![c] = IF UseOAuth THEN AuthValue(src) ELSE NoAuth]
            /\ auth' = [auth EXCEPT ![c] = IF UseOAuth THEN AuthValue(src) ELSE auth["tmpl"]]
            /\ body' = [body EXCEPT ![c] = body["tmpl"]]
            /\ UNCHANGED readers
    /\ UNCHANGED <<opts, src, refreshes, drained, sent>>

\* prepareRequest: the template itself when there is neither an OAuth
\* token source nor a buffered body; otherwise a clone (req.Clone copies
\* the headers) given its own Authorization header and its own body reader.
Prepare(c) ==
    /\ pc[c] = "idle"
    /\ calls[c] < MaxCalls
    /\ calls' = [calls EXCEPT ![c] = @ + 1]
    /\ pc' = [pc EXCEPT ![c] = "prepared"]
    /\ IF ~UseOAuth /\ ~Buffered
       THEN /\ ref' = [ref EXCEPT ![c] = "tmpl"]
            /\ tok' = [tok EXCEPT ![c] = NoAuth]
            /\ UNCHANGED <<auth, body, readers>>
       ELSE /\ ref' = [ref EXCEPT ![c] = c]
            /\ tok' = [tok EXCEPT ![c] = IF UseOAuth THEN AuthValue(src) ELSE NoAuth]
            /\ auth' = [auth EXCEPT ![c] = IF UseOAuth THEN AuthValue(src) ELSE auth["tmpl"]]
            /\ IF Buffered
               THEN /\ body' = [body EXCEPT ![c] = readers]
                    /\ readers' = readers + 1
               ELSE /\ body' = [body EXCEPT ![c] = body["tmpl"]]
                    /\ UNCHANGED readers
    /\ UNCHANGED <<opts, src, refreshes, drained, sent>>

\* The attempt sends the prepared request (client.Do): the transport writes
\* its Authorization header and drains its body.
Do(c) ==
    /\ pc[c] = "prepared"
    /\ LET o == ref[c] IN
       /\ sent' = sent \cup {[tok   |-> tok[c],
                              auth  |-> auth[o],
                              fresh |-> ~Buffered \/ body[o] \notin drained]}
       /\ drained' = IF Buffered THEN drained \cup {body[o]} ELSE drained
    /\ pc' = [pc EXCEPT ![c] = "idle"]
    /\ UNCHANGED <<opts, src, refreshes, auth, body, readers, ref, tok, calls>>

\* The token source refreshes (or starts failing) between attempts.
Refresh ==
    /\ refreshes < MaxRefresh
    /\ refreshes' = refreshes + 1
    /\ src' \in Sources \ {src}
    /\ UNCHANGED <<opts, auth, body, readers, drained, pc, ref, tok, calls, sent>>

\* Every attempt has finished.
Finished ==
    /\ \A c \in Callers : pc[c] = "idle" /\ calls[c] = MaxCalls
    /\ UNCHANGED vars

Next ==
    \/ \E c \in Callers : Prepare(c) \/ Do(c)
    \/ Refresh
    \/ Finished

Spec == Init /\ [][Next]_vars

-----------------------------------------------------------------------------
TypeOK ==
    /\ opts \in BOOLEAN \X BOOLEAN
    /\ src \in Sources
    /\ auth \in [Objs -> Tokens \cup {Missing, NoAuth}]
    /\ body \in [Objs -> 0..readers - 1]
    /\ drained \subseteq 0..readers - 1
    /\ pc \in [Callers -> {"idle", "prepared"}]
    /\ ref \in [Callers -> Objs]
    /\ tok \in [Callers -> Tokens \cup {Missing, NoAuth}]
    /\ sent \subseteq [tok : Tokens \cup {Missing, NoAuth},
                       auth : Tokens \cup {Missing, NoAuth}, fresh : BOOLEAN]

\* Every request is sent with the Authorization header its own
\* prepareRequest obtained from the token source, even when another attempt
\* prepared a request (with a newer token) in between.
SentWithOwnToken == \A s \in sent : s.auth = s.tok

\* A buffered body is never sent after the transport drained it for an
\* earlier attempt: every attempt gets a fresh reader.
BodyNeverReused == \A s \in sent : s.fresh
====
