------------------------------ MODULE Negotiation ------------------------------
(***************************************************************************)
(* How a start finds out where to connect and with which token:            *)
(* Connection.start, WebsocketTransport.negotiate and start, and the       *)
(* refresh of the token in Connection.send (connection.py, websocket.py).  *)
(*                                                                         *)
(* Transport.url and Connection.headers are shared by all of them.  The    *)
(* headers are a dictionary, which a WebSocketApp keeps a reference to     *)
(* and reads when it connects, later than it was made.  A token factory    *)
(* is registered, and negotiation is not skipped.                          *)
(***************************************************************************)
EXTENDS Naturals, Sequences

CONSTANTS
  Starters,   \* greenlets that call Connection.start, again and again
  Senders,    \* greenlets that call Connection.send
  Sockets,    \* WebSocketApp objects, which bound the starts that succeed
  MaxTokens   \* bound: tokens the factory gives

Procs == Starters \cup Senders

ASSUME NegotiationAssumption ==
  /\ Starters \cap Senders = {}
  /\ MaxTokens \in Nat

VARIABLES
  hub,      \* does the hub take connections itself, or does it redirect?
  base,     \* Connection.url
  url,      \* WebsocketTransport.url
  dicts,    \* the dictionaries that have been Connection.headers; the last is
  state,    \* WebsocketTransport.state
  pc,       \* where each greenlet waits
  sockets,  \* what each WebSocketApp was made with
  tokens,   \* tokens the factory has given
  answers,  \* negotiations that were answered
  posts,    \* history: requests to negotiate
  dials     \* history: connections that were opened

starting == <<pc, state>>
history == <<tokens, answers, posts, dials>>
vars == <<hub, base, url, dicts, starting, sockets, history>>

Hubs == {"app", "azure"}

Schemes == {"http", "https", "ws", "wss"}

Urls == [scheme : Schemes, host : Hubs, path : {"hub", "negotiate"}, id : Nat]

\* The number of an app token, or of the answer that gave an azure token.
Tokens == [from : {"app", "azure"}, n : Nat] \cup {[from |-> "none", n |-> 0]}

\* not in a call, in the token factory, in the request to negotiate.
Labels == {"idle", "token", "post"}

Unused == [status |-> "unused"]

Init ==
  /\ hub \in Hubs
  /\ base \in {[scheme |-> s, host |-> "app", path |-> "hub", id |-> 0] : s \in Schemes}
  /\ url = base
  /\ dicts = <<[from |-> "none", n |-> 0]>>
  /\ state = "disconnected"
  /\ pc = [p \in Procs |-> "idle"]
  /\ sockets = [g \in Sockets |-> Unused]
  /\ tokens = 0 /\ answers = 0 /\ posts = {} /\ dials = {}
-----------------------------------------------------------------------------
(* URLs.                                                                   *)

\* Faulty variant: a secure scheme becomes an open one.
ReplaceScheme_Open(u, ws) == [u EXCEPT !.scheme = IF ws THEN "ws" ELSE "http"]

\* _replace_scheme; a scheme that is of the kind already stays.
ReplaceScheme(u, ws) ==
  [u EXCEPT !.scheme =
     CASE ws /\ @ = "http" -> "ws"    [] ws /\ @ = "https" -> "wss"
       [] ~ws /\ @ = "ws"  -> "http"  [] ~ws /\ @ = "wss"  -> "https"
       [] OTHER -> @]

\* _get_negotiate_url
NegotiateUrl(u) == [ReplaceScheme(u, FALSE) EXCEPT !.path = "negotiate"]

\* encode_connection_id: the id takes the place of an earlier one.
EncodeId(u, id) == ReplaceScheme([u EXCEPT !.id = id], TRUE)

AzureUrl == [scheme |-> "https", host |-> "azure", path |-> "hub", id |-> 0]
-----------------------------------------------------------------------------
(* Starting.                                                               *)

Current == Len(dicts)

\* Faulty variant: a start goes on with the headers as they are.
Refreshed_Not == dicts

\* The dictionary that is Connection.headers now is updated in place.
Refreshed == [dicts EXCEPT ![Current] = [from |-> "app", n |-> tokens + 1]]

Start(p) ==
  /\ pc[p] = "idle"
  /\ tokens < MaxTokens
  /\ pc' = [pc EXCEPT ![p] = "token"]
  /\ UNCHANGED <<hub, base, url, dicts, state, sockets, history>>

\* The token is there.  Between this and the request nothing waits.
Negotiate(p) ==
  /\ pc[p] = "token"
  /\ tokens < MaxTokens
  /\ tokens' = tokens + 1
  /\ dicts' = Refreshed
  /\ posts' = posts \cup {[url |-> NegotiateUrl(base), token |-> dicts'[Current]]}
  /\ pc' = [pc EXCEPT ![p] = "post"]
  /\ UNCHANGED <<hub, base, url, state, sockets, answers, dials>>

\* Faulty variant: the azure token is put into the same dictionary.
Redirected_InPlace(token) == [dicts EXCEPT ![Current] = token]

\* Faulty variant: the headers are gone, instead of replaced.
Redirected_Gone(token) == <<>>

\* Connection.headers becomes another dictionary.
Redirected(token) == Append(dicts, token)

\* The answer names a connection, or another place and a token for it.
Answer(p) ==
  /\ pc[p] = "post"
  /\ answers' = answers + 1
  /\ \/ /\ hub = "app"
        /\ url' = EncodeId(url, answers')
        /\ UNCHANGED dicts
     \/ /\ hub = "azure"
        /\ url' = ReplaceScheme(AzureUrl, TRUE)
        /\ dicts' = Redirected([from |-> "azure", n |-> answers'])
  /\ pc' = [pc EXCEPT ![p] = "idle"]
  /\ \/ state = "connected" /\ UNCHANGED <<state, sockets>>
     \/ /\ state # "connected"
        /\ state' = "connecting"
        /\ \E g \in Sockets :
             /\ sockets[g] = Unused
             /\ sockets' = [sockets EXCEPT ![g] =
                  [status |-> "spawned", url |-> url', header |-> Len(dicts'),
                   answer |-> answers']]
  /\ UNCHANGED <<hub, base, tokens, posts, dials>>

\* The token factory or the request raises, and so does start() or send().
Raise(p) ==
  /\ pc[p] # "idle"
  /\ pc' = [pc EXCEPT ![p] = "idle"]
  /\ UNCHANGED <<hub, base, url, dicts, state, sockets, history>>

\* send() calls the factory too, for headers that only the next connection and
\* the message itself will carry; or one that is being made.
BeginSend(p) ==
  /\ pc[p] = "idle"
  /\ tokens < MaxTokens
  /\ state # "disconnected"
  /\ pc' = [pc EXCEPT ![p] = "token"]
  /\ UNCHANGED <<hub, base, url, dicts, state, sockets, history>>

Refresh(p) ==
  /\ pc[p] = "token"
  /\ tokens < MaxTokens
  /\ tokens' = tokens + 1
  /\ dicts' = [dicts EXCEPT ![Current] = [from |-> "app", n |-> tokens']]
  /\ pc' = [pc EXCEPT ![p] = "idle"]
  /\ UNCHANGED <<hub, base, url, state, sockets, answers, posts, dials>>
-----------------------------------------------------------------------------
(* WebSocketApp.                                                           *)

\* Faulty variant: the url is looked up when the socket connects.
DialedUrl_Late(g) == url

DialedUrl(g) == sockets[g].url

Dial(g) ==
  /\ sockets[g].status = "spawned"
  /\ dials' = dials \cup {[url |-> DialedUrl(g), token |-> dicts[sockets[g].header],
                           answer |-> sockets[g].answer]}
  /\ sockets' = [sockets EXCEPT ![g].status = "dialed"]
  /\ UNCHANGED <<hub, base, url, dicts, starting, tokens, answers, posts>>

\* The hub has accepted the handshake.
Accept(g) ==
  /\ sockets[g].status = "dialed"
  /\ sockets' = [sockets EXCEPT ![g].status = "open"]
  /\ state' = "connected"
  /\ UNCHANGED <<hub, base, url, dicts, pc, history>>

\* A connection is refused, closed or lost, or its greenlet killed.
End(g) ==
  /\ sockets[g].status \in {"spawned", "dialed", "open"}
  /\ sockets' = [sockets EXCEPT ![g].status = "gone"]
  /\ state' = "disconnected"
  /\ UNCHANGED <<hub, base, url, dicts, pc, history>>

Next ==
  \/ \E p \in Starters : Start(p) \/ Negotiate(p) \/ Answer(p)
  \/ \E p \in Senders : BeginSend(p) \/ Refresh(p)
  \/ \E p \in Procs : Raise(p)
  \/ \E g \in Sockets : Dial(g) \/ Accept(g) \/ End(g)

Spec == Init /\ [][Next]_vars
-----------------------------------------------------------------------------
(* Properties. *)

SocketRecords ==
  {Unused} \cup
  [status : {"spawned", "dialed", "open", "gone"}, url : Urls, header : 1..Len(dicts),
   answer : 1..answers]

\* Every variable keeps to its type; a WebSocketApp refers to a dictionary that
\* has been Connection.headers.
TypeOK ==
  /\ hub \in Hubs
  /\ base \in Urls /\ url \in Urls
  /\ dicts \in Seq(Tokens) /\ dicts # <<>>
  /\ state \in {"connecting", "connected", "disconnected"}
  /\ pc \in [Procs -> Labels]
  /\ sockets \in [Sockets -> SocketRecords]
  /\ tokens \in 0..MaxTokens
  /\ answers \in Nat
  /\ posts \subseteq [url : Urls, token : Tokens]
  /\ dials \subseteq [url : Urls, token : Tokens, answer : 1..answers]

Secure(u) == u.scheme \in {"https", "wss"}

\* A socket connects to what the answer to its own negotiation named, and as
\* securely as the application asked, whatever other starts negotiate before
\* it gets to connect.  So no connection id is ever used twice.
OwnAnswer ==
  \A d \in dials :
    /\ d.url.host = hub
    /\ d.url.scheme = IF Secure(IF hub = "app" THEN base ELSE AzureUrl) THEN "wss" ELSE "ws"
    /\ d.url.id = IF hub = "app" THEN d.answer ELSE 0

\* The token a socket shows is the one of its own redirect or one of the
\* application, never one that another start was redirected with.
OwnToken == \A d \in dials : d.token.from = "azure" => d.token.n = d.answer

\* The application's hub is asked over HTTP and with a token of the application,
\* also when an earlier answer has put another token into the headers.
NegotiatesAsItself ==
  \A r \in posts :
    /\ r.url = [scheme |-> IF Secure(base) THEN "https" ELSE "http", host |-> "app",
                path |-> "negotiate", id |-> 0]
    /\ r.token.from = "app"
===============================================================================
