--------------------------- MODULE NegotiationProofs ---------------------------
(***************************************************************************)
(* Every socket connects to the answer of its own negotiation and with no  *)
(* token of another: proofs for any number of starts, sends and sockets.   *)
(***************************************************************************)
EXTENDS Negotiation, TLAPS

Used(g) == sockets[g].status # "unused"

\* The url a negotiation starts from is the application's, but for its id and
\* the kind of its scheme; unless every answer redirects.
UrlFits ==
  /\ base.host = "app" /\ base.path = "hub" /\ base.id = 0
  /\ hub = "app" => url.host = "app" /\ (Secure(url) <=> Secure(base))

\* Where the answer with this number sends a socket.
Place(u, answer) ==
  /\ u.host = hub
  /\ u.scheme = IF Secure(IF hub = "app" THEN base ELSE AzureUrl) THEN "wss" ELSE "ws"
  /\ u.id = IF hub = "app" THEN answer ELSE 0

\* A socket that has not connected yet will do it as it should: its url is its
\* own, and in its dictionary is the token of its own redirect, until one of
\* the application takes the place.
SocketsFit ==
  \A g \in Sockets : Used(g) =>
    /\ Place(sockets[g].url, sockets[g].answer)
    /\ dicts[sockets[g].header].from = "azure" =>
         dicts[sockets[g].header].n = sockets[g].answer

\* Azure tokens come with redirects only.
NoRedirects == hub = "app" => \A i \in 1..Len(dicts) : dicts[i].from # "azure"

IInv ==
  TypeOK /\ UrlFits /\ NoRedirects /\ SocketsFit /\ OwnAnswer /\ OwnToken
    /\ NegotiatesAsItself
-----------------------------------------------------------------------------
LEMMA SchemeReplaced ==
  ASSUME NEW u \in Urls, NEW ws \in BOOLEAN
  PROVE  /\ ReplaceScheme(u, ws) \in Urls
         /\ ReplaceScheme(u, ws).host = u.host
         /\ ReplaceScheme(u, ws).path = u.path
         /\ ReplaceScheme(u, ws).id = u.id
         /\ ReplaceScheme(u, ws).scheme =
              IF ws THEN (IF Secure(u) THEN "wss" ELSE "ws")
              ELSE (IF Secure(u) THEN "https" ELSE "http")
  BY DEF ReplaceScheme, Urls, Schemes, Secure

LEMMA IdEncoded ==
  ASSUME NEW u \in Urls, NEW id \in Nat
  PROVE  /\ EncodeId(u, id) \in Urls
         /\ EncodeId(u, id).host = u.host
         /\ EncodeId(u, id).id = id
         /\ EncodeId(u, id).scheme = IF Secure(u) THEN "wss" ELSE "ws"
  <1> DEFINE v == [u EXCEPT !.id = id]
  <1>1. v \in Urls /\ v.host = u.host /\ v.id = id /\ v.scheme = u.scheme
    BY DEF Urls
  <1>2. QED
    BY <1>1, SchemeReplaced DEF EncodeId, Secure

LEMMA AzureReplaced ==
  /\ ReplaceScheme(AzureUrl, TRUE) \in Urls
  /\ ReplaceScheme(AzureUrl, TRUE).host = "azure"
  /\ ReplaceScheme(AzureUrl, TRUE).id = 0
  /\ ReplaceScheme(AzureUrl, TRUE).scheme = "wss" /\ Secure(AzureUrl)
  <1>1. AzureUrl \in Urls /\ AzureUrl.host = "azure" /\ AzureUrl.id = 0 /\ Secure(AzureUrl)
    BY DEF AzureUrl, Urls, Schemes, Hubs, Secure
  <1>2. QED
    BY <1>1, SchemeReplaced

\* The request goes to the url of the application.
LEMMA Requested ==
  ASSUME TypeOK, UrlFits
  PROVE  /\ NegotiateUrl(base) \in Urls
         /\ NegotiateUrl(base) = [scheme |-> IF Secure(base) THEN "https" ELSE "http",
                                  host |-> "app", path |-> "negotiate", id |-> 0]
  <1>1. /\ ReplaceScheme(base, FALSE) \in Urls
        /\ ReplaceScheme(base, FALSE).host = "app"
        /\ ReplaceScheme(base, FALSE).id = 0
        /\ ReplaceScheme(base, FALSE).scheme = IF Secure(base) THEN "https" ELSE "http"
    BY SchemeReplaced DEF TypeOK, UrlFits
  <1>2. ASSUME NEW u \in Urls
        PROVE  [u EXCEPT !.path = "negotiate"]
                 = [scheme |-> u.scheme, host |-> u.host, path |-> "negotiate", id |-> u.id]
    BY DEF Urls
  <1>3. NegotiateUrl(base) = [scheme |-> IF Secure(base) THEN "https" ELSE "http",
                              host |-> "app", path |-> "negotiate", id |-> 0]
    BY <1>1, <1>2 DEF NegotiateUrl
  <1>4. QED
    BY <1>3 DEF Urls, Schemes, Hubs

LEMMA InitIInv == Init => IInv
  <1> SUFFICES ASSUME Init PROVE IInv
    OBVIOUS
  <1>1. base \in Urls /\ base.host = "app" /\ base.path = "hub" /\ base.id = 0
    BY DEF Init, Urls, Hubs
  <1>2. dicts \in Seq(Tokens) /\ dicts # <<>>
    BY DEF Init, Tokens
  <1>3. sockets \in [Sockets -> SocketRecords] /\ \A g \in Sockets : ~Used(g)
    BY DEF Init, SocketRecords, Unused, Used
  <1>4. TypeOK
    BY <1>1, <1>2, <1>3, NegotiationAssumption DEF Init, TypeOK, Labels
  <1>5. QED
    BY <1>1, <1>3, <1>4
       DEF Init, IInv, UrlFits, NoRedirects, SocketsFit, OwnAnswer, OwnToken,
           NegotiatesAsItself

\* An update of the dictionary that is current puts an app token there.
LEMMA Updated ==
  ASSUME TypeOK, SocketsFit, NoRedirects, NEW n \in Nat, UNCHANGED <<hub, base, sockets, answers>>,
         dicts' = [dicts EXCEPT ![Current] = [from |-> "app", n |-> n]]
  PROVE  /\ dicts' \in Seq(Tokens) /\ dicts' # <<>> /\ Len(dicts') = Len(dicts)
         /\ sockets' \in [Sockets -> SocketRecords'] /\ SocketsFit' /\ NoRedirects'
         /\ dicts'[Current] = [from |-> "app", n |-> n]
  <1>1. /\ dicts \in Seq(Tokens) /\ Current \in 1..Len(dicts)
        /\ [from |-> "app", n |-> n] \in Tokens
    BY DEF TypeOK, Current, Tokens
  <1>2. /\ dicts' \in Seq(Tokens) /\ Len(dicts') = Len(dicts) /\ dicts' # <<>>
        /\ dicts'[Current] = [from |-> "app", n |-> n]
        /\ \A i \in 1..Len(dicts) : dicts'[i] = dicts[i] \/ dicts'[i].from = "app"
    BY <1>1
  <1>3. SocketRecords' = SocketRecords
    BY <1>2 DEF SocketRecords
  <1>4. ASSUME NEW g \in Sockets, Used(g)
        PROVE  sockets[g].header \in 1..Len(dicts)
    BY <1>4 DEF TypeOK, SocketRecords, Unused, Used
  <1>5. SocketsFit'
    <2> SUFFICES ASSUME NEW g \in Sockets, Used(g)
                 PROVE  /\ Place(sockets[g].url, sockets[g].answer)'
                        /\ dicts'[sockets[g].header].from = "azure" =>
                             dicts'[sockets[g].header].n = sockets[g].answer
      BY DEF SocketsFit, Used
    <2>1. Place(sockets[g].url, sockets[g].answer)'
      BY DEF SocketsFit, Place
    <2>2. QED
      BY <1>2, <1>4, <2>1 DEF SocketsFit
  <1>6. NoRedirects'
    BY <1>2 DEF NoRedirects
  <1>7. QED
    BY <1>2, <1>3, <1>5, <1>6 DEF TypeOK

\* The answer, and the socket that is made for it.
LEMMA AnswerStep ==
  ASSUME IInv, NEW p \in Starters, Answer(p)
  PROVE  IInv'
  <1> DEFINE n == answers + 1
  <1>1. /\ n \in Nat /\ n \in 1..n /\ answers' = n /\ p \in Procs
        /\ UNCHANGED <<hub, base, tokens, posts, dials>> /\ pc' = [pc EXCEPT ![p] = "idle"]
    BY DEF Answer, IInv, TypeOK, Procs
  <1>2. /\ url' \in Urls /\ url'.host = hub
        /\ url'.id = IF hub = "app" THEN n ELSE 0
        /\ url'.scheme = IF Secure(IF hub = "app" THEN base ELSE AzureUrl) THEN "wss" ELSE "ws"
    <2>1. CASE hub = "app" /\ url' = EncodeId(url, n)
      BY <1>1, <2>1, IdEncoded DEF IInv, TypeOK, UrlFits
    <2>2. CASE hub = "azure" /\ url' = ReplaceScheme(AzureUrl, TRUE)
      BY <2>2, AzureReplaced
    <2>3. QED
      BY <1>1, <2>1, <2>2 DEF Answer
  <1>3. /\ dicts' \in Seq(Tokens) /\ dicts' # <<>> /\ Len(dicts') >= Len(dicts)
        /\ \A i \in 1..Len(dicts) : dicts'[i] = dicts[i]
        /\ Len(dicts') \in 1..Len(dicts')
        /\ dicts'[Len(dicts')] = IF hub = "app" THEN dicts[Len(dicts)]
                                 ELSE [from |-> "azure", n |-> n]
    <2>1. dicts \in Seq(Tokens) /\ dicts # <<>> /\ hub \in {"app", "azure"}
      BY DEF IInv, TypeOK, Hubs
    <2>2. CASE hub = "app" /\ dicts' = dicts
      BY <2>1, <2>2
    <2>3. CASE hub = "azure" /\ dicts' = Append(dicts, [from |-> "azure", n |-> n])
      <3>1. [from |-> "azure", n |-> n] \in Tokens
        BY <1>1 DEF Tokens
      <3>2. QED
        BY <2>1, <2>3, <3>1
    <2>4. QED
      BY <1>1, <2>2, <2>3 DEF Answer, Redirected
  <1>4. dicts'[Len(dicts')].from = "azure" => dicts'[Len(dicts')].n = n
    BY <1>3 DEF IInv, TypeOK, NoRedirects
  <1>5. NoRedirects' /\ UrlFits'
    BY <1>1, <1>2 DEF Answer, IInv, NoRedirects, UrlFits, Secure
  <1>6. \A r \in SocketRecords : r \in SocketRecords'
    BY <1>1, <1>3 DEF SocketRecords, IInv, TypeOK
  <1>7. ASSUME NEW g \in Sockets, Used(g)
        PROVE  sockets[g].header \in 1..Len(dicts)
    BY <1>7 DEF IInv, TypeOK, SocketRecords, Unused, Used
  <1>8. sockets' \in [Sockets -> SocketRecords'] /\ SocketsFit'
    <2>1. CASE sockets' = sockets
      <3>1. SocketsFit'
        <4> SUFFICES ASSUME NEW g \in Sockets, Used(g)
                     PROVE  /\ Place(sockets[g].url, sockets[g].answer)'
                            /\ dicts'[sockets[g].header].from = "azure" =>
                                 dicts'[sockets[g].header].n = sockets[g].answer
          BY <2>1 DEF SocketsFit, Used
        <4>1. Place(sockets[g].url, sockets[g].answer)'
          BY <1>1, <2>1 DEF IInv, SocketsFit, Place
        <4>2. QED
          BY <1>3, <1>7, <4>1 DEF IInv, SocketsFit
      <3>2. QED
        BY <1>6, <2>1, <3>1 DEF IInv, TypeOK
    <2>2. CASE sockets' # sockets
      <3>1. PICK g \in Sockets :
              /\ sockets[g] = Unused
              /\ sockets' = [sockets EXCEPT ![g] =
                   [status |-> "spawned", url |-> url', header |-> Len(dicts'),
                    answer |-> n]]
        BY <1>1, <2>2 DEF Answer
      <3>2. [status |-> "spawned", url |-> url', header |-> Len(dicts'), answer |-> n]
              \in SocketRecords'
        BY <1>1, <1>2, <1>3 DEF SocketRecords
      <3>3. sockets' \in [Sockets -> SocketRecords']
        BY <1>6, <3>1, <3>2 DEF IInv, TypeOK
      <3>4. SocketsFit'
        <4> SUFFICES ASSUME NEW h \in Sockets, Used(h)'
                     PROVE  /\ Place(sockets[h].url, sockets[h].answer)'
                            /\ dicts'[sockets'[h].header].from = "azure" =>
                                 dicts'[sockets'[h].header].n = sockets'[h].answer
          BY DEF SocketsFit
        <4>1. CASE h = g
          BY <1>1, <1>2, <1>4, <3>1, <4>1 DEF Place, IInv, TypeOK
        <4>2. CASE h # g
          <5>1. sockets'[h] = sockets[h] /\ Used(h)
            BY <3>1, <4>2 DEF Used
          <5>2. Place(sockets[h].url, sockets[h].answer)'
            BY <1>1, <5>1 DEF IInv, SocketsFit, Place
          <5>3. QED
            BY <1>3, <1>7, <5>1, <5>2 DEF IInv, SocketsFit
        <4>3. QED
          BY <4>1, <4>2
      <3>5. QED
        BY <3>3, <3>4
    <2>3. QED
      BY <2>1, <2>2
  <1>9. OwnAnswer' /\ OwnToken' /\ NegotiatesAsItself'
    BY <1>1 DEF IInv, OwnAnswer, OwnToken, NegotiatesAsItself, Secure
  <1>10. TypeOK'
    <2>1. \A d \in dials : d \in [url : Urls, token : Tokens, answer : 1..n]
      BY <1>1 DEF IInv, TypeOK
    <2>2. state' \in {"connecting", "connected", "disconnected"}
      BY DEF Answer, IInv, TypeOK
    <2>3. QED
      BY <1>1, <1>2, <1>3, <1>8, <2>1, <2>2 DEF IInv, TypeOK, Labels
  <1>11. QED
    BY <1>5, <1>8, <1>9, <1>10 DEF IInv

\* A greenlet that waits elsewhere, and nothing else.
LEMMA Waits ==
  ASSUME IInv, NEW p \in Procs, NEW label \in Labels, pc' = [pc EXCEPT ![p] = label],
         UNCHANGED <<hub, base, url, dicts, state, sockets, history>>
  PROVE  IInv'
  BY DEF IInv, TypeOK, history, SocketRecords, UrlFits, NoRedirects, SocketsFit, Used,
         Place, OwnAnswer, OwnToken, NegotiatesAsItself, Secure

\* A socket that goes on to another status.
LEMMA GoesOn ==
  ASSUME IInv, NEW g \in Sockets, Used(g), NEW status \in {"dialed", "open", "gone"},
         sockets' = [sockets EXCEPT ![g].status = status],
         UNCHANGED <<hub, base, url, dicts, pc, tokens, answers>>
  PROVE  sockets' \in [Sockets -> SocketRecords'] /\ SocketsFit'
  <1>1. SocketRecords' = SocketRecords
    BY DEF SocketRecords
  <1>2. sockets[g] \in
          [status : {"spawned", "dialed", "open", "gone"}, url : Urls,
           header : 1..Len(dicts), answer : 1..answers]
    BY DEF IInv, TypeOK, SocketRecords, Used, Unused
  <1>3. /\ sockets'[g] \in SocketRecords
        /\ sockets'[g].url = sockets[g].url /\ sockets'[g].header = sockets[g].header
        /\ sockets'[g].answer = sockets[g].answer
    BY <1>2 DEF SocketRecords, IInv, TypeOK
  <1>4. \A h \in Sockets \ {g} : sockets'[h] = sockets[h]
    BY DEF IInv, TypeOK
  <1>5. sockets' \in [Sockets -> SocketRecords']
    BY <1>1, <1>3 DEF IInv, TypeOK
  <1>6. SocketsFit'
    BY <1>3, <1>4 DEF IInv, SocketsFit, Used, Place, Secure
  <1>7. QED
    BY <1>5, <1>6

LEMMA StepIInv == IInv /\ [Next]_vars => IInv'
  <1> SUFFICES ASSUME IInv, [Next]_vars PROVE IInv'
    OBVIOUS
  <1>1. ASSUME NEW p \in Starters, Start(p) PROVE IInv'
    BY <1>1, Waits DEF Start, Procs, Labels
  <1>2. ASSUME NEW p \in Starters, Negotiate(p) PROVE IInv'
    <2>1. /\ tokens' = tokens + 1 /\ tokens' \in 0..MaxTokens /\ tokens + 1 \in Nat
          /\ pc' \in [Procs -> Labels]
      <3>1. tokens \in 0..MaxTokens /\ tokens < MaxTokens /\ tokens' = tokens + 1
        BY <1>2 DEF Negotiate, IInv, TypeOK
      <3>2. pc' \in [Procs -> Labels]
        BY <1>2 DEF Negotiate, IInv, TypeOK, Labels
      <3>3. QED
        BY <3>1, <3>2, NegotiationAssumption
    <2>2. /\ dicts' \in Seq(Tokens) /\ dicts' # <<>> /\ Len(dicts') = Len(dicts)
          /\ sockets' \in [Sockets -> SocketRecords'] /\ SocketsFit' /\ NoRedirects'
          /\ dicts'[Current] = [from |-> "app", n |-> tokens + 1]
      BY <1>2, <2>1, Updated DEF Negotiate, Refreshed, IInv
    <2>3. posts' \subseteq [url : Urls, token : Tokens] /\ NegotiatesAsItself'
      <3>1. /\ posts' = posts \cup {[url |-> NegotiateUrl(base), token |-> dicts'[Current]]}
            /\ dicts'[Current] \in Tokens /\ base' = base
        BY <1>2, <2>1, <2>2 DEF Negotiate, Tokens
      <3>2. QED
        BY <2>2, <3>1, Requested DEF IInv, TypeOK, NegotiatesAsItself, Secure
    <2>4. QED
      BY <1>2, <2>1, <2>2, <2>3
         DEF Negotiate, IInv, TypeOK, UrlFits, OwnAnswer, OwnToken, Secure
  <1>3. ASSUME NEW p \in Starters, Answer(p) PROVE IInv'
    BY <1>3, AnswerStep
  <1>4. ASSUME NEW p \in Senders, BeginSend(p) PROVE IInv'
    BY <1>4, Waits DEF BeginSend, Procs, Labels
  <1>5. ASSUME NEW p \in Senders, Refresh(p) PROVE IInv'
    <2>1. /\ tokens' = tokens + 1 /\ tokens' \in 0..MaxTokens /\ tokens + 1 \in Nat
          /\ pc' \in [Procs -> Labels]
      <3>1. tokens \in 0..MaxTokens /\ tokens < MaxTokens /\ tokens' = tokens + 1
        BY <1>5 DEF Refresh, IInv, TypeOK
      <3>2. pc' \in [Procs -> Labels]
        BY <1>5 DEF Refresh, IInv, TypeOK, Labels
      <3>3. QED
        BY <3>1, <3>2, NegotiationAssumption
    <2>2. /\ dicts' \in Seq(Tokens) /\ dicts' # <<>> /\ Len(dicts') = Len(dicts)
          /\ sockets' \in [Sockets -> SocketRecords'] /\ SocketsFit' /\ NoRedirects'
      BY <1>5, <2>1, Updated DEF Refresh, IInv
    <2>3. QED
      BY <1>5, <2>1, <2>2
         DEF Refresh, IInv, TypeOK, UrlFits, OwnAnswer, OwnToken, NegotiatesAsItself, Secure
  <1>6. ASSUME NEW p \in Procs, Raise(p) PROVE IInv'
    BY <1>6, Waits DEF Raise, Labels
  <1>7. ASSUME NEW g \in Sockets, Dial(g) PROVE IInv'
    <2>1. /\ Used(g)
          /\ sockets[g].url \in Urls /\ sockets[g].header \in 1..Len(dicts)
          /\ sockets[g].answer \in 1..answers
      BY <1>7 DEF Dial, Used, IInv, TypeOK, SocketRecords, Unused
    <2>2. sockets' \in [Sockets -> SocketRecords'] /\ SocketsFit'
      BY <1>7, <2>1, GoesOn DEF Dial, starting
    <2>3. dials' = dials \cup {[url |-> sockets[g].url, token |-> dicts[sockets[g].header],
                                answer |-> sockets[g].answer]}
      BY <1>7 DEF Dial, DialedUrl
    <2>4. dicts[sockets[g].header] \in Tokens
      BY <2>1 DEF IInv, TypeOK
    <2>5. dials' \subseteq [url : Urls, token : Tokens, answer : 1..answers]
      BY <2>1, <2>3, <2>4 DEF IInv, TypeOK
    <2>6. OwnAnswer' /\ OwnToken'
      BY <1>7, <2>1, <2>3 DEF Dial, IInv, SocketsFit, Place, OwnAnswer, OwnToken, Secure
    <2>7. QED
      BY <1>7, <2>2, <2>5, <2>6
         DEF Dial, starting, IInv, TypeOK, UrlFits, NoRedirects, NegotiatesAsItself, Secure
  <1>8. ASSUME NEW g \in Sockets, Accept(g) \/ End(g) PROVE IInv'
    <2>1. sockets' \in [Sockets -> SocketRecords'] /\ SocketsFit'
      BY <1>8, GoesOn DEF Accept, End, Used, history
    <2>2. QED
      BY <1>8, <2>1
         DEF Accept, End, history, IInv, TypeOK, UrlFits, NoRedirects, OwnAnswer, OwnToken,
             NegotiatesAsItself, Secure
  <1>9. CASE UNCHANGED vars
    BY <1>9 DEF vars, starting, history, IInv, TypeOK, SocketRecords, UrlFits, NoRedirects,
                SocketsFit, Used, Place, OwnAnswer, OwnToken, NegotiatesAsItself, Secure
  <1>10. QED
    BY <1>1, <1>2, <1>3, <1>4, <1>5, <1>6, <1>7, <1>8, <1>9 DEF Next

LEMMA Invariance == Spec => []IInv
  BY InitIInv, StepIInv, PTL DEF Spec

\* The variables of a start keep to their types, and a socket's headers are a
\* dictionary that there is, for any number of starts, sends and tokens.
THEOREM NegotiationTypes == Spec => []TypeOK
  BY Invariance, PTL DEF IInv

\* WebsocketTransport.start: each socket connects to what the answer to its own
\* negotiation named, however many starts overlap.
THEOREM OwnAnswerIsDialed == Spec => []OwnAnswer
  BY Invariance, PTL DEF IInv

\* WebSocketApp's headers: no socket shows the azure token of another start.
THEOREM OwnTokenIsShown == Spec => []OwnToken
  BY Invariance, PTL DEF IInv

\* Connection.start: with a token factory, the application's hub is never sent
\* the azure token that an earlier answer has left in the headers.
THEOREM HubIsAskedAsTheApplication == Spec => []NegotiatesAsItself
  BY Invariance, PTL DEF IInv
=============================================================================
