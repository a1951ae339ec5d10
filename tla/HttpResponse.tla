----------------------------- MODULE HttpResponse -----------------------------
(***************************************************************************)
(* The life of a response in internal/server:                              *)
(*     logRequests(recoverPanic(gzipMiddleware(securityHeaders(mux))))     *)
(*                                                                         *)
(* A request is served by a script, the calls that the middleware inside   *)
(* gzipMiddleware and the handler make on their http.ResponseWriter, one   *)
(* step per call.  A panic may cut any script off.  Requests run at once   *)
(* and share the gzip.Writers of gzipWriterPool.                           *)
(***************************************************************************)
EXTENDS Integers, Sequences

CONSTANTS
    Requests,  \* connections; each serves one request after another
    Probes,    \* those that only ask for /api/health: a bound
    Writers,   \* gzip.Writers, in the pool or newly made when it is empty
    NoWriter

ASSUME HttpAssumption ==
    /\ Probes \subseteq Requests
    /\ NoWriter \notin Writers

VARIABLES
    pool,    \* gzipWriterPool
    dest,    \* what each Writer writes to (Reset): the response of a request
    stream,  \* each Writer's gzip stream: "fresh", "open" or "closed"
    resp     \* the response of each request, with the locals of its wrappers

vars == <<pool, dest, stream, resp>>

-----------------------------------------------------------------------------
(* Scripts *)

\* The headers the code reads, sets or deletes.  "" is an absent header;
\* "text" stands for the types of compressibleContentTypes.
NoHeader == [cache |-> "", etag |-> "", type |-> "", enc |-> "", vary |-> "", length |-> ""]

Put(f, v)  == [call |-> "put", field |-> f, value |-> v]
Status(c)  == [call |-> "status", code |-> c]
ClearCache == [call |-> "clear"]
Body       == [call |-> "write"]

\* http.Error, and http.NotFound on top of it; serveError clears first.
HttpError(c)  == <<Put("length", ""), Put("type", "text"), Status(c), Body>>
NotFound      == HttpError(404)
ServeError(c) == <<ClearCache>> \o HttpError(c)

\* The file servers of net/http: redirect to or from a directory, fresh copy
\* at the client, a failed If-Match or If-Unmodified-Since (a bare status: of
\* the failures, only serveError clears headers), a content or a range of it,
\* or an error.
ServeContent ==
    {<<Status(301)>>, <<Status(412)>>,
     <<Put("type", ""), Put("length", ""), Status(304)>>,
     ServeError(404), ServeError(416)}
    \union {<<Put("type", t), Put("length", "n"), Status(c), Body, Body>> :
                t \in {"text", "binary"}, c \in {200, 206}}

JSON            == <<Put("type", "text"), Body>>
writeJSONOK     == JSON
writeJSONError(c) == <<Put("type", "text"), Status(c), Body>>

\* cacheControl and cacheWithETag around the scripts of a handler.
cacheControl(value, scripts)  == {<<Put("cache", value)>> \o s : s \in scripts}
cacheWithETag(value, scripts) == {<<Put("etag", "v")>> \o s : s \in cacheControl(value, scripts)}

\* noDirListing: 404 for a directory without index.html.
noDirListing(scripts) == scripts \union {<<ClearCache>> \o NotFound}

\* The handlers of /api/.
handleHealth      == {writeJSONOK}
handleGames       == {writeJSONError(500), JSON}
handleGetSave     == {writeJSONError(400), NotFound, writeJSONError(500),
                      <<Put("type", "binary"), Body>>}
handlePostSave    == {writeJSONError(400), NotFound, writeJSONError(413),
                      writeJSONError(500), <<Status(200)>>}
handleStatus      == {JSON}
handleRescan      == {writeJSONError(503), writeJSONError(409), writeJSONOK}

handleGameDetails ==
    {writeJSONError(400), writeJSONError(404),
     <<Put("type", "text"), Put("cache", "private"), Body>>}

\* /roms, /bios, /covers, /cache/igdb and /manuals: refused or missing, or
\* served with the long cache policy.
serveFile == {NotFound} \union cacheControl("long", ServeContent)

\* The mux: every route with the wrappers it is registered with, for paths that
\* are not escaped (http.StripPrefix answers 404 to an escaped prefix).
routes ==
    cacheControl("no-store", handleHealth \union handleGames \union handleGetSave
                   \union handlePostSave \union handleStatus \union handleRescan
                   \union handleGameDetails)
    \union serveFile
    \union cacheWithETag("long", noDirListing(ServeContent))
    \union cacheControl("no-cache", ServeContent)
    \union cacheControl("no-cache", noDirListing(ServeContent))

\* securityHeaders answers a POST without the custom header itself.
Scripts(r) ==
    IF r \in Probes THEN cacheControl("no-store", handleHealth)
    ELSE {HttpError(403)} \union routes

-----------------------------------------------------------------------------
(* Responses *)

\* wrote and status are those of loggingResponseWriter, headerSet and
\* compressing those of gzipResponseWriter.  wire is what reached the
\* connection: the status line with the headers as they were then, if any,
\* the number of WriteHeader calls, and the pieces of the body.
NewResponse(script, gzip) ==
    [at |-> "gzip", todo |-> script, accepts |-> gzip, gz |-> NoWriter,
     header |-> NoHeader, headerSet |-> FALSE, compressing |-> FALSE,
     wrote |-> FALSE, status |-> 200, panicked |-> FALSE,
     sent |-> NoHeader, line |-> 0, lines |-> 0, body |-> <<>>]

NoResponse == [NewResponse(<<>>, FALSE) EXCEPT !.at = "done"]

Init ==
    /\ pool = {}
    /\ dest \in [Writers -> Requests]
    /\ stream = [w \in Writers |-> "closed"]
    /\ resp = [r \in Requests |-> NoResponse]

\* loggingResponseWriter.WriteHeader and what net/http does with the call:
\* only the first one reaches the wire.
LogStatus(p, c) ==
    [p EXCEPT !.wrote = TRUE,
              !.status = IF p.wrote THEN @ ELSE c,
              !.line = IF p.lines = 0 THEN c ELSE @,
              !.sent = IF p.lines = 0 THEN p.header ELSE @,
              !.lines = @ + 1]

\* loggingResponseWriter.Write.
LogWrite(p, chunks) ==
    [(IF p.wrote THEN p ELSE LogStatus(p, 200)) EXCEPT !.body = @ \o chunks]

\* gzipResponseWriter.WriteHeader; without Accept-Encoding the handler has
\* the loggingResponseWriter itself.
GzipStatus(p, c) ==
    IF p.accepts /\ ~p.headerSet /\ p.header.type = "text"
       THEN LogStatus([p EXCEPT !.headerSet = TRUE, !.compressing = TRUE,
                                !.header.enc = "gzip", !.header.length = "",
                                !.header.vary = "enc"], c)
       ELSE LogStatus([p EXCEPT !.headerSet = TRUE], c)

clearLongCacheHeaders(p) ==
    [p EXCEPT !.header.cache = "", !.header.etag = "", !.header.enc = ""]

\* The pieces of a body, with the request they are about.  A gzip stream is
\* "head" once, "zip" for each write, and "tail" on Close.
Plain(r)       == <<<<"plain", r>>>>
Zipped(w, k, r) == (IF stream[w] = "fresh" THEN <<<<"head", r>>>> ELSE <<>>) \o <<<<k, r>>>>

-----------------------------------------------------------------------------
(* Steps *)

Goto(r, from, p) ==
    /\ resp[r].at = from
    /\ resp' = [resp EXCEPT ![r] = p]

\* The connection's next request arrives, for any route.
Arrive(r) ==
    /\ \E s \in Scripts(r), gzip \in BOOLEAN : Goto(r, "done", NewResponse(s, gzip))
    /\ UNCHANGED <<pool, dest, stream>>

\* Mutant of GetWriter: the Writer is used as the pool returned it.
GetWriterUnreset(r) ==
    /\ resp[r].accepts
    /\ \E w \in IF pool = {} THEN {v \in Writers : \A q \in Requests : resp[q].gz # v}
                            ELSE pool :
          /\ pool' = pool \ {w}
          /\ Goto(r, "gzip", [resp[r] EXCEPT !.at = "serve", !.gz = w])
          /\ IF w \in pool THEN UNCHANGED <<dest, stream>>
             ELSE dest' = [dest EXCEPT ![w] = r] /\ stream' = [stream EXCEPT ![w] = "fresh"]

\* gzipMiddleware: a Writer from the pool, or a new one, reset to this response.
GetWriter(r) ==
    /\ resp[r].accepts
    /\ \E w \in IF pool = {} THEN {v \in Writers : \A q \in Requests : resp[q].gz # v}
                            ELSE pool :
          /\ pool' = pool \ {w}
          /\ dest' = [dest EXCEPT ![w] = r]
          /\ stream' = [stream EXCEPT ![w] = "fresh"]
          /\ Goto(r, "gzip", [resp[r] EXCEPT !.at = "serve", !.gz = w])

PassThrough(r) ==
    /\ ~resp[r].accepts
    /\ Goto(r, "gzip", [resp[r] EXCEPT !.at = "serve"])
    /\ UNCHANGED <<pool, dest, stream>>

\* The response once the next call of the script has left it.
Called(r) == [resp[r] EXCEPT !.todo = Tail(@)]

Calls(r, call) ==
    /\ resp[r].at = "serve"
    /\ resp[r].todo # <<>>
    /\ resp[r].todo[1].call = call

SetHeader(r) ==
    /\ Calls(r, "put")
    /\ LET c == resp[r].todo[1]
       IN  Goto(r, "serve", [Called(r) EXCEPT !.header[c.field] = c.value])
    /\ UNCHANGED <<pool, dest, stream>>

ClearHeaders(r) ==
    /\ Calls(r, "clear")
    /\ Goto(r, "serve", clearLongCacheHeaders(Called(r)))
    /\ UNCHANGED <<pool, dest, stream>>

WriteHeader(r) ==
    /\ Calls(r, "status")
    /\ Goto(r, "serve", GzipStatus(Called(r), resp[r].todo[1].code))
    /\ UNCHANGED <<pool, dest, stream>>

\* gzipResponseWriter.Write.  A compressed piece goes where the Writer
\* writes to; a closed Writer refuses it.
Write(r) ==
    /\ Calls(r, "write")
    /\ LET p == IF resp[r].accepts /\ ~resp[r].headerSet THEN GzipStatus(Called(r), 200)
                ELSE Called(r)
           w == p.gz
       IN  IF ~p.compressing
              THEN /\ Goto(r, "serve", LogWrite(p, Plain(r)))
                   /\ UNCHANGED stream
              ELSE /\ resp' = LET q == [resp EXCEPT ![r] = p]
                              IN  IF stream[w] = "closed" THEN q
                                  ELSE [q EXCEPT ![dest[w]] = LogWrite(@, Zipped(w, "zip", r))]
                   /\ stream' = [stream EXCEPT ![w] = IF @ = "fresh" THEN "open" ELSE @]
    /\ UNCHANGED <<pool, dest>>

\* The handler returns after its last call, or panics before any of them.
Return(r) ==
    /\ resp[r].todo = <<>>
    /\ Goto(r, "serve", [resp[r] EXCEPT !.at = "close"])
    /\ UNCHANGED <<pool, dest, stream>>

Panic(r) ==
    /\ resp[r].todo # <<>>
    /\ Goto(r, "serve", [resp[r] EXCEPT !.at = "close", !.panicked = TRUE])
    /\ UNCHANGED <<pool, dest, stream>>

\* The deferred function of gzipMiddleware: Close, if the body is compressed ...
CloseWriter(r) ==
    /\ resp[r].at = "close"
    /\ LET w == resp[r].gz
           q == [resp EXCEPT ![r].at = "put"]
       IN  IF resp[r].compressing /\ stream[w] # "closed"
              THEN /\ resp' = [q EXCEPT ![dest[w]] = LogWrite(@, Zipped(w, "tail", r))]
                   /\ stream' = [stream EXCEPT ![w] = "closed"]
              ELSE resp' = q /\ UNCHANGED stream
    /\ UNCHANGED <<pool, dest>>

\* Mutant of PutWriter: the Writer also stays with its response.
PutWriterShared(r) ==
    /\ Goto(r, "put", [resp[r] EXCEPT !.at = "recover"])
    /\ pool' = pool \union ({resp[r].gz} \ {NoWriter})
    /\ UNCHANGED <<dest, stream>>

\* ... and Put.
PutWriter(r) ==
    /\ Goto(r, "put", [resp[r] EXCEPT !.at = "recover", !.gz = NoWriter])
    /\ pool' = pool \union ({resp[r].gz} \ {NoWriter})
    /\ UNCHANGED <<dest, stream>>

\* Mutant of Recover: the 500 is written whatever was sent before.
RecoverAlways(r) ==
    /\ LET p == clearLongCacheHeaders(resp[r])
       IN  Goto(r, "recover",
                IF ~p.panicked THEN [resp[r] EXCEPT !.at = "log"]
                ELSE [LogWrite(LogStatus([p EXCEPT !.header.type = "text",
                                                   !.header.length = ""], 500),
                               Plain(r)) EXCEPT !.at = "log"])
    /\ UNCHANGED <<pool, dest, stream>>

\* Mutant of Recover: the headers of the handler that panicked stay.
RecoverKeepsCache(r) ==
    /\ LET p == resp[r]
       IN  Goto(r, "recover",
                IF ~p.panicked \/ p.wrote THEN [resp[r] EXCEPT !.at = "log"]
                ELSE [LogWrite(LogStatus([p EXCEPT !.header.type = "text",
                                                   !.header.length = ""], 500),
                               Plain(r)) EXCEPT !.at = "log"])
    /\ UNCHANGED <<pool, dest, stream>>

\* recoverPanic: after a panic http.Error answers on the loggingResponseWriter,
\* unless a header was written.
Recover(r) ==
    /\ LET p == clearLongCacheHeaders(resp[r])
       IN  Goto(r, "recover",
                IF ~p.panicked \/ p.wrote THEN [resp[r] EXCEPT !.at = "log"]
                ELSE [LogWrite(LogStatus([p EXCEPT !.header.type = "text",
                                                   !.header.length = ""], 500),
                               Plain(r)) EXCEPT !.at = "log"])
    /\ UNCHANGED <<pool, dest, stream>>

\* logRequests writes its line, and net/http finishes the response.
Log(r) ==
    /\ Goto(r, "log", NoResponse)
    /\ UNCHANGED <<pool, dest, stream>>

Serve(r) ==
    \/ GetWriter(r) \/ PassThrough(r)
    \/ SetHeader(r) \/ ClearHeaders(r) \/ WriteHeader(r) \/ Write(r)
    \/ Return(r) \/ Panic(r)
    \/ CloseWriter(r) \/ PutWriter(r) \/ Recover(r) \/ Log(r)

Next == \E r \in Requests : Arrive(r) \/ Serve(r)

Spec == Init /\ [][Next]_vars

-----------------------------------------------------------------------------
(* Properties *)

Headers == [cache : {"", "no-store", "no-cache", "private", "long"}, etag : {"", "v"},
            type : {"", "text", "binary"}, enc : {"", "gzip"}, vary : {"", "enc"},
            length : {"", "n"}]

TypeOK ==
    /\ pool \subseteq Writers
    /\ dest \in [Writers -> Requests]
    /\ stream \in [Writers -> {"fresh", "open", "closed"}]
    /\ DOMAIN resp = Requests
    /\ \A r \in Requests :
          /\ resp[r].at \in {"done", "gzip", "serve", "close", "put", "recover", "log"}
          /\ resp[r].gz \in Writers \union {NoWriter}
          /\ resp[r].header \in Headers
          /\ resp[r].sent \in Headers
          /\ resp[r].lines \in {0, 1}

\* A Writer is in the pool or belongs to one response, and writes to that
\* one: no request can reach the body of another through the pool.
WritersExclusive ==
    \A r \in Requests :
        resp[r].gz # NoWriter =>
            /\ resp[r].gz \notin pool
            /\ dest[resp[r].gz] = r
            /\ \A q \in Requests \ {r} : resp[q].gz # resp[r].gz

\* The caching headers of a success.
Cached(h) == h.cache \in {"long", "private"} \/ h.etag # ""

\* No failure is answered with the caching headers of a success: not by a
\* handler that sets them before it fails, nor by the 500 of a handler that
\* panicked after they were set ("caching the failure for up to a day").  The
\* one exception is the 412 that net/http gives to a failed precondition on an
\* asset or a user's file: it does leave with those headers, although
\* middleware.go says "so error responses do not inherit the long cache".
FailureNotCached ==
    \A r \in Requests :
        resp[r].line >= 400 /\ resp[r].line # 412 => ~Cached(resp[r].sent)

\* One status line is sent for every request, and the one that logRequests
\* reports, wherever the handler stopped or panicked.
LogTellsWire ==
    \A r \in Requests :
        resp[r].at = "log" => resp[r].lines = 1 /\ resp[r].status = resp[r].line

\* What a client receives can be decoded as its headers say, panic or not: a
\* body marked gzip is one whole stream of this response's own pieces, for a
\* client that accepts it, without the length of the uncompressed content;
\* any other body holds plain pieces only.
BodyDecodes ==
    \A r \in Requests :
        LET p == resp[r]
            n == Len(p.body)
        IN  p.at = "log" =>
                IF p.sent.enc = "gzip"
                   THEN /\ p.accepts /\ p.sent.vary = "enc" /\ p.sent.length = ""
                        /\ n >= 2
                        /\ p.body[1] = <<"head", r>> /\ p.body[n] = <<"tail", r>>
                        /\ \A i \in 2 .. n - 1 : p.body[i] = <<"zip", r>>
                   ELSE \A i \in 1 .. n : p.body[i] = <<"plain", r>>
=============================================================================
