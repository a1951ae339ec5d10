------------------------- MODULE HttpResponseProofs -------------------------
(***************************************************************************)
(* Proofs about HttpResponse, for any connections and any gzip.Writers.    *)
(*                                                                         *)
(* What is left of a script (todo) is described by what no script of the   *)
(* routes may do: set a status after it has answered, or fail with caching *)
(* headers that no clearLongCacheHeaders takes back.  These descriptions   *)
(* are kept by the tail of a script, so they hold wherever a response is.  *)
(* A Writer belongs to the response it was taken for (WritersExclusive),   *)
(* so that its stream and the body of that response tell the same story.   *)
(***************************************************************************)
EXTENDS HttpResponse, SequenceTheorems, TLAPS

-----------------------------------------------------------------------------
(* Scripts *)

Codes == 200 .. 599

\* The statuses that FailureNotCached is about.
Failed(c) == c >= 400 /\ c # 412

Puts(f, values) == [call : {"put"}, field : {f}, value : values]

Call ==
    {ClearCache, Body} \union [call : {"status"}, code : Codes]
    \union Puts("cache", {"no-store", "no-cache", "private", "long"})
    \union Puts("etag", {"v"})
    \union Puts("type", {"", "text", "binary"})
    \union Puts("length", {"", "n"})

Answers(c) == c.call \in {"status", "write"}
Fails(c)   == c.call = "status" /\ Failed(c.code)
Caches(c)  ==
    /\ c.call = "put"
    /\ \/ c.field = "cache" /\ c.value \in {"long", "private"}
       \/ c.field = "etag"

\* A status comes before any other answer.
StatusFirst(s) ==
    \A i, j \in 1 .. Len(s) : i < j /\ s[j].call = "status" => ~Answers(s[i])

\* Caching headers that the script sets, or that were set before it, are
\* cleared before it fails.
ClearedInside(s) ==
    \A i, j \in 1 .. Len(s) :
        i < j /\ Caches(s[i]) /\ Fails(s[j]) =>
            \E k \in i + 1 .. j - 1 : s[k].call = "clear"
ClearedFirst(s) ==
    \A j \in 1 .. Len(s) : Fails(s[j]) => \E k \in 1 .. j - 1 : s[k].call = "clear"

NoStatus(s) == \A i \in 1 .. Len(s) : s[i].call # "status"
Answered(s) == \E i \in 1 .. Len(s) : Answers(s[i])

Sound(s)     == s \in Seq(Call) /\ StatusFirst(s) /\ ClearedInside(s)
Complete(s)  == Sound(s) /\ Answered(s)
Cacheable(s) == Complete(s) /\ ClearedFirst(s)

\* The headers that may be cached with, and the others.
PlainPuts == {Put("type", ""), Put("type", "text"), Put("type", "binary"),
              Put("length", ""), Put("length", "n"),
              Put("cache", "no-store"), Put("cache", "no-cache")}
CachePuts == {Put("cache", "private"), Put("cache", "long"), Put("etag", "v")}

\* The calls of the code are calls, and what they do.
LEMMA PutKinds ==
  /\ PlainPuts \subseteq Call /\ CachePuts \subseteq Call
  /\ \A c \in PlainPuts \union CachePuts : c.call = "put"
  /\ \A c \in PlainPuts : ~Caches(c)
  <1>1. PlainPuts \subseteq Call  BY DEF PlainPuts, Call, Put, Puts
  <1>2. CachePuts \subseteq Call  BY DEF CachePuts, Call, Put, Puts
  <1>3. \A c \in PlainPuts \union CachePuts : c.call = "put"
    <2>1. \A f, v : Put(f, v).call = "put"  BY DEF Put
    <2>. QED  BY <2>1, Zenon DEF PlainPuts, CachePuts
  <1>4. \A c \in PlainPuts : ~Caches(c)
    <2>1. /\ \A v : ~Caches(Put("type", v)) /\ ~Caches(Put("length", v))
          /\ ~Caches(Put("cache", "no-store")) /\ ~Caches(Put("cache", "no-cache"))
      BY DEF Put, Caches
    <2>. QED  BY <2>1, Zenon DEF PlainPuts
  <1>. QED  BY <1>1, <1>2, <1>3, <1>4

LEMMA StatusKinds ==
  /\ {200, 206, 301, 304, 400, 403, 404, 409, 412, 413, 416, 500, 503} \subseteq Codes
  /\ \A c \in {200, 206, 301, 304, 412} : ~Failed(c)
  /\ \A c \in Codes :
       /\ Status(c) \in Call /\ Answers(Status(c))
       /\ Status(c).call = "status" /\ Status(c).code = c
       /\ ~Failed(c) => ~Fails(Status(c))
  <1>1. {200, 206, 301, 304, 400, 403, 404, 409, 412, 413, 416, 500, 503} \subseteq Codes
    BY DEF Codes
  <1>2. ASSUME NEW c \in Codes
        PROVE  /\ Status(c) \in Call /\ Answers(Status(c))
               /\ Status(c).call = "status" /\ Status(c).code = c
               /\ ~Failed(c) => ~Fails(Status(c))
    <2>1. Status(c) \in Call  BY DEF Call, Status
    <2>2. Status(c).call = "status" /\ Status(c).code = c  BY DEF Status
    <2>3. Answers(Status(c))  BY <2>2 DEF Answers
    <2>4. ~Failed(c) => ~Fails(Status(c))  BY <2>2 DEF Fails
    <2>. QED  BY <2>1, <2>2, <2>3, <2>4
  <1>3. \A c \in {200, 206, 301, 304, 412} : ~Failed(c)  BY DEF Failed
  <1>. QED  BY <1>1, <1>2, <1>3

LEMMA OtherKinds ==
  /\ Body \in Call /\ Body.call = "write" /\ Answers(Body) /\ ~Fails(Body)
  /\ ClearCache \in Call /\ ClearCache.call = "clear"
  /\ ~Answers(ClearCache) /\ ~Caches(ClearCache)
  <1>1. Body \in Call /\ Body.call = "write" /\ Answers(Body) /\ ~Fails(Body)
    BY DEF Body, Call, Answers, Fails
  <1>2. /\ ClearCache \in Call /\ ClearCache.call = "clear"
        /\ ~Answers(ClearCache) /\ ~Caches(ClearCache)
    BY DEF ClearCache, Call, Answers, Caches
  <1>. QED  BY <1>1, <1>2

\* A script of headers, one answer and the rest of the body.
LEMMA Straight ==
  ASSUME NEW s \in Seq(Call), NEW k \in 1 .. Len(s),
         \A i \in 1 .. k - 1 : s[i].call = "put" /\ (Caches(s[i]) => ~Fails(s[k])),
         Answers(s[k]),
         \A i \in k + 1 .. Len(s) : s[i].call = "write"
  PROVE  Complete(s) /\ (~Fails(s[k]) => Cacheable(s))
  <1>. USE DEF Answers, Fails
  <1>1. ASSUME NEW i \in 1 .. Len(s)
        PROVE  i < k \/ i = k \/ (i > k /\ s[i].call = "write")
    <2>. DEFINE n == Len(s)
    <2>1. n \in Nat /\ k \in 1 .. n /\ i \in 1 .. n  OBVIOUS
    <2>2. \A j \in k + 1 .. n : s[j].call = "write"  OBVIOUS
    <2>. HIDE DEF n
    <2>3. i < k \/ i = k \/ (i > k /\ i \in k + 1 .. n)  BY <2>1
    <2>. QED  BY <2>2, <2>3
  <1>2. \A i \in 1 .. Len(s) : Fails(s[i]) => i = k  BY <1>1
  <1>3. StatusFirst(s)  BY <1>1 DEF StatusFirst
  <1>4. ClearedInside(s)  BY <1>2 DEF ClearedInside
  <1>5. Answered(s)  BY DEF Answered
  <1>6. ~Fails(s[k]) => ClearedFirst(s)  BY <1>2 DEF ClearedFirst
  <1>. QED  BY <1>3, <1>4, <1>5, <1>6 DEF Cacheable, Complete, Sound

\* One more call in front of a script.
LEMMA Prepend ==
  ASSUME NEW c \in Call, NEW s, Sound(s), ~Answers(c), Caches(c) => ClearedFirst(s)
  PROVE  /\ Sound(<<c>> \o s)
         /\ Answered(s) => Answered(<<c>> \o s)
         /\ ClearedFirst(s) \/ c.call = "clear" => ClearedFirst(<<c>> \o s)
  <1>. s \in Seq(Call)  BY DEF Sound
  <1>. DEFINE t == <<c>> \o s
              n == Len(s)
  <1>1. t \in Seq(Call) /\ Len(t) = n + 1 /\ n \in Nat  OBVIOUS
  <1>2. t[1] = c /\ \A i \in 1 .. n : t[i + 1] = s[i]  OBVIOUS
  <1>. HIDE DEF t, n
  <1>3. ASSUME NEW i \in 1 .. n + 1, i # 1
        PROVE  t[i] = s[i - 1] /\ i - 1 \in 1 .. n
    <2>1. i - 1 \in 1 .. n /\ (i - 1) + 1 = i  BY <1>1, <1>3
    <2>. QED  BY <1>2, <2>1
  <1>4. StatusFirst(t)
    <2>. SUFFICES ASSUME NEW i \in 1 .. n + 1, NEW j \in 1 .. n + 1, i < j,
                         t[j].call = "status"
                  PROVE  ~Answers(t[i])
      BY <1>1 DEF StatusFirst
    <2>1. t[j] = s[j - 1] /\ j - 1 \in 1 .. n  BY <1>1, <1>3
    <2>2. i # 1 => t[i] = s[i - 1] /\ i - 1 \in 1 .. n /\ i - 1 < j - 1  BY <1>1, <1>3
    <2>. QED  BY <1>2, <2>1, <2>2 DEF Sound, StatusFirst, n
  <1>5. ClearedInside(t)
    <2>. SUFFICES ASSUME NEW i \in 1 .. n + 1, NEW j \in 1 .. n + 1, i < j,
                         Caches(t[i]), Fails(t[j])
                  PROVE  \E k \in i + 1 .. j - 1 : t[k].call = "clear"
      BY <1>1 DEF ClearedInside
    <2>1. t[j] = s[j - 1] /\ j - 1 \in 1 .. n  BY <1>1, <1>3
    <2>2. PICK k \in i .. j - 2 : k \in 1 .. n /\ s[k].call = "clear"
      <3>1. CASE i = 1
        <4>1. PICK k \in 1 .. (j - 1) - 1 : s[k].call = "clear"
          BY <1>2, <2>1, <3>1 DEF ClearedFirst, n
        <4>. QED  BY <1>1, <3>1, <4>1
      <3>2. CASE i # 1
        <4>1. t[i] = s[i - 1] /\ i - 1 \in 1 .. n /\ i - 1 < j - 1  BY <1>1, <1>3, <3>2
        <4>2. PICK k \in (i - 1) + 1 .. (j - 1) - 1 : s[k].call = "clear"
          BY <2>1, <4>1 DEF Sound, ClearedInside, n
        <4>. QED  BY <1>1, <4>1, <4>2
      <3>. QED  BY <3>1, <3>2
    <2>3. k + 1 \in i + 1 .. j - 1  OBVIOUS
    <2>. QED  BY <1>2, <2>2, <2>3
  <1>6. ASSUME ClearedFirst(s) \/ c.call = "clear"
        PROVE  ClearedFirst(t)
    <2>. SUFFICES ASSUME NEW j \in 1 .. n + 1, Fails(t[j])
                  PROVE  \E k \in 1 .. j - 1 : t[k].call = "clear"
      BY <1>1 DEF ClearedFirst
    <2>1. j # 1  BY <1>2 DEF Fails, Answers
    <2>2. CASE ClearedFirst(s)
      <3>1. t[j] = s[j - 1] /\ j - 1 \in 1 .. n  BY <1>1, <1>3, <2>1
      <3>2. PICK k \in 1 .. (j - 1) - 1 : s[k].call = "clear"
        BY <2>2, <3>1 DEF ClearedFirst, n
      <3>3. k + 1 \in 1 .. j - 1 /\ k \in 1 .. n  BY <1>1
      <3>. QED  BY <1>2, <3>2, <3>3
    <2>3. CASE c.call = "clear"
      <3>1. 1 \in 1 .. j - 1  BY <1>1, <2>1
      <3>. QED  BY <1>2, <2>3, <3>1
    <2>. QED  BY <1>6, <2>2, <2>3
  <1>7. ASSUME Answered(s)  PROVE Answered(t)
    <2>1. PICK k \in 1 .. n : Answers(s[k])  BY <1>7 DEF Answered, n
    <2>2. k + 1 \in 1 .. n + 1  BY <1>1
    <2>. QED  BY <1>1, <1>2, <2>1, <2>2 DEF Answered
  <1>. QED  BY <1>1, <1>4, <1>5, <1>6, <1>7 DEF Sound, t

\* The rest of a script after its next call c.
LEMMA Rest ==
  ASSUME NEW s, Sound(s), s # <<>>
  PROVE  /\ s[1] \in Call /\ Sound(Tail(s))
         /\ Answers(s[1]) => NoStatus(Tail(s))
         /\ NoStatus(s) => NoStatus(Tail(s))
         /\ Answered(s) /\ ~Answers(s[1]) => Answered(Tail(s))
         /\ Caches(s[1]) => ClearedFirst(Tail(s))
         /\ ClearedFirst(s) /\ s[1].call # "clear" => ClearedFirst(Tail(s))
         /\ ClearedFirst(s) => ~Fails(s[1])
  <1>. s \in Seq(Call)  BY DEF Sound
  <1>. DEFINE t == Tail(s)
              n == Len(s)
  <1>1. t \in Seq(Call) /\ Len(t) = n - 1 /\ n \in Nat /\ n > 0 /\ s[1] \in Call
    OBVIOUS
  <1>2. \A i \in 1 .. n - 1 : t[i] = s[i + 1]  OBVIOUS
  <1>. HIDE DEF t
  <1>3. \A i \in 1 .. n - 1 : i + 1 \in 1 .. n  BY <1>1
  <1>4. StatusFirst(t)
    <2>. SUFFICES ASSUME NEW i \in 1 .. n - 1, NEW j \in 1 .. n - 1, i < j,
                         t[j].call = "status"
                  PROVE  ~Answers(t[i])
      BY <1>1 DEF StatusFirst
    <2>1. t[i] = s[i + 1] /\ t[j] = s[j + 1] /\ {i + 1, j + 1} \subseteq 1 .. n
      BY <1>2, <1>3
    <2>2. i + 1 < j + 1  OBVIOUS
    <2>. QED  BY <2>1, <2>2 DEF Sound, StatusFirst
  <1>5. ASSUME NEW j \in 1 .. n - 1, NEW k \in 2 .. j, s[k].call = "clear"
        PROVE  k - 1 \in 1 .. j - 1 /\ t[k - 1].call = "clear"
    <2>1. k - 1 \in 1 .. n - 1 /\ (k - 1) + 1 = k  BY <1>1
    <2>. QED  BY <1>2, <1>5, <2>1
  <1>6. ClearedInside(t)
    <2>. SUFFICES ASSUME NEW i \in 1 .. n - 1, NEW j \in 1 .. n - 1, i < j,
                         Caches(t[i]), Fails(t[j])
                  PROVE  \E k \in i + 1 .. j - 1 : t[k].call = "clear"
      BY <1>1 DEF ClearedInside
    <2>1. t[i] = s[i + 1] /\ t[j] = s[j + 1] /\ {i + 1, j + 1} \subseteq 1 .. n
      BY <1>2, <1>3
    <2>2. PICK k \in (i + 1) + 1 .. (j + 1) - 1 : s[k].call = "clear"
      BY <2>1 DEF Sound, ClearedInside
    <2>3. k \in 2 .. j /\ k - 1 \in i + 1 .. j - 1  OBVIOUS
    <2>. QED  BY <1>5, <2>2, <2>3
  <1>7. ASSUME Caches(s[1]) \/ (ClearedFirst(s) /\ s[1].call # "clear")
        PROVE  ClearedFirst(t)
    <2>. SUFFICES ASSUME NEW j \in 1 .. n - 1, Fails(t[j])
                  PROVE  \E k \in 1 .. j - 1 : t[k].call = "clear"
      BY <1>1 DEF ClearedFirst
    <2>1. t[j] = s[j + 1] /\ j + 1 \in 1 .. n /\ 1 \in 1 .. n  BY <1>1, <1>2, <1>3
    <2>2. PICK k \in 2 .. j : s[k].call = "clear"
      <3>1. CASE Caches(s[1])
        <4>1. PICK k \in 1 + 1 .. (j + 1) - 1 : s[k].call = "clear"
          BY <2>1, <3>1 DEF Sound, ClearedInside
        <4>. QED  BY <4>1
      <3>2. CASE ClearedFirst(s) /\ s[1].call # "clear"
        <4>1. PICK k \in 1 .. (j + 1) - 1 : s[k].call = "clear"
          BY <2>1, <3>2 DEF ClearedFirst
        <4>. QED  BY <3>2, <4>1
      <3>. QED  BY <1>7, <3>1, <3>2
    <2>. QED  BY <1>5, <2>2
  <1>8. Answers(s[1]) => NoStatus(t)
    BY <1>1, <1>2, <1>3 DEF NoStatus, Sound, StatusFirst
  <1>9. NoStatus(s) => NoStatus(t)  BY <1>1, <1>2, <1>3 DEF NoStatus
  <1>10. ASSUME Answered(s), ~Answers(s[1])  PROVE Answered(t)
    <2>1. PICK i \in 1 .. n : Answers(s[i])  BY <1>10 DEF Answered
    <2>2. i - 1 \in 1 .. n - 1 /\ (i - 1) + 1 = i  BY <1>1, <1>10, <2>1
    <2>. QED  BY <1>1, <1>2, <2>1, <2>2 DEF Answered
  <1>11. ClearedFirst(s) => ~Fails(s[1])  BY <1>1 DEF ClearedFirst
  <1>12. Sound(t)  BY <1>1, <1>4, <1>6 DEF Sound
  <1>13. Caches(s[1]) => ClearedFirst(t)  BY <1>7
  <1>14. ClearedFirst(s) /\ s[1].call # "clear" => ClearedFirst(t)  BY <1>7
  <1>. QED  BY <1>1, <1>8, <1>9, <1>10, <1>11, <1>12, <1>13, <1>14, Zenon DEF t

\* The shapes of the handlers' scripts: up to two headers, an answer, up to two
\* more pieces of the body.
LEMMA Shapes ==
  ASSUME NEW a \in Call, Answers(a), NEW p \in Call, p.call = "put",
         NEW q \in Call, q.call = "put",
         (Caches(p) \/ Caches(q)) => ~Fails(a),
         NEW b \in Call, b.call = "write"
  PROVE  \A s \in {<<a>>, <<p, a>>, <<p, a, b>>, <<p, q, a>>, <<p, q, a, b>>,
                   <<p, q, a, b, b>>} :
            Complete(s) /\ (~Fails(a) => Cacheable(s))
  <1>1. Complete(<<a>>) /\ (~Fails(a) => Cacheable(<<a>>))
    <2>. DEFINE s == <<a>>
    <2>1. s \in Seq(Call) /\ Len(s) = 1  OBVIOUS
    <2>2. s[1] = a  OBVIOUS
    <2>. HIDE DEF s
    <2>3. \A i \in 1 .. 1 - 1 : s[i].call = "put" /\ (Caches(s[i]) => ~Fails(a))  BY <2>2
    <2>4. \A i \in 1 + 1 .. Len(s) : s[i].call = "write"  BY <2>1, <2>2
    <2>5. 1 \in 1 .. Len(s) /\ s[1] = a  BY <2>1, <2>2
    <2>6. Complete(s) /\ (~Fails(a) => Cacheable(s))  BY <2>1, <2>3, <2>4, <2>5, Straight
    <2>. QED  BY <2>6 DEF s
  <1>2. Complete(<<p, a>>) /\ (~Fails(a) => Cacheable(<<p, a>>))
    <2>. DEFINE s == <<p, a>>
    <2>1. s \in Seq(Call) /\ Len(s) = 2  OBVIOUS
    <2>2. s[1] = p /\ s[2] = a  OBVIOUS
    <2>. HIDE DEF s
    <2>3. \A i \in 1 .. 2 - 1 : s[i].call = "put" /\ (Caches(s[i]) => ~Fails(a))  BY <2>2
    <2>4. \A i \in 2 + 1 .. Len(s) : s[i].call = "write"  BY <2>1, <2>2
    <2>5. 2 \in 1 .. Len(s) /\ s[2] = a  BY <2>1, <2>2
    <2>6. Complete(s) /\ (~Fails(a) => Cacheable(s))  BY <2>1, <2>3, <2>4, <2>5, Straight
    <2>. QED  BY <2>6 DEF s
  <1>3. Complete(<<p, a, b>>) /\ (~Fails(a) => Cacheable(<<p, a, b>>))
    <2>. DEFINE s == <<p, a, b>>
    <2>1. s \in Seq(Call) /\ Len(s) = 3  OBVIOUS
    <2>2. s[1] = p /\ s[2] = a /\ s[3] = b  OBVIOUS
    <2>. HIDE DEF s
    <2>3. \A i \in 1 .. 2 - 1 : s[i].call = "put" /\ (Caches(s[i]) => ~Fails(a))  BY <2>2
    <2>4. \A i \in 2 + 1 .. Len(s) : s[i].call = "write"  BY <2>1, <2>2
    <2>5. 2 \in 1 .. Len(s) /\ s[2] = a  BY <2>1, <2>2
    <2>6. Complete(s) /\ (~Fails(a) => Cacheable(s))  BY <2>1, <2>3, <2>4, <2>5, Straight
    <2>. QED  BY <2>6 DEF s
  <1>4. Complete(<<p, q, a>>) /\ (~Fails(a) => Cacheable(<<p, q, a>>))
    <2>. DEFINE s == <<p, q, a>>
    <2>1. s \in Seq(Call) /\ Len(s) = 3  OBVIOUS
    <2>2. s[1] = p /\ s[2] = q /\ s[3] = a  OBVIOUS
    <2>. HIDE DEF s
    <2>3. \A i \in 1 .. 3 - 1 : s[i].call = "put" /\ (Caches(s[i]) => ~Fails(a))  BY <2>2
    <2>4. \A i \in 3 + 1 .. Len(s) : s[i].call = "write"  BY <2>1, <2>2
    <2>5. 3 \in 1 .. Len(s) /\ s[3] = a  BY <2>1, <2>2
    <2>6. Complete(s) /\ (~Fails(a) => Cacheable(s))  BY <2>1, <2>3, <2>4, <2>5, Straight
    <2>. QED  BY <2>6 DEF s
  <1>5. Complete(<<p, q, a, b>>) /\ (~Fails(a) => Cacheable(<<p, q, a, b>>))
    <2>. DEFINE s == <<p, q, a, b>>
    <2>1. s \in Seq(Call) /\ Len(s) = 4  OBVIOUS
    <2>2. s[1] = p /\ s[2] = q /\ s[3] = a /\ s[4] = b  OBVIOUS
    <2>. HIDE DEF s
    <2>3. \A i \in 1 .. 3 - 1 : s[i].call = "put" /\ (Caches(s[i]) => ~Fails(a))  BY <2>2
    <2>4. \A i \in 3 + 1 .. Len(s) : s[i].call = "write"  BY <2>1, <2>2
    <2>5. 3 \in 1 .. Len(s) /\ s[3] = a  BY <2>1, <2>2
    <2>6. Complete(s) /\ (~Fails(a) => Cacheable(s))  BY <2>1, <2>3, <2>4, <2>5, Straight
    <2>. QED  BY <2>6 DEF s
  <1>6. Complete(<<p, q, a, b, b>>) /\ (~Fails(a) => Cacheable(<<p, q, a, b, b>>))
    <2>. DEFINE s == <<p, q, a, b, b>>
    <2>1. s \in Seq(Call) /\ Len(s) = 5  OBVIOUS
    <2>2. s[1] = p /\ s[2] = q /\ s[3] = a /\ s[4] = b /\ s[5] = b  OBVIOUS
    <2>. HIDE DEF s
    <2>3. \A i \in 1 .. 3 - 1 : s[i].call = "put" /\ (Caches(s[i]) => ~Fails(a))  BY <2>2
    <2>4. \A i \in 3 + 1 .. Len(s) : s[i].call = "write"  BY <2>1, <2>2
    <2>5. 3 \in 1 .. Len(s) /\ s[3] = a  BY <2>1, <2>2
    <2>6. Complete(s) /\ (~Fails(a) => Cacheable(s))  BY <2>1, <2>3, <2>4, <2>5, Straight
    <2>. QED  BY <2>6 DEF s
  <1>. QED  BY <1>1, <1>2, <1>3, <1>4, <1>5, <1>6

\* The building blocks of the handlers.
LEMMA Blocks ==
  ASSUME NEW c \in Codes
  PROVE  /\ Complete(<<Status(c)>>) /\ (~Failed(c) => Cacheable(<<Status(c)>>))
         /\ Complete(HttpError(c)) /\ Complete(writeJSONError(c)) /\ Cacheable(ServeError(c))
         /\ ~Failed(c) => \A t \in {Put("type", "text"), Put("type", "binary")} :
                           Cacheable(<<t, Put("length", "n"), Status(c), Body, Body>>)
  <1>1. Status(c) \in Call /\ Answers(Status(c)) /\ (~Failed(c) => ~Fails(Status(c)))
    BY StatusKinds
  <1>2. Body \in Call /\ Body.call = "write"  BY OtherKinds
  <1>3. \A p \in PlainPuts : p \in Call /\ p.call = "put" /\ ~Caches(p)  BY PutKinds
  <1>4. ASSUME NEW p \in PlainPuts, NEW q \in PlainPuts
        PROVE  \A s \in {<<Status(c)>>, <<p, Status(c), Body>>, <<p, q, Status(c), Body>>,
                         <<p, q, Status(c), Body, Body>>} :
                  Complete(s) /\ (~Fails(Status(c)) => Cacheable(s))
    BY <1>1, <1>2, <1>3, Shapes
  <1>5. {Put("type", "text"), Put("type", "binary"), Put("length", ""), Put("length", "n")}
           \subseteq PlainPuts
    BY DEF PlainPuts
  <1>6. Complete(<<Status(c)>>) /\ (~Failed(c) => Cacheable(<<Status(c)>>))
    BY <1>1, <1>4, <1>5
  <1>7. Complete(HttpError(c))  BY <1>4, <1>5, Zenon DEF HttpError
  <1>8. Complete(writeJSONError(c))  BY <1>4, <1>5, Zenon DEF writeJSONError
  <1>9. ASSUME ~Failed(c), NEW t \in {Put("type", "text"), Put("type", "binary")}
        PROVE  Cacheable(<<t, Put("length", "n"), Status(c), Body, Body>>)
    BY <1>1, <1>4, <1>5, <1>9, Zenon
  <1>10. Cacheable(ServeError(c))
    BY <1>7, OtherKinds, Prepend DEF ServeError, Cacheable, Complete
  <1>. QED  BY <1>6, <1>7, <1>8, <1>9, <1>10

LEMMA Successes ==
  /\ \A t \in {Put("type", "text"), Put("type", "binary")} : Complete(<<t, Body>>)
  /\ Complete(<<Put("type", "text"), Put("cache", "private"), Body>>)
  /\ Cacheable(<<Put("type", ""), Put("length", ""), Status(304)>>)
  <1>1. Body \in Call /\ Body.call = "write" /\ Answers(Body) /\ ~Fails(Body)
    BY OtherKinds
  <1>2. ASSUME NEW p \in PlainPuts \union CachePuts, NEW q \in PlainPuts \union CachePuts
        PROVE  Complete(<<p, Body>>) /\ Complete(<<p, q, Body>>)
    BY <1>1, PutKinds, Shapes
  <1>3. /\ {Put("type", "text"), Put("type", "binary"), Put("type", ""), Put("length", "")}
              \subseteq PlainPuts
        /\ Put("cache", "private") \in CachePuts
    BY DEF PlainPuts, CachePuts
  <1>4. 304 \in Codes /\ ~Failed(304)  BY StatusKinds
  <1>5. ASSUME NEW x \in Codes, ~Failed(x), NEW p \in PlainPuts, NEW q \in PlainPuts
        PROVE  Cacheable(<<p, q, Status(x)>>)
    <2>1. Status(x) \in Call /\ Answers(Status(x)) /\ ~Fails(Status(x))
      BY <1>5, StatusKinds
    <2>2. \A c \in PlainPuts : c \in Call /\ c.call = "put"  BY PutKinds
    <2>. QED  BY <1>1, <2>1, <2>2, Shapes
  <1>6. Cacheable(<<Put("type", ""), Put("length", ""), Status(304)>>)
    BY <1>3, <1>4, <1>5, Zenon
  <1>. QED  BY <1>2, <1>3, <1>6, Zenon

\* The wrappers: a policy that may be cached needs scripts that clear it.
LEMMA Wrapped ==
  ASSUME NEW S
  PROVE  /\ (\A s \in S : Complete(s)) =>
               \A s \in cacheControl("no-store", S) \union cacheControl("no-cache", S) :
                   Complete(s)
         /\ (\A s \in S : Cacheable(s)) =>
               \A s \in cacheControl("long", S) \union cacheWithETag("long", S) : Cacheable(s)
  <1>1. ASSUME NEW c \in PlainPuts \union CachePuts
        PROVE  c \in Call /\ ~Answers(c) /\ (c \in PlainPuts => ~Caches(c))
    BY PutKinds DEF Answers
  <1>2. ASSUME NEW s, Complete(s), NEW c \in PlainPuts  PROVE Complete(<<c>> \o s)
    BY <1>1, <1>2, Prepend DEF Complete
  <1>3. ASSUME NEW s, Cacheable(s), NEW c \in CachePuts  PROVE Cacheable(<<c>> \o s)
    BY <1>1, <1>3, Prepend DEF Cacheable, Complete
  <1>4. /\ {Put("cache", "no-store"), Put("cache", "no-cache")} \subseteq PlainPuts
        /\ {Put("cache", "long"), Put("etag", "v")} \subseteq CachePuts
    BY DEF PlainPuts, CachePuts
  <1>. QED  BY <1>2, <1>3, <1>4 DEF cacheControl, cacheWithETag

\* Every script of every route answers, sets its status first, and takes its
\* caching headers back before it fails.
LEMMA ScriptsComplete ==
  ASSUME NEW r \in Requests, NEW s \in Scripts(r)
  PROVE  Complete(s)
  <1>0. /\ 200 \in Codes /\ 400 \in Codes /\ 403 \in Codes /\ 404 \in Codes /\ 409 \in Codes
        /\ 413 \in Codes /\ 416 \in Codes /\ 500 \in Codes /\ 503 \in Codes
    BY StatusKinds
  <1>1. ASSUME NEW c \in Codes
        PROVE  /\ Complete(HttpError(c)) /\ Complete(writeJSONError(c))
               /\ Complete(<<Status(c)>>) /\ Cacheable(ServeError(c))
    BY Blocks
  <1>2. /\ \A t \in {Put("type", "text"), Put("type", "binary")} : Complete(<<t, Body>>)
        /\ Complete(<<Put("type", "text"), Put("cache", "private"), Body>>)
    BY Successes
  <1>3. Complete(writeJSONOK) /\ Complete(JSON)
    BY <1>2, Zenon DEF writeJSONOK, JSON
  <1>4. Complete(NotFound)  BY <1>0, <1>1, Zenon DEF NotFound
  <1>5. \A q \in ServeContent : Cacheable(q)
    <2>1. Cacheable(<<Put("type", ""), Put("length", ""), Status(304)>>)
      BY Successes
    <2>2. Cacheable(ServeError(404)) /\ Cacheable(ServeError(416))
      BY <1>0, <1>1, Zenon
    <2>3. ASSUME NEW c \in {200, 206, 301, 412}
          PROVE  c \in Codes /\ ~Failed(c)
      BY StatusKinds
    <2>4. Cacheable(<<Status(301)>>) /\ Cacheable(<<Status(412)>>)
      <3>1. ASSUME NEW c \in Codes, ~Failed(c)  PROVE Cacheable(<<Status(c)>>)
        BY <3>1, Blocks
      <3>2. 301 \in Codes /\ ~Failed(301)  BY StatusKinds
      <3>3. 412 \in Codes /\ ~Failed(412)  BY StatusKinds
      <3>. QED  BY <3>1, <3>2, <3>3, Zenon
    <2>5. ASSUME NEW t \in {"text", "binary"}, NEW c \in {200, 206}
          PROVE  Cacheable(<<Put("type", t), Put("length", "n"), Status(c), Body, Body>>)
      <3>1. Put("type", t) \in {Put("type", "text"), Put("type", "binary")}  OBVIOUS
      <3>2. c \in Codes /\ ~Failed(c)  BY <2>3
      <3>. QED  BY <3>1, <3>2, Blocks
    <2>. DEFINE Contents == {<<Put("type", t), Put("length", "n"), Status(c), Body, Body>> :
                                t \in {"text", "binary"}, c \in {200, 206}}
                Redirect == <<Status(301)>>
                Refused == <<Status(412)>>
                Fresh == <<Put("type", ""), Put("length", ""), Status(304)>>
                Missing == ServeError(404)
                Outside == ServeError(416)
    <2>6. \A q \in Contents : Cacheable(q)  BY <2>5
    <2>7. ServeContent = {Redirect, Refused, Fresh, Missing, Outside} \union Contents
      BY DEF ServeContent
    <2>8. /\ Cacheable(Redirect) /\ Cacheable(Refused) /\ Cacheable(Fresh)
          /\ Cacheable(Missing) /\ Cacheable(Outside)
      BY <2>1, <2>2, <2>4, Zenon
    <2>. HIDE DEF Contents, Redirect, Refused, Fresh, Missing, Outside
    <2>. QED  BY <2>6, <2>7, <2>8
  <1>6. \A q \in noDirListing(ServeContent) : Cacheable(q)
    <2>1. Cacheable(<<ClearCache>> \o NotFound)
      BY <1>0, <1>1, Zenon DEF NotFound, ServeError
    <2>. QED  BY <1>5, <2>1 DEF noDirListing
  <1>7. \A q \in handleHealth \union handleGames \union handleGetSave \union handlePostSave
                   \union handleStatus \union handleRescan \union handleGameDetails :
          Complete(q)
    <2>. \A c \in Codes : Complete(writeJSONError(c)) /\ Complete(<<Status(c)>>)  BY <1>1
    <2>1. Complete(writeJSONError(400)) /\ Complete(writeJSONError(404))
      BY <1>0, Zenon
    <2>2. Complete(writeJSONError(409)) /\ Complete(writeJSONError(413))
      BY <1>0, Zenon
    <2>3. Complete(writeJSONError(500)) /\ Complete(writeJSONError(503))
      BY <1>0, Zenon
    <2>4. Complete(<<Status(200)>>) /\ Complete(<<Put("type", "binary"), Body>>)
      BY <1>0, <1>2, Zenon
    <2>5. \A q \in handleHealth : Complete(q)  BY <1>3 DEF handleHealth
    <2>6. \A q \in handleStatus : Complete(q)  BY <1>3 DEF handleStatus
    <2>7. \A q \in handleGames : Complete(q)  BY <1>3, <2>3, Zenon DEF handleGames
    <2>8. ASSUME NEW q \in handleGetSave  PROVE Complete(q)
      <3>1. \/ q = writeJSONError(400) \/ q = NotFound \/ q = writeJSONError(500)
            \/ q = <<Put("type", "binary"), Body>>
        BY DEF handleGetSave
      <3>. QED  BY <1>4, <2>1, <2>3, <2>4, <3>1
    <2>9. ASSUME NEW q \in handlePostSave  PROVE Complete(q)
      <3>1. \/ q = writeJSONError(400) \/ q = NotFound \/ q = writeJSONError(413)
            \/ q = writeJSONError(500) \/ q = <<Status(200)>>
        BY DEF handlePostSave
      <3>. QED  BY <1>4, <2>1, <2>2, <2>3, <2>4, <3>1
    <2>10. ASSUME NEW q \in handleRescan  PROVE Complete(q)
      <3>1. \/ q = writeJSONError(503) \/ q = writeJSONError(409)
            \/ q = writeJSONOK
        BY DEF handleRescan
      <3>. QED  BY <1>3, <2>2, <2>3, <3>1
    <2>11. ASSUME NEW q \in handleGameDetails  PROVE Complete(q)
      <3>1. \/ q = writeJSONError(400) \/ q = writeJSONError(404)
            \/ q = <<Put("type", "text"), Put("cache", "private"), Body>>
        BY DEF handleGameDetails
      <3>. QED  BY <1>2, <2>1, <3>1
    <2>. QED  BY <2>5, <2>6, <2>7, <2>8, <2>9, <2>10, <2>11
  <1>8. \A q \in handleHealth : Complete(q)  BY <1>3 DEF handleHealth
  <1>9. \A q \in serveFile : Complete(q)
    BY <1>4, <1>5, Wrapped DEF serveFile, Cacheable
  <1>10. \A q \in cacheWithETag("long", noDirListing(ServeContent)) : Complete(q)
    BY <1>6, Wrapped DEF Cacheable
  <1>11. \A q \in cacheControl("no-cache", ServeContent)
                   \union cacheControl("no-cache", noDirListing(ServeContent)) : Complete(q)
    BY <1>5, <1>6, Wrapped DEF Cacheable
  <1>12. \A q \in routes : Complete(q)
    BY <1>7, <1>9, <1>10, <1>11, Wrapped DEF routes
  <1>13. \A q \in cacheControl("no-store", handleHealth) : Complete(q)
    BY <1>8, Wrapped
  <1>14. Complete(HttpError(403))  BY <1>0, <1>1, Zenon
  <1>. QED  BY <1>12, <1>13, <1>14, Zenon DEF Scripts

-----------------------------------------------------------------------------
(* The inductive invariant *)

Places  == {"done", "gzip", "serve", "close", "put", "recover", "log"}
Streams == {"fresh", "open", "closed"}
Pieces  == {"plain", "head", "zip", "tail"} \X Requests

Responses ==
    [at : Places, todo : Seq(Call), accepts : BOOLEAN, gz : Writers \union {NoWriter},
     header : Headers, headerSet : BOOLEAN, compressing : BOOLEAN,
     wrote : BOOLEAN, status : Codes, panicked : BOOLEAN,
     sent : Headers, line : Codes \union {0}, lines : Nat, body : Seq(Pieces)]

\* What has reached the connection, and what loggingResponseWriter knows of it.
Wire(p) ==
    /\ p.lines = IF p.wrote THEN 1 ELSE 0
    /\ p.wrote => p.status = p.line
    /\ Failed(p.line) => ~Cached(p.sent)
    /\ p.compressing <=> p.sent.enc = "gzip"
    /\ p.compressing => p.accepts /\ p.sent.vary = "enc" /\ p.sent.length = ""
    /\ ~p.wrote => /\ p.line = 0 /\ p.body = <<>>
                   /\ ~p.compressing /\ p.header.enc = ""

\* What the rest of the script can still do, given what was done.
Script(p) ==
    /\ p.at \in {"gzip", "serve"} =>
          /\ Sound(p.todo) /\ ~p.panicked
          /\ p.wrote => NoStatus(p.todo)
          /\ ~p.wrote => Answered(p.todo)
          /\ Cached(p.header) => ClearedFirst(p.todo)
          /\ p.accepts => (p.headerSet <=> p.wrote)
    /\ p.at = "gzip" => ~p.wrote
    /\ p.at \in {"close", "put", "recover"} => p.wrote \/ p.panicked
    /\ p.at = "log" => p.wrote

\* The body, and the stream st of the Writer that compresses it.
Partial(body, r) ==
    /\ Len(body) >= 1 /\ body[1] = <<"head", r>>
    /\ \A i \in 2 .. Len(body) : body[i] = <<"zip", r>>
Whole(body, r) ==
    /\ Len(body) >= 2 /\ body[1] = <<"head", r>> /\ body[Len(body)] = <<"tail", r>>
    /\ \A i \in 2 .. Len(body) - 1 : body[i] = <<"zip", r>>
AllPlain(body, r) == \A i \in 1 .. Len(body) : body[i] = <<"plain", r>>

Holds(p) == p.accepts /\ p.at \in {"serve", "close", "put"}

Zips(p, r, st) ==
    /\ p.gz # NoWriter <=> Holds(p)
    /\ ~p.compressing => AllPlain(p.body, r)
    /\ p.compressing /\ p.at \in {"put", "recover", "log"} => Whole(p.body, r)
    /\ p.accepts /\ p.at \in {"serve", "close"} =>
          IF p.compressing
             THEN \/ st = "fresh" /\ p.body = <<>>
                  \/ st = "open" /\ Partial(p.body, r)
             ELSE st = "fresh"

OwnStream(r) == IF resp[r].gz = NoWriter THEN "closed" ELSE stream[resp[r].gz]

Good(p, r, st) == Wire(p) /\ Script(p) /\ Zips(p, r, st)

ResponsesOK ==
    /\ DOMAIN resp = Requests
    /\ \A r \in Requests : resp[r] \in Responses /\ Good(resp[r], r, OwnStream(r))

PoolOK ==
    /\ pool \subseteq Writers
    /\ dest \in [Writers -> Requests]
    /\ stream \in [Writers -> Streams]

ResponseInv == PoolOK /\ ResponsesOK /\ WritersExclusive

-----------------------------------------------------------------------------
(* The operators on a response *)

LEMMA LogStatusDoes ==
  ASSUME NEW p \in Responses, NEW c \in Codes, ~p.wrote, p.lines = 0,
         NEW q, q = LogStatus(p, c)
  PROVE  /\ q \in Responses
         /\ q.wrote /\ q.status = c /\ q.line = c /\ q.sent = p.header /\ q.lines = 1
         /\ q.at = p.at /\ q.todo = p.todo /\ q.accepts = p.accepts /\ q.gz = p.gz
         /\ q.header = p.header /\ q.headerSet = p.headerSet
         /\ q.compressing = p.compressing /\ q.panicked = p.panicked /\ q.body = p.body
  <1>1. LogStatus(p, c) = [p EXCEPT !.wrote = TRUE, !.status = c, !.line = c,
                                    !.sent = p.header, !.lines = 1]
    BY DEF LogStatus, Responses
  <1>2. /\ q.wrote /\ q.status = c /\ q.line = c /\ q.sent = p.header /\ q.lines = 1
    BY <1>1 DEF Responses
  <1>3. /\ q.at = p.at /\ q.todo = p.todo /\ q.accepts = p.accepts /\ q.gz = p.gz
        /\ q.header = p.header /\ q.headerSet = p.headerSet
        /\ q.compressing = p.compressing /\ q.panicked = p.panicked /\ q.body = p.body
    BY <1>1 DEF Responses
  <1>4. q \in Responses
    <2>1. c \in Codes \union {0} /\ 1 \in Nat  OBVIOUS
    <2>. QED  BY <1>1, <2>1 DEF Responses
  <1>. QED  BY <1>2, <1>3, <1>4

\* Once a status was sent only the body grows.
LEMMA LogWriteDoes ==
  ASSUME NEW p \in Responses, Wire(p), NEW chunks \in Seq(Pieces)
  PROVE  LET q == LogWrite(p, chunks)
         IN  /\ q \in Responses /\ Wire(q)
             /\ q.wrote /\ q.body = p.body \o chunks
             /\ q.at = p.at /\ q.todo = p.todo /\ q.accepts = p.accepts /\ q.gz = p.gz
             /\ q.header = p.header /\ q.headerSet = p.headerSet
             /\ q.compressing = p.compressing /\ q.panicked = p.panicked
  <1>. DEFINE m == IF p.wrote THEN p ELSE LogStatus(p, 200)
              q == LogWrite(p, chunks)
  <1>1. 200 \in Codes /\ ~Failed(200)  BY StatusKinds
  <1>2. /\ m \in Responses /\ m.wrote /\ m.body = p.body
        /\ m.at = p.at /\ m.todo = p.todo /\ m.accepts = p.accepts /\ m.gz = p.gz
        /\ m.header = p.header /\ m.headerSet = p.headerSet
        /\ m.compressing = p.compressing /\ m.panicked = p.panicked
        /\ m.lines = 1 /\ m.status = m.line
        /\ Failed(m.line) => ~Cached(m.sent)
        /\ m.compressing <=> m.sent.enc = "gzip"
        /\ m.compressing => m.accepts /\ m.sent.vary = "enc" /\ m.sent.length = ""
    <2>1. CASE p.wrote  BY <2>1 DEF Wire
    <2>2. CASE ~p.wrote
      <3>1. p.lines = 0 /\ ~p.compressing /\ p.header.enc = ""  BY <2>2 DEF Wire
      <3>2. m = LogStatus(p, 200)  BY <2>2
      <3>. HIDE DEF m
      <3>3. /\ m \in Responses /\ m.wrote /\ m.body = p.body
            /\ m.at = p.at /\ m.todo = p.todo /\ m.accepts = p.accepts /\ m.gz = p.gz
            /\ m.header = p.header /\ m.headerSet = p.headerSet
            /\ m.compressing = p.compressing /\ m.panicked = p.panicked
            /\ m.lines = 1 /\ m.status = 200 /\ m.line = 200 /\ m.sent = p.header
        <4>1. p \in Responses /\ ~p.wrote /\ p.lines = 0 /\ 200 \in Codes  BY <1>1, <2>2, <3>1
        <4>2. m \in Responses  BY <4>1, <3>2, LogStatusDoes
        <4>. QED  BY <4>1, <3>2, LogStatusDoes
      <3>. QED  BY <1>1, <3>1, <3>3
    <2>. QED  BY <2>1, <2>2
  <1>3. q = [m EXCEPT !.body = m.body \o chunks]  BY DEF LogWrite
  <1>. HIDE DEF m, q
  <1>4. m.body \o chunks \in Seq(Pieces)
    <2>1. m.body \in Seq(Pieces)  BY <1>2 DEF Responses
    <2>. QED  BY <2>1
  <1>5. q \in Responses  BY <1>2, <1>3, <1>4 DEF Responses
  <1>6. /\ q.wrote /\ q.body = p.body \o chunks
        /\ q.at = p.at /\ q.todo = p.todo /\ q.accepts = p.accepts /\ q.gz = p.gz
        /\ q.header = p.header /\ q.headerSet = p.headerSet
        /\ q.compressing = p.compressing /\ q.panicked = p.panicked
    BY <1>2, <1>3 DEF Responses
  <1>7. q.lines = m.lines /\ q.status = m.status /\ q.line = m.line /\ q.sent = m.sent
    BY <1>2, <1>3 DEF Responses
  <1>8. Wire(q)  BY <1>2, <1>6, <1>7 DEF Wire
  <1>. QED  BY <1>5, <1>6, <1>8 DEF q

\* The first status: what is sent is not to be cached if it is a failure, and
\* compression is announced as it is decided.
LEMMA GzipStatusDoes ==
  ASSUME NEW p \in Responses, Wire(p), ~p.wrote, NEW c \in Codes,
         Failed(c) => ~Cached(p.header)
  PROVE  LET q == GzipStatus(p, c)
         IN  /\ q \in Responses /\ Wire(q)
             /\ q.wrote /\ q.headerSet /\ q.body = <<>>
             /\ q.at = p.at /\ q.todo = p.todo /\ q.accepts = p.accepts /\ q.gz = p.gz
             /\ q.panicked = p.panicked /\ (Cached(q.header) => Cached(p.header))
  <1>. DEFINE q == GzipStatus(p, c)
              m == [p EXCEPT !.headerSet = TRUE, !.compressing = TRUE,
                             !.header.enc = "gzip", !.header.length = "",
                             !.header.vary = "enc"]
              n == [p EXCEPT !.headerSet = TRUE]
              g == p.accepts /\ ~p.headerSet /\ p.header.type = "text"
  <1>1. p.lines = 0 /\ p.body = <<>> /\ ~p.compressing /\ p.header.enc = ""
    BY DEF Wire
  <1>2. CASE g
    <2>1. q = LogStatus(m, c)  BY <1>2 DEF GzipStatus
    <2>2. m \in Responses
      <3>1. [p.header EXCEPT !.enc = "gzip", !.length = "", !.vary = "enc"] \in Headers
        <4>1. p.header \in Headers  BY DEF Responses
        <4>. QED  BY <4>1 DEF Headers
      <3>. QED  BY <3>1 DEF Responses
    <2>3. /\ m.headerSet /\ m.compressing /\ ~m.wrote /\ m.lines = 0 /\ m.body = <<>>
          /\ m.at = p.at /\ m.todo = p.todo /\ m.accepts = p.accepts /\ m.gz = p.gz
          /\ m.panicked = p.panicked
      BY <1>1 DEF Responses
    <2>4. /\ m.header.enc = "gzip" /\ m.header.length = "" /\ m.header.vary = "enc"
          /\ m.header.cache = p.header.cache /\ m.header.etag = p.header.etag
      BY DEF Responses, Headers
    <2>5. Cached(m.header) <=> Cached(p.header)  BY <2>4 DEF Cached
    <2>. HIDE DEF m, q
    <2>6. /\ q \in Responses /\ q.wrote /\ q.headerSet /\ q.compressing /\ q.body = <<>>
          /\ q.at = p.at /\ q.todo = p.todo /\ q.accepts = p.accepts /\ q.gz = p.gz
          /\ q.panicked = p.panicked /\ q.header = m.header /\ q.sent = m.header
          /\ q.status = c /\ q.line = c /\ q.lines = 1
      BY <2>1, <2>2, <2>3, LogStatusDoes
    <2>7. Wire(q)  BY <1>2, <2>4, <2>5, <2>6 DEF Wire
    <2>. QED  BY <2>5, <2>6, <2>7 DEF q
  <1>3. CASE ~g
    <2>1. q = LogStatus(n, c)  BY <1>3 DEF GzipStatus
    <2>2. n \in Responses  BY DEF Responses
    <2>3. /\ n.headerSet /\ ~n.compressing /\ ~n.wrote /\ n.lines = 0 /\ n.body = <<>>
          /\ n.at = p.at /\ n.todo = p.todo /\ n.accepts = p.accepts /\ n.gz = p.gz
          /\ n.panicked = p.panicked /\ n.header = p.header
      BY <1>1 DEF Responses
    <2>. HIDE DEF n, q, g
    <2>4. /\ q \in Responses /\ q.wrote /\ q.headerSet /\ ~q.compressing /\ q.body = <<>>
          /\ q.at = p.at /\ q.todo = p.todo /\ q.accepts = p.accepts /\ q.gz = p.gz
          /\ q.panicked = p.panicked /\ q.header = p.header /\ q.sent = p.header
          /\ q.status = c /\ q.line = c /\ q.lines = 1
      BY <2>1, <2>2, <2>3, LogStatusDoes
    <2>5. Wire(q)  BY <1>1, <2>4 DEF Wire
    <2>. QED  BY <2>4, <2>5 DEF q
  <1>. QED  BY <1>2, <1>3

LEMMA ClearDoes ==
  ASSUME NEW p \in Responses, NEW q, q = clearLongCacheHeaders(p)
  PROVE  /\ q \in Responses
         /\ q.at = p.at /\ q.todo = p.todo /\ q.accepts = p.accepts /\ q.gz = p.gz
         /\ q.headerSet = p.headerSet /\ q.compressing = p.compressing
         /\ q.panicked = p.panicked /\ q.wrote = p.wrote /\ q.body = p.body
         /\ q.status = p.status /\ q.line = p.line /\ q.lines = p.lines /\ q.sent = p.sent
         /\ q.header.enc = "" /\ ~Cached(q.header)
  <1>. DEFINE g == [p.header EXCEPT !.cache = "", !.etag = "", !.enc = ""]
  <1>1. p.header \in Headers  BY DEF Responses
  <1>2. g \in Headers  BY <1>1 DEF Headers
  <1>3. g.enc = "" /\ g.cache = "" /\ g.etag = ""  BY <1>1 DEF Headers
  <1>4. q = [p EXCEPT !.header = g]  BY DEF clearLongCacheHeaders, Responses
  <1>5. ~Cached(g)  BY <1>3 DEF Cached
  <1>. HIDE DEF g
  <1>6. q \in Responses  BY <1>2, <1>4 DEF Responses
  <1>7. /\ q.at = p.at /\ q.todo = p.todo /\ q.accepts = p.accepts /\ q.gz = p.gz
        /\ q.headerSet = p.headerSet /\ q.compressing = p.compressing
        /\ q.panicked = p.panicked /\ q.wrote = p.wrote /\ q.body = p.body
        /\ q.status = p.status /\ q.line = p.line /\ q.lines = p.lines /\ q.sent = p.sent
        /\ q.header = g
    BY <1>4 DEF Responses
  <1>. QED  BY <1>3, <1>5, <1>6, <1>7

\* A step of the wrappers changes the response's place, and what that implies.
Moved(p, a, b, w) == [p EXCEPT !.at = a, !.panicked = b, !.gz = w]

LEMMA MovedDoes ==
  ASSUME NEW p \in Responses, Wire(p),
         NEW a \in Places, NEW b \in BOOLEAN, NEW w \in Writers \union {NoWriter}
  PROVE  /\ Moved(p, a, b, w) \in Responses /\ Wire(Moved(p, a, b, w))
         /\ Moved(p, a, b, w).at = a /\ Moved(p, a, b, w).panicked = b
         /\ Moved(p, a, b, w).gz = w /\ Moved(p, a, b, w).todo = p.todo
         /\ Moved(p, a, b, w).accepts = p.accepts /\ Moved(p, a, b, w).header = p.header
         /\ Moved(p, a, b, w).headerSet = p.headerSet
         /\ Moved(p, a, b, w).compressing = p.compressing
         /\ Moved(p, a, b, w).wrote = p.wrote /\ Moved(p, a, b, w).body = p.body
  <1>. DEFINE q == Moved(p, a, b, w)
  <1>1. q \in Responses  BY DEF Moved, Responses
  <1>2. /\ q.at = a /\ q.panicked = b /\ q.gz = w
        /\ q.todo = p.todo /\ q.accepts = p.accepts /\ q.header = p.header
        /\ q.headerSet = p.headerSet /\ q.compressing = p.compressing
        /\ q.wrote = p.wrote /\ q.body = p.body
    BY DEF Moved, Responses
  <1>3. q.status = p.status /\ q.line = p.line /\ q.lines = p.lines /\ q.sent = p.sent
    BY DEF Moved, Responses
  <1>. HIDE DEF q
  <1>4. Wire(q)  BY <1>2, <1>3 DEF Wire
  <1>. QED  BY <1>1, <1>2, <1>4 DEF q

\* What a piece does to the body of a response to r.
LEMMA Appended ==
  ASSUME NEW r \in Requests, NEW b \in Seq(Pieces)
  PROVE  /\ Plain(r) \in Seq(Pieces)
         /\ AllPlain(b, r) => AllPlain(b \o Plain(r), r)
         /\ \A k \in {"head", "zip", "tail"} : <<<<k, r>>>> \in Seq(Pieces)
         /\ \A k \in {"zip", "tail"} : <<<<"head", r>>>> \o <<<<k, r>>>> \in Seq(Pieces)
         /\ Partial(<<>> \o (<<<<"head", r>>>> \o <<<<"zip", r>>>>), r)
         /\ Whole(<<>> \o (<<<<"head", r>>>> \o <<<<"tail", r>>>>), r)
         /\ Partial(b, r) => /\ Partial(b \o (<<>> \o <<<<"zip", r>>>>), r)
                             /\ Whole(b \o (<<>> \o <<<<"tail", r>>>>), r)
  <1>1. \A k \in {"plain", "head", "zip", "tail"} : <<k, r>> \in Pieces
    BY DEF Pieces
  <1>2. ASSUME NEW x \in Pieces, NEW y \in Pieces
        PROVE  /\ <<x>> \in Seq(Pieces) /\ <<x>> \o <<y>> \in Seq(Pieces)
               /\ <<>> \o <<y>> = <<y>>
               /\ LET z == <<>> \o (<<x>> \o <<y>>)
                  IN  Len(z) = 2 /\ z[1] = x /\ z[2] = y
               /\ Len(b \o <<x>>) = Len(b) + 1
               /\ \A i \in 1 .. Len(b) : (b \o <<x>>)[i] = b[i]
               /\ (b \o <<x>>)[Len(b) + 1] = x
    <2>1. <<x>> \in Seq(Pieces) /\ <<x>> \o <<y>> \in Seq(Pieces)  OBVIOUS
    <2>2. <<>> \o <<y>> = <<y>>  OBVIOUS
    <2>3. LET z == <<>> \o (<<x>> \o <<y>>)
          IN  Len(z) = 2 /\ z[1] = x /\ z[2] = y
      OBVIOUS
    <2>4. /\ Len(b \o <<x>>) = Len(b) + 1
          /\ \A i \in 1 .. Len(b) : (b \o <<x>>)[i] = b[i]
          /\ (b \o <<x>>)[Len(b) + 1] = x
      OBVIOUS
    <2>. QED  BY <2>1, <2>2, <2>3, <2>4
  <1>3. AllPlain(b, r) => AllPlain(b \o Plain(r), r) /\ Plain(r) \in Seq(Pieces)
    BY <1>1, <1>2 DEF AllPlain, Plain
  <1>4. Plain(r) \in Seq(Pieces)  BY <1>1, <1>2 DEF Plain
  <1>5. \A k \in {"head", "zip", "tail"} : <<<<k, r>>>> \in Seq(Pieces)
    BY <1>1, <1>2
  <1>6. \A k \in {"zip", "tail"} : <<<<"head", r>>>> \o <<<<k, r>>>> \in Seq(Pieces)
    BY <1>1, <1>2
  <1>7. Partial(<<>> \o (<<<<"head", r>>>> \o <<<<"zip", r>>>>), r)
    BY <1>1, <1>2 DEF Partial
  <1>8. Whole(<<>> \o (<<<<"head", r>>>> \o <<<<"tail", r>>>>), r)
    BY <1>1, <1>2 DEF Whole
  <1>9. ASSUME Partial(b, r)  PROVE Partial(b \o (<<>> \o <<<<"zip", r>>>>), r)
    BY <1>1, <1>2, <1>9 DEF Partial
  <1>10. ASSUME Partial(b, r)  PROVE Whole(b \o (<<>> \o <<<<"tail", r>>>>), r)
    BY <1>1, <1>2, <1>10 DEF Partial, Whole
  <1>. QED  BY <1>3, <1>4, <1>5, <1>6, <1>7, <1>8, <1>9, <1>10

-----------------------------------------------------------------------------
(* The steps *)

\* A step of r that leaves its Writer with it, and touches no other stream.
LEMMA OneResponse ==
  ASSUME ResponseInv, NEW r \in Requests, NEW p \in Responses,
         resp' = [resp EXCEPT ![r] = p], p.gz = resp[r].gz,
         pool' = pool, dest' = dest, stream' \in [Writers -> Streams],
         \A w \in Writers : w # p.gz => stream'[w] = stream[w],
         NEW st, st = IF p.gz = NoWriter THEN "closed" ELSE stream'[p.gz],
         Good(p, r, st)
  PROVE  ResponseInv'
  <1>1. PoolOK'  BY DEF ResponseInv, PoolOK
  <1>2. DOMAIN resp' = Requests /\ resp'[r] = p
        /\ \A q \in Requests \ {r} : resp'[q] = resp[q]
    BY DEF ResponseInv, ResponsesOK
  <1>3. \A q \in Requests : resp'[q].gz = resp[q].gz  BY <1>2
  <1>4. WritersExclusive'
    BY <1>3 DEF ResponseInv, WritersExclusive
  <1>5. ASSUME NEW q \in Requests  PROVE resp'[q] \in Responses /\ Good(resp'[q], q, OwnStream(q)')
    <2>1. CASE q = r
      <3>1. OwnStream(q)' = st  BY <1>2, <2>1 DEF OwnStream
      <3>. QED  BY <1>2, <2>1, <3>1
    <2>2. CASE q # r
      <3>1. resp[q] \in Responses /\ Good(resp[q], q, OwnStream(q))
        BY DEF ResponseInv, ResponsesOK
      <3>2. resp[q].gz \in Writers \union {NoWriter}  BY <3>1 DEF Responses
      <3>3. resp[q].gz # NoWriter => resp[q].gz # p.gz
        BY <2>2 DEF ResponseInv, WritersExclusive
      <3>4. OwnStream(q)' = OwnStream(q)
        BY <1>3, <3>2, <3>3 DEF OwnStream
      <3>. QED  BY <1>2, <2>2, <3>1, <3>4
    <2>. QED  BY <2>1, <2>2
  <1>. QED  BY <1>1, <1>2, <1>4, <1>5 DEF ResponseInv, ResponsesOK

LEMMA OneCall ==
  ASSUME ResponseInv, NEW r \in Requests, NEW p \in Responses,
         resp' = [resp EXCEPT ![r] = p], p.gz = resp[r].gz,
         UNCHANGED <<pool, dest, stream>>, Good(p, r, OwnStream(r))
  PROVE  ResponseInv'
  <1>1. stream' \in [Writers -> Streams]  BY DEF ResponseInv, PoolOK
  <1>2. OwnStream(r) = IF p.gz = NoWriter THEN "closed" ELSE stream'[p.gz]
    BY DEF OwnStream
  <1>. QED  BY <1>1, <1>2, OneResponse

\* What the invariant says of one response, and of its Writer.
LEMMA Now ==
  ASSUME ResponseInv, NEW r \in Requests
  PROVE  /\ resp[r] \in Responses
         /\ Wire(resp[r]) /\ Script(resp[r]) /\ Zips(resp[r], r, OwnStream(r))
  BY DEF ResponseInv, ResponsesOK, Good

\* The next call of the script, and the response without it.
LEMMA CallAndRest ==
  ASSUME ResponseInv, NEW r \in Requests, NEW call, Calls(r, call)
  PROVE  LET p == resp[r]
             c == p.todo[1]
             q == Called(r)
         IN  /\ q \in Responses /\ Wire(q) /\ Zips(q, r, OwnStream(r))
             /\ q.at = "serve" /\ q.todo = Tail(p.todo) /\ q.accepts = p.accepts
             /\ q.gz = p.gz /\ q.header = p.header /\ q.headerSet = p.headerSet
             /\ q.compressing = p.compressing /\ q.panicked = p.panicked
             /\ q.wrote = p.wrote /\ q.body = p.body
             /\ c \in Call /\ c.call = call
             /\ Sound(q.todo) /\ ~q.panicked
             /\ Answers(c) => NoStatus(q.todo)
             /\ q.wrote => NoStatus(q.todo) /\ c.call # "status"
             /\ ~q.wrote /\ ~Answers(c) => Answered(q.todo)
             /\ Caches(c) => ClearedFirst(q.todo)
             /\ Cached(q.header) /\ c.call # "clear" => ClearedFirst(q.todo)
             /\ Cached(q.header) => ~Fails(c)
             /\ q.accepts => (q.headerSet <=> q.wrote)
  <1>. DEFINE p == resp[r]
              q == Called(r)
              c == p.todo[1]
  <1>1. p \in Responses /\ Wire(p) /\ Script(p) /\ Zips(p, r, OwnStream(r))
    BY Now
  <1>2. p.at = "serve" /\ p.todo # <<>> /\ c.call = call  BY DEF Calls
  <1>3. /\ Sound(p.todo) /\ ~p.panicked
        /\ p.wrote => NoStatus(p.todo)
        /\ ~p.wrote => Answered(p.todo)
        /\ Cached(p.header) => ClearedFirst(p.todo)
        /\ p.accepts => (p.headerSet <=> p.wrote)
    BY <1>1, <1>2 DEF Script
  <1>4. q = [p EXCEPT !.todo = Tail(p.todo)]  BY DEF Called
  <1>5. /\ c \in Call /\ Sound(Tail(p.todo))
        /\ Answers(c) => NoStatus(Tail(p.todo))
        /\ NoStatus(p.todo) => NoStatus(Tail(p.todo))
        /\ Answered(p.todo) /\ ~Answers(c) => Answered(Tail(p.todo))
        /\ Caches(c) => ClearedFirst(Tail(p.todo))
        /\ ClearedFirst(p.todo) /\ c.call # "clear" => ClearedFirst(Tail(p.todo))
        /\ ClearedFirst(p.todo) => ~Fails(c)
    BY <1>2, <1>3, Rest
  <1>6. p.wrote => c.call # "status"
    <2>1. Len(p.todo) \in Nat /\ Len(p.todo) # 0  BY <1>2, <1>3 DEF Sound
    <2>2. 1 \in 1 .. Len(p.todo)  BY <2>1
    <2>. QED  BY <1>3, <2>2 DEF NoStatus
  <1>7. Tail(p.todo) \in Seq(Call)  BY <1>5 DEF Sound
  <1>. HIDE DEF p, q, c
  <1>8. q \in Responses  BY <1>1, <1>4, <1>7 DEF Responses
  <1>9. /\ q.at = p.at /\ q.todo = Tail(p.todo) /\ q.accepts = p.accepts
        /\ q.gz = p.gz /\ q.header = p.header /\ q.headerSet = p.headerSet
        /\ q.compressing = p.compressing /\ q.panicked = p.panicked
        /\ q.wrote = p.wrote /\ q.body = p.body
    BY <1>1, <1>4 DEF Responses
  <1>10. q.status = p.status /\ q.line = p.line /\ q.lines = p.lines /\ q.sent = p.sent
    BY <1>1, <1>4 DEF Responses
  <1>11. Wire(q)  BY <1>1, <1>9, <1>10 DEF Wire
  <1>12. Zips(q, r, OwnStream(r))  BY <1>1, <1>9 DEF Zips, Holds
  <1>13. /\ Sound(q.todo) /\ ~q.panicked
         /\ q.wrote => NoStatus(q.todo) /\ c.call # "status"
         /\ q.accepts => (q.headerSet <=> q.wrote)
    BY <1>3, <1>5, <1>6, <1>9
  <1>14. /\ ~q.wrote /\ ~Answers(c) => Answered(q.todo)
         /\ Answers(c) => NoStatus(q.todo)
         /\ Caches(c) => ClearedFirst(q.todo)
         /\ Cached(q.header) /\ c.call # "clear" => ClearedFirst(q.todo)
         /\ Cached(q.header) => ~Fails(c)
    BY <1>3, <1>5, <1>9
  <1>. QED
    BY <1>2, <1>5, <1>8, <1>9, <1>11, <1>12, <1>13, <1>14 DEF p, q, c

LEMMA PutHeader ==
  ASSUME NEW h \in Headers, NEW c \in Call, c.call = "put"
  PROVE  LET g == [h EXCEPT ![c.field] = c.value]
         IN  /\ g \in Headers /\ g.enc = h.enc
             /\ Cached(g) => Cached(h) \/ Caches(c)
  <1>1. c \in Puts("cache", {"no-store", "no-cache", "private", "long"})
          \union Puts("etag", {"v"}) \union Puts("type", {"", "text", "binary"})
          \union Puts("length", {"", "n"})
    <2>1. ClearCache.call = "clear" /\ Body.call = "write"  BY OtherKinds
    <2>2. \A x \in [call : {"status"}, code : Codes] : x.call = "status"  OBVIOUS
    <2>. QED  BY <2>1, <2>2, Zenon DEF Call
  <1>2. CASE c \in Puts("cache", {"no-store", "no-cache", "private", "long"})
    BY <1>2 DEF Puts, Headers, Cached, Caches
  <1>3. CASE c \in Puts("etag", {"v"})
    BY <1>3 DEF Puts, Headers, Cached, Caches
  <1>4. CASE c \in Puts("type", {"", "text", "binary"})
    BY <1>4 DEF Puts, Headers, Cached, Caches
  <1>5. CASE c \in Puts("length", {"", "n"})
    BY <1>5 DEF Puts, Headers, Cached, Caches
  <1>. QED  BY <1>1, <1>2, <1>3, <1>4, <1>5

LEMMA SetHeaderInv ==
  ASSUME ResponseInv, NEW r \in Requests, SetHeader(r)
  PROVE  ResponseInv'
  <1>. DEFINE c == resp[r].todo[1]
              p == Called(r)
              q == [p EXCEPT !.header[c.field] = c.value]
  <1>1. Calls(r, "put") /\ resp' = [resp EXCEPT ![r] = q] /\ UNCHANGED <<pool, dest, stream>>
    BY DEF SetHeader, Goto
  <1>2. /\ p \in Responses /\ Wire(p) /\ Zips(p, r, OwnStream(r))
        /\ p.at = "serve" /\ p.gz = resp[r].gz
        /\ c \in Call /\ c.call = "put" /\ Sound(p.todo) /\ ~p.panicked
        /\ p.wrote => NoStatus(p.todo)
        /\ ~p.wrote /\ ~Answers(c) => Answered(p.todo)
        /\ Caches(c) => ClearedFirst(p.todo)
        /\ Cached(p.header) /\ c.call # "clear" => ClearedFirst(p.todo)
        /\ p.accepts => (p.headerSet <=> p.wrote)
    BY <1>1, CallAndRest
  <1>3. p.header \in Headers  BY <1>2 DEF Responses
  <1>. DEFINE g == [p.header EXCEPT ![c.field] = c.value]
  <1>4. g \in Headers /\ g.enc = p.header.enc /\ (Cached(g) => Cached(p.header) \/ Caches(c))
    BY <1>2, <1>3, PutHeader
  <1>5. q = [p EXCEPT !.header = g]  BY <1>2 DEF Responses
  <1>6. ~Answers(c)  BY <1>2 DEF Answers
  <1>. HIDE DEF c, p, q, g
  <1>7. q \in Responses  BY <1>2, <1>4, <1>5 DEF Responses
  <1>8. /\ q.at = "serve" /\ q.todo = p.todo /\ q.accepts = p.accepts /\ q.gz = p.gz
        /\ q.header = g /\ q.headerSet = p.headerSet /\ q.compressing = p.compressing
        /\ q.panicked = p.panicked /\ q.wrote = p.wrote /\ q.body = p.body
    BY <1>2, <1>5 DEF Responses
  <1>9. q.status = p.status /\ q.line = p.line /\ q.lines = p.lines /\ q.sent = p.sent
    BY <1>2, <1>5 DEF Responses
  <1>10. Wire(q)  BY <1>2, <1>4, <1>8, <1>9 DEF Wire
  <1>11. Script(q)  BY <1>2, <1>4, <1>6, <1>8 DEF Script
  <1>12. Zips(q, r, OwnStream(r))  BY <1>2, <1>8 DEF Zips, Holds
  <1>. QED
    BY <1>1, <1>2, <1>7, <1>8, <1>10, <1>11, <1>12, OneCall DEF Good

LEMMA ClearHeadersInv ==
  ASSUME ResponseInv, NEW r \in Requests, ClearHeaders(r)
  PROVE  ResponseInv'
  <1>. DEFINE c == resp[r].todo[1]
              p == Called(r)
              q == clearLongCacheHeaders(p)
  <1>1. Calls(r, "clear") /\ resp' = [resp EXCEPT ![r] = q] /\ UNCHANGED <<pool, dest, stream>>
    BY DEF ClearHeaders, Goto
  <1>2. /\ p \in Responses /\ Wire(p) /\ Zips(p, r, OwnStream(r))
        /\ p.at = "serve" /\ p.gz = resp[r].gz
        /\ c.call = "clear" /\ Sound(p.todo) /\ ~p.panicked
        /\ p.wrote => NoStatus(p.todo)
        /\ ~p.wrote /\ ~Answers(c) => Answered(p.todo)
        /\ p.accepts => (p.headerSet <=> p.wrote)
    BY <1>1, CallAndRest
  <1>3. ~Answers(c)  BY <1>2 DEF Answers
  <1>. HIDE DEF c, p, q
  <1>4. /\ q \in Responses
        /\ q.at = "serve" /\ q.todo = p.todo /\ q.accepts = p.accepts /\ q.gz = p.gz
        /\ q.headerSet = p.headerSet /\ q.compressing = p.compressing
        /\ q.panicked = p.panicked /\ q.wrote = p.wrote /\ q.body = p.body
        /\ q.status = p.status /\ q.line = p.line /\ q.lines = p.lines /\ q.sent = p.sent
        /\ q.header.enc = "" /\ ~Cached(q.header)
    <2>1. p \in Responses /\ q = clearLongCacheHeaders(p)  BY <1>2 DEF q
    <2>2. q \in Responses  BY <2>1, ClearDoes
    <2>3. /\ q.at = p.at /\ q.todo = p.todo /\ q.accepts = p.accepts /\ q.gz = p.gz
          /\ q.headerSet = p.headerSet /\ q.compressing = p.compressing
          /\ q.panicked = p.panicked /\ q.wrote = p.wrote /\ q.body = p.body
      BY <2>1, ClearDoes
    <2>4. /\ q.status = p.status /\ q.line = p.line /\ q.lines = p.lines /\ q.sent = p.sent
          /\ q.header.enc = "" /\ ~Cached(q.header)
      BY <2>1, ClearDoes
    <2>5. p.at = "serve"  BY <1>2
    <2>. QED  BY <2>2, <2>3, <2>4, <2>5
  <1>5. Wire(q)  BY <1>2, <1>4 DEF Wire
  <1>6. Script(q)  BY <1>2, <1>3, <1>4 DEF Script
  <1>7. Zips(q, r, OwnStream(r))  BY <1>2, <1>4 DEF Zips, Holds
  <1>. QED
    BY <1>1, <1>2, <1>4, <1>5, <1>6, <1>7, OneCall DEF Good

LEMMA WriteHeaderInv ==
  ASSUME ResponseInv, NEW r \in Requests, WriteHeader(r)
  PROVE  ResponseInv'
  <1>. DEFINE c == resp[r].todo[1]
              p == Called(r)
              q == GzipStatus(p, c.code)
  <1>1. Calls(r, "status") /\ resp' = [resp EXCEPT ![r] = q] /\ UNCHANGED <<pool, dest, stream>>
    BY DEF WriteHeader, Goto
  <1>2. /\ p \in Responses /\ Wire(p) /\ Zips(p, r, OwnStream(r))
        /\ p.at = "serve" /\ p.gz = resp[r].gz
        /\ c \in Call /\ c.call = "status" /\ Sound(p.todo) /\ ~p.panicked
        /\ Answers(c) => NoStatus(p.todo)
        /\ p.wrote => NoStatus(p.todo) /\ c.call # "status"
        /\ Cached(p.header) /\ c.call # "clear" => ClearedFirst(p.todo)
        /\ Cached(p.header) => ~Fails(c)
    BY <1>1, CallAndRest
  <1>3. ~p.wrote /\ NoStatus(p.todo)  BY <1>2 DEF Answers
  <1>4. c.code \in Codes /\ (Failed(c.code) => ~Cached(p.header))
    <2>1. c \in [call : {"status"}, code : Codes]
      <3>1. ClearCache.call = "clear" /\ Body.call = "write"  BY OtherKinds
      <3>2. \A f, values : \A x \in Puts(f, values) : x.call = "put"  BY DEF Puts
      <3>. QED  BY <1>2, <3>1, <3>2, Zenon DEF Call
    <2>2. c.code \in Codes  BY <2>1
    <2>3. Failed(c.code) => Fails(c)  BY <1>2 DEF Fails
    <2>. QED  BY <1>2, <2>2, <2>3
  <1>5. /\ p.compressing => FALSE
        /\ p.accepts => OwnStream(r) = "fresh"
        /\ p.gz # NoWriter <=> p.accepts
    BY <1>2, <1>3 DEF Wire, Zips, Holds
  <1>. HIDE DEF c, p, q
  <1>6. /\ q \in Responses /\ Wire(q)
        /\ q.wrote /\ q.headerSet /\ q.body = <<>>
        /\ q.at = p.at /\ q.todo = p.todo /\ q.accepts = p.accepts /\ q.gz = p.gz
        /\ q.panicked = p.panicked /\ (Cached(q.header) => Cached(p.header))
    BY <1>2, <1>3, <1>4, GzipStatusDoes DEF q
  <1>7. Cached(q.header) => ClearedFirst(q.todo)  BY <1>2, <1>6
  <1>8. Script(q)  BY <1>2, <1>3, <1>6, <1>7 DEF Script
  <1>9. AllPlain(<<>>, r)  BY DEF AllPlain
  <1>10. q.compressing => q.accepts  BY <1>6 DEF Wire
  <1>11. Zips(q, r, OwnStream(r))
    BY <1>2, <1>5, <1>6, <1>9, <1>10 DEF Zips, Holds
  <1>. QED
    BY <1>1, <1>2, <1>6, <1>8, <1>11, OneCall DEF Good

LEMMA ReturnInv ==
  ASSUME ResponseInv, NEW r \in Requests, Return(r) \/ Panic(r)
  PROVE  ResponseInv'
  <1>. DEFINE p == resp[r]
  <1>1. p \in Responses /\ Wire(p) /\ Script(p) /\ Zips(p, r, OwnStream(r))
    BY Now
  <1>2. p.at = "serve" /\ UNCHANGED <<pool, dest, stream>>
    BY DEF Return, Panic, Goto
  <1>3. p.gz \in Writers \union {NoWriter} /\ p.panicked \in BOOLEAN /\ "close" \in Places
    BY <1>1 DEF Responses, Places
  <1>4. PICK b \in BOOLEAN :
           /\ resp' = [resp EXCEPT ![r] = Moved(p, "close", b, p.gz)]
           /\ p.wrote \/ b
    <2>1. CASE Return(r)
      <3>1. p.todo = <<>> /\ resp' = [resp EXCEPT ![r] = [p EXCEPT !.at = "close"]]
        BY <2>1 DEF Return, Goto
      <3>2. [p EXCEPT !.at = "close"] = Moved(p, "close", p.panicked, p.gz)
        BY <1>1 DEF Responses, Moved
      <3>3. p.wrote
        <4>1. ~Answered(p.todo)  BY <3>1 DEF Answered
        <4>. QED  BY <1>1, <1>2, <4>1 DEF Script
      <3>. QED  BY <1>3, <3>1, <3>2, <3>3
    <2>2. CASE Panic(r)
      <3>1. resp' = [resp EXCEPT ![r] = [p EXCEPT !.at = "close", !.panicked = TRUE]]
        BY <2>2 DEF Panic, Goto
      <3>2. [p EXCEPT !.at = "close", !.panicked = TRUE]
              = Moved(p, "close", TRUE, p.gz)
        BY <1>1 DEF Responses, Moved
      <3>. QED  BY <3>1, <3>2
    <2>. QED  BY <2>1, <2>2
  <1>. DEFINE q == Moved(p, "close", b, p.gz)
  <1>5. /\ q \in Responses /\ Wire(q)
        /\ q.at = "close" /\ q.panicked = b /\ q.gz = p.gz
        /\ q.accepts = p.accepts /\ q.compressing = p.compressing
        /\ q.wrote = p.wrote /\ q.body = p.body
    BY <1>1, <1>3, MovedDoes
  <1>. HIDE DEF p, q
  <1>6. Script(q)  BY <1>4, <1>5 DEF Script
  <1>7. Zips(q, r, OwnStream(r))  BY <1>1, <1>2, <1>5 DEF Zips, Holds
  <1>8. resp' = [resp EXCEPT ![r] = q] /\ q.gz = resp[r].gz  BY <1>4, <1>5 DEF p, q
  <1>. QED  BY <1>2, <1>5, <1>6, <1>7, <1>8, OneCall DEF Good

LEMMA PassThroughInv ==
  ASSUME ResponseInv, NEW r \in Requests, PassThrough(r)
  PROVE  ResponseInv'
  <1>. DEFINE p == resp[r]
              q == Moved(p, "serve", p.panicked, p.gz)
  <1>1. p \in Responses /\ Wire(p) /\ Script(p) /\ Zips(p, r, OwnStream(r))
    BY Now
  <1>2. p.at = "gzip" /\ ~p.accepts /\ UNCHANGED <<pool, dest, stream>>
        /\ resp' = [resp EXCEPT ![r] = [p EXCEPT !.at = "serve"]]
    BY DEF PassThrough, Goto
  <1>3. p.gz \in Writers \union {NoWriter} /\ p.panicked \in BOOLEAN /\ "serve" \in Places
    BY <1>1 DEF Responses, Places
  <1>4. [p EXCEPT !.at = "serve"] = q  BY <1>1 DEF Responses, Moved
  <1>5. /\ q \in Responses /\ Wire(q)
        /\ q.at = "serve" /\ q.panicked = p.panicked /\ q.gz = p.gz
        /\ q.todo = p.todo /\ q.accepts = p.accepts /\ q.header = p.header
        /\ q.headerSet = p.headerSet /\ q.compressing = p.compressing
        /\ q.wrote = p.wrote /\ q.body = p.body
    BY <1>1, <1>3, MovedDoes
  <1>6. resp' = [resp EXCEPT ![r] = q] /\ q.gz = resp[r].gz  BY <1>2, <1>4, <1>5
  <1>. HIDE DEF p, q
  <1>7. Script(q)  BY <1>1, <1>2, <1>5 DEF Script
  <1>8. Zips(q, r, OwnStream(r))  BY <1>1, <1>2, <1>5 DEF Zips, Holds
  <1>. QED  BY <1>2, <1>5, <1>6, <1>7, <1>8, OneCall DEF Good

\* A Writer leaves the pool, or is made, for one response: its stream starts over.
LEMMA GetWriterInv ==
  ASSUME ResponseInv, NEW r \in Requests, GetWriter(r)
  PROVE  ResponseInv'
  <1>. DEFINE p == resp[r]
  <1>1. p \in Responses /\ Wire(p) /\ Script(p) /\ Zips(p, r, OwnStream(r))
    BY Now
  <1>2. PICK w \in IF pool = {} THEN {v \in Writers : \A q \in Requests : resp[q].gz # v}
                   ELSE pool :
          /\ pool' = pool \ {w}
          /\ dest' = [dest EXCEPT ![w] = r]
          /\ stream' = [stream EXCEPT ![w] = "fresh"]
          /\ Goto(r, "gzip", [p EXCEPT !.at = "serve", !.gz = w])
    BY DEF GetWriter
  <1>3. /\ w \in Writers
        /\ \A q \in Requests : resp[q].gz # w
    BY HttpAssumption DEF ResponseInv, PoolOK, WritersExclusive
  <1>4. p.at = "gzip" /\ p.accepts /\ resp' = [resp EXCEPT ![r] = [p EXCEPT !.at = "serve", !.gz = w]]
    BY <1>2 DEF GetWriter, Goto
  <1>. DEFINE q == Moved(p, "serve", p.panicked, w)
  <1>5. [p EXCEPT !.at = "serve", !.gz = w] = q  BY <1>1 DEF Responses, Moved
  <1>6. p.panicked \in BOOLEAN /\ "serve" \in Places /\ w # NoWriter
    BY <1>1, <1>3, HttpAssumption DEF Responses, Places
  <1>7. /\ q \in Responses /\ Wire(q)
        /\ q.at = "serve" /\ q.panicked = p.panicked /\ q.gz = w
        /\ q.todo = p.todo /\ q.accepts = p.accepts /\ q.header = p.header
        /\ q.headerSet = p.headerSet /\ q.compressing = p.compressing
        /\ q.wrote = p.wrote /\ q.body = p.body
    BY <1>1, <1>3, <1>6, MovedDoes
  <1>8. resp' = [resp EXCEPT ![r] = q]  BY <1>4, <1>5
  <1>. HIDE DEF q
  <1>9. Script(q)  BY <1>1, <1>4, <1>7 DEF Script
  <1>10. Zips(q, r, "fresh")
    <2>1. ~q.compressing  BY <1>1, <1>4, <1>7 DEF Wire, Script
    <2>. QED  BY <1>1, <1>4, <1>6, <1>7, <2>1 DEF Zips, Holds
  <1>11. PoolOK'
    BY <1>2, <1>3 DEF ResponseInv, PoolOK, Streams
  <1>12. DOMAIN resp' = Requests /\ resp'[r] = q
         /\ \A x \in Requests \ {r} : resp'[x] = resp[x]
    BY <1>8 DEF ResponseInv, ResponsesOK
  <1>13. WritersExclusive'
    <2>. SUFFICES ASSUME NEW x \in Requests, resp'[x].gz # NoWriter
                  PROVE  /\ resp'[x].gz \notin pool'
                         /\ dest'[resp'[x].gz] = x
                         /\ \A y \in Requests \ {x} : resp'[y].gz # resp'[x].gz
      BY DEF WritersExclusive
    <2>1. dest \in [Writers -> Requests]  BY DEF ResponseInv, PoolOK
    <2>2. CASE x = r
      BY <1>2, <1>3, <1>7, <1>12, <2>1, <2>2
    <2>3. CASE x # r
      <3>1. resp'[x] = resp[x] /\ resp[x].gz # w  BY <1>3, <1>12, <2>3
      <3>2. /\ resp[x].gz \notin pool /\ dest[resp[x].gz] = x
            /\ \A y \in Requests \ {x} : resp[y].gz # resp[x].gz
        BY <3>1 DEF ResponseInv, WritersExclusive
      <3>3. resp[x].gz \in Writers
        <4>1. resp[x] \in Responses  BY Now
        <4>. QED  BY <3>1, <4>1 DEF Responses
      <3>. QED  BY <1>2, <1>7, <1>12, <2>1, <3>1, <3>2, <3>3
    <2>. QED  BY <2>2, <2>3
  <1>14. ASSUME NEW x \in Requests
         PROVE  resp'[x] \in Responses /\ Good(resp'[x], x, OwnStream(x)')
    <2>1. stream \in [Writers -> Streams]  BY DEF ResponseInv, PoolOK
    <2>2. CASE x = r
      <3>1. OwnStream(x)' = "fresh"  BY <1>2, <1>3, <1>6, <1>7, <1>12, <2>1, <2>2 DEF OwnStream
      <3>. QED  BY <1>7, <1>9, <1>10, <1>12, <2>2, <3>1 DEF Good
    <2>3. CASE x # r
      <3>1. resp'[x] = resp[x] /\ resp[x].gz # w  BY <1>3, <1>12, <2>3
      <3>2. resp[x] \in Responses /\ Good(resp[x], x, OwnStream(x))
        BY DEF ResponseInv, ResponsesOK
      <3>3. resp[x].gz \in Writers \union {NoWriter}  BY <3>2 DEF Responses
      <3>4. OwnStream(x)' = OwnStream(x)  BY <1>2, <2>1, <3>1, <3>3 DEF OwnStream
      <3>. QED  BY <3>1, <3>2, <3>4
    <2>. QED  BY <2>2, <2>3
  <1>. QED  BY <1>11, <1>12, <1>13, <1>14 DEF ResponseInv, ResponsesOK

\* Put: no response holds the Writer any more.
LEMMA PutWriterInv ==
  ASSUME ResponseInv, NEW r \in Requests, PutWriter(r)
  PROVE  ResponseInv'
  <1>. DEFINE p == resp[r]
              q == Moved(p, "recover", p.panicked, NoWriter)
  <1>1. p \in Responses /\ Wire(p) /\ Script(p) /\ Zips(p, r, OwnStream(r))
    BY Now
  <1>2. /\ p.at = "put" /\ pool' = pool \union ({p.gz} \ {NoWriter})
        /\ UNCHANGED <<dest, stream>>
        /\ resp' = [resp EXCEPT ![r] = [p EXCEPT !.at = "recover", !.gz = NoWriter]]
    BY DEF PutWriter, Goto
  <1>3. [p EXCEPT !.at = "recover", !.gz = NoWriter] = q  BY <1>1 DEF Responses, Moved
  <1>4. p.gz \in Writers \union {NoWriter} /\ p.panicked \in BOOLEAN /\ "recover" \in Places
    BY <1>1 DEF Responses, Places
  <1>5. /\ q \in Responses /\ Wire(q)
        /\ q.at = "recover" /\ q.panicked = p.panicked /\ q.gz = NoWriter
        /\ q.accepts = p.accepts /\ q.compressing = p.compressing
        /\ q.wrote = p.wrote /\ q.body = p.body
    BY <1>1, <1>4, MovedDoes
  <1>6. resp' = [resp EXCEPT ![r] = q]  BY <1>2, <1>3
  <1>. HIDE DEF q
  <1>7. Script(q)  BY <1>1, <1>2, <1>5 DEF Script
  <1>8. Zips(q, r, "closed")  BY <1>1, <1>2, <1>5 DEF Zips, Holds
  <1>9. PoolOK'  BY <1>2, <1>4 DEF ResponseInv, PoolOK
  <1>10. DOMAIN resp' = Requests /\ resp'[r] = q
         /\ \A x \in Requests \ {r} : resp'[x] = resp[x]
    BY <1>6 DEF ResponseInv, ResponsesOK
  <1>11. WritersExclusive'
    <2>. SUFFICES ASSUME NEW x \in Requests, resp'[x].gz # NoWriter
                  PROVE  /\ resp'[x].gz \notin pool'
                         /\ dest'[resp'[x].gz] = x
                         /\ \A y \in Requests \ {x} : resp'[y].gz # resp'[x].gz
      BY DEF WritersExclusive
    <2>1. x # r /\ resp'[x] = resp[x]  BY <1>5, <1>10
    <2>2. /\ resp[x].gz \notin pool /\ dest[resp[x].gz] = x
          /\ \A y \in Requests \ {x} : resp[y].gz # resp[x].gz
      BY <2>1 DEF ResponseInv, WritersExclusive
    <2>. QED  BY <1>2, <1>5, <1>10, <2>1, <2>2
  <1>12. ASSUME NEW x \in Requests
         PROVE  resp'[x] \in Responses /\ Good(resp'[x], x, OwnStream(x)')
    <2>1. CASE x = r
      <3>1. OwnStream(x)' = "closed"  BY <1>5, <1>10, <2>1 DEF OwnStream
      <3>. QED  BY <1>5, <1>7, <1>8, <1>10, <2>1, <3>1 DEF Good
    <2>2. CASE x # r
      <3>1. resp'[x] = resp[x]  BY <1>10, <2>2
      <3>2. resp[x] \in Responses /\ Good(resp[x], x, OwnStream(x))
        BY DEF ResponseInv, ResponsesOK
      <3>3. stream' = stream  BY <1>2
      <3>4. OwnStream(x)' = OwnStream(x)  BY <3>1, <3>3 DEF OwnStream
      <3>. QED  BY <3>1, <3>2, <3>4
    <2>. QED  BY <2>1, <2>2
  <1>. QED  BY <1>9, <1>10, <1>11, <1>12 DEF ResponseInv, ResponsesOK

\* A compressed piece reaches the body of r, whose Writer is not closed.
LEMMA WriteInv ==
  ASSUME ResponseInv, NEW r \in Requests, Write(r)
  PROVE  ResponseInv'
  <1>. DEFINE c == resp[r].todo[1]
              k == Called(r)
              st == OwnStream(r)
              p == IF resp[r].accepts /\ ~resp[r].headerSet THEN GzipStatus(k, 200) ELSE k
              w == p.gz
  <1>1. Calls(r, "write") /\ UNCHANGED <<pool, dest>>
    BY DEF Write
  <1>2. /\ k \in Responses /\ Wire(k) /\ Zips(k, r, st)
        /\ k.at = "serve" /\ k.gz = resp[r].gz
        /\ k.accepts = resp[r].accepts /\ k.headerSet = resp[r].headerSet
        /\ c.call = "write" /\ Sound(k.todo) /\ ~k.panicked
        /\ Answers(c) => NoStatus(k.todo)
        /\ Cached(k.header) /\ c.call # "clear" => ClearedFirst(k.todo)
        /\ k.accepts => (k.headerSet <=> k.wrote)
    BY <1>1, CallAndRest
  <1>3. NoStatus(k.todo) /\ (Cached(k.header) => ClearedFirst(k.todo))
    BY <1>2 DEF Answers
  <1>4. /\ p \in Responses /\ Wire(p) /\ Zips(p, r, st)
        /\ p.at = "serve" /\ p.gz = resp[r].gz /\ p.accepts = k.accepts
        /\ p.todo = k.todo /\ ~p.panicked
        /\ Cached(p.header) => Cached(k.header)
        /\ p.accepts => p.headerSet
    <2>1. CASE resp[r].accepts /\ ~resp[r].headerSet
      <3>1. k.accepts /\ ~k.wrote /\ 200 \in Codes /\ ~Failed(200)
        BY <1>2, <2>1, StatusKinds
      <3>2. p = GzipStatus(k, 200)  BY <2>1
      <3>3. ~k.compressing /\ st = "fresh" /\ k.gz # NoWriter
        BY <1>2, <3>1 DEF Zips, Holds, Wire
      <3>. HIDE DEF c, k, p, w, st
      <3>4. k \in Responses /\ Wire(k)  BY <1>2
      <3>5. Failed(200) => ~Cached(k.header)  BY <3>1
      <3>6. LET q == GzipStatus(k, 200)
            IN  /\ q \in Responses /\ Wire(q)
                /\ q.wrote /\ q.headerSet /\ q.body = <<>>
                /\ q.at = k.at /\ q.todo = k.todo /\ q.accepts = k.accepts /\ q.gz = k.gz
                /\ q.panicked = k.panicked /\ (Cached(q.header) => Cached(k.header))
        BY <3>1, <3>4, <3>5, GzipStatusDoes, Zenon
      <3>7. AllPlain(<<>>, r)  BY DEF AllPlain
      <3>8. Zips(p, r, st)  BY <1>2, <3>1, <3>2, <3>3, <3>6, <3>7 DEF Zips, Holds
      <3>. QED  BY <1>2, <3>2, <3>6, <3>8
    <2>2. CASE ~(resp[r].accepts /\ ~resp[r].headerSet)
      <3>1. p = k  BY <2>2
      <3>2. k.accepts => k.headerSet  BY <1>2, <2>2
      <3>. HIDE DEF c, k, p, w, st
      <3>. QED  BY <1>2, <3>1, <3>2
    <2>. QED  BY <2>1, <2>2
  <1>5. p.body \in Seq(Pieces)
    <2>. HIDE DEF p
    <2>. QED  BY <1>4 DEF Responses
  <1>6. ASSUME NEW q \in Responses, Wire(q), q.wrote,
               q.at = p.at, q.todo = p.todo, q.accepts = p.accepts,
               q.header = p.header, q.headerSet = p.headerSet, q.panicked = p.panicked
        PROVE  Script(q)
    <2>. HIDE DEF c, k, p, w, st
    <2>1. q.at = "serve" /\ Sound(q.todo) /\ ~q.panicked /\ NoStatus(q.todo)
      BY <1>2, <1>3, <1>4, <1>6
    <2>2. (Cached(q.header) => ClearedFirst(q.todo)) /\ (q.accepts => q.headerSet)
      BY <1>3, <1>4, <1>6
    <2>. QED  BY <1>6, <2>1, <2>2 DEF Script
  <1>7. CASE ~p.compressing
    <2>. DEFINE q == LogWrite(p, Plain(r))
    <2>1. resp' = [resp EXCEPT ![r] = q] /\ UNCHANGED stream
      BY <1>7 DEF Write, Goto
    <2>2. Plain(r) \in Seq(Pieces) /\ (AllPlain(p.body, r) => AllPlain(p.body \o Plain(r), r))
      BY <1>5, Appended
    <2>. HIDE DEF c, k, p, w, st
    <2>3. /\ q \in Responses /\ Wire(q)
          /\ q.wrote /\ q.body = p.body \o Plain(r)
          /\ q.at = p.at /\ q.todo = p.todo /\ q.accepts = p.accepts /\ q.gz = p.gz
          /\ q.header = p.header /\ q.headerSet = p.headerSet
          /\ q.compressing = p.compressing /\ q.panicked = p.panicked
      BY <1>4, <2>2, LogWriteDoes
    <2>. HIDE DEF q
    <2>4. Script(q)  BY <1>6, <2>3
    <2>5. Zips(q, r, st)  BY <1>4, <1>7, <2>2, <2>3 DEF Zips, Holds
    <2>6. q.gz = resp[r].gz /\ UNCHANGED <<pool, dest, stream>>  BY <1>1, <1>4, <2>1, <2>3
    <2>. QED  BY <2>1, <2>3, <2>4, <2>5, <2>6, OneCall DEF Good, st
  <1>8. CASE p.compressing
    <2>1. p.accepts  BY <1>4, <1>8 DEF Wire
    <2>2. /\ w # NoWriter /\ w \in Writers
          /\ \/ st = "fresh" /\ p.body = <<>>
             \/ st = "open" /\ Partial(p.body, r)
      <3>. HIDE DEF p, st
      <3>1. w \in Writers \union {NoWriter}  BY <1>4 DEF Responses
      <3>. QED  BY <1>4, <1>8, <2>1, <3>1 DEF Zips, Holds
    <2>3. st = stream[w] /\ dest[w] = r
      <3>1. resp[r].gz = w /\ resp[r].gz # NoWriter  BY <1>4, <2>2
      <3>. HIDE DEF p, w
      <3>. QED  BY <3>1 DEF OwnStream, ResponseInv, WritersExclusive
    <2>. DEFINE z == Zipped(w, "zip", r)
                q == LogWrite(p, z)
    <2>4. /\ resp' = LET s == [resp EXCEPT ![r] = p]
                     IN  IF stream[w] = "closed" THEN s
                         ELSE [s EXCEPT ![dest[w]] = LogWrite(@, z)]
          /\ stream' = [stream EXCEPT ![w] = IF @ = "fresh" THEN "open" ELSE @]
      BY <1>8 DEF Write
    <2>. HIDE DEF c, k, p, w, st
    <2>5. z \in Seq(Pieces) /\ Partial(p.body \o z, r)
      <3>1. CASE st = "fresh" /\ p.body = <<>>
        <4>1. z = <<<<"head", r>>>> \o <<<<"zip", r>>>>  BY <2>3, <3>1 DEF Zipped
        <4>2. /\ <<<<"head", r>>>> \o <<<<"zip", r>>>> \in Seq(Pieces)
              /\ Partial(<<>> \o (<<<<"head", r>>>> \o <<<<"zip", r>>>>), r)
          BY <1>5, Appended
        <4>. QED  BY <3>1, <4>1, <4>2
      <3>2. CASE st = "open" /\ Partial(p.body, r)
        <4>1. z = <<>> \o <<<<"zip", r>>>>  BY <2>3, <3>2 DEF Zipped
        <4>2. <<>> \o <<<<"zip", r>>>> \in Seq(Pieces)
          <5>1. <<<<"zip", r>>>> \in Seq(Pieces)  BY <1>5, Appended
          <5>. QED  BY <5>1
        <4>3. Partial(p.body \o (<<>> \o <<<<"zip", r>>>>), r)
          BY <1>5, <3>2, Appended
        <4>. QED  BY <4>1, <4>2, <4>3
      <3>. QED  BY <2>2, <3>1, <3>2
    <2>6. resp' = [resp EXCEPT ![r] = q]
      <3>1. stream[w] # "closed" /\ dest[w] = r  BY <2>2, <2>3
      <3>2. resp' = [[resp EXCEPT ![r] = p] EXCEPT ![r] = LogWrite(@, z)]  BY <2>4, <3>1
      <3>3. DOMAIN resp = Requests  BY DEF ResponseInv, ResponsesOK
      <3>. HIDE DEF z
      <3>. QED  BY <3>2, <3>3
    <2>. HIDE DEF z
    <2>7. /\ q \in Responses /\ Wire(q)
          /\ q.wrote /\ q.body = p.body \o z
          /\ q.at = p.at /\ q.todo = p.todo /\ q.accepts = p.accepts /\ q.gz = p.gz
          /\ q.header = p.header /\ q.headerSet = p.headerSet
          /\ q.compressing = p.compressing /\ q.panicked = p.panicked
      BY <1>4, <2>5, LogWriteDoes
    <2>. HIDE DEF q
    <2>8. Script(q)  BY <1>6, <2>7
    <2>9. Zips(q, r, "open")  BY <1>4, <1>8, <2>2, <2>5, <2>7 DEF Zips, Holds, w
    <2>10. stream \in [Writers -> Streams]  BY DEF ResponseInv, PoolOK
    <2>11. /\ stream' \in [Writers -> Streams] /\ stream'[w] = "open"
           /\ \A v \in Writers : v # w => stream'[v] = stream[v]
      BY <2>2, <2>3, <2>4, <2>10 DEF Streams
    <2>12. q.gz = w /\ q.gz = resp[r].gz  BY <1>4, <2>7 DEF w
    <2>13. "open" = IF q.gz = NoWriter THEN "closed" ELSE stream'[q.gz]
      BY <2>2, <2>11, <2>12
    <2>. QED
      BY <1>1, <2>6, <2>7, <2>8, <2>9, <2>11, <2>12, <2>13, OneResponse DEF Good
  <1>. QED  BY <1>7, <1>8

\* Close ends the stream of a compressed body, and only of such a body.
LEMMA CloseWriterInv ==
  ASSUME ResponseInv, NEW r \in Requests, CloseWriter(r)
  PROVE  ResponseInv'
  <1>. DEFINE p == resp[r]
              m == Moved(p, "put", p.panicked, p.gz)
              w == p.gz
              st == OwnStream(r)
  <1>1. p \in Responses /\ Wire(p) /\ Script(p) /\ Zips(p, r, st)
    BY Now
  <1>2. p.at = "close" /\ UNCHANGED <<pool, dest>>  BY DEF CloseWriter
  <1>3. w \in Writers \union {NoWriter} /\ p.panicked \in BOOLEAN /\ "put" \in Places
    BY <1>1 DEF Responses, Places
  <1>4. [p EXCEPT !.at = "put"] = m  BY <1>1 DEF Responses, Moved
  <1>5. /\ m \in Responses /\ Wire(m)
        /\ m.at = "put" /\ m.panicked = p.panicked /\ m.gz = w
        /\ m.accepts = p.accepts /\ m.compressing = p.compressing
        /\ m.wrote = p.wrote /\ m.body = p.body
    BY <1>1, <1>3, MovedDoes
  <1>6. p.wrote \/ p.panicked  BY <1>1, <1>2 DEF Script
  <1>7. DOMAIN resp = Requests  BY DEF ResponseInv, ResponsesOK
  <1>8. [resp EXCEPT ![r].at = "put"] = [resp EXCEPT ![r] = m]
    BY <1>4
  <1>9. /\ p.compressing /\ stream[w] # "closed" =>
              /\ resp' = [[resp EXCEPT ![r] = m] EXCEPT ![dest[w]] = LogWrite(@, Zipped(w, "tail", r))]
              /\ stream' = [stream EXCEPT ![w] = "closed"]
        /\ ~(p.compressing /\ stream[w] # "closed") =>
              resp' = [resp EXCEPT ![r] = m] /\ UNCHANGED stream
    BY <1>8 DEF CloseWriter
  <1>10. CASE p.compressing
    <2>1. p.accepts  BY <1>1, <1>10 DEF Wire
    <2>2. /\ w # NoWriter /\ w \in Writers
          /\ \/ st = "fresh" /\ p.body = <<>>
             \/ st = "open" /\ Partial(p.body, r)
      <3>. HIDE DEF st
      <3>. QED  BY <1>1, <1>2, <1>3, <1>10, <2>1 DEF Zips, Holds
    <2>3. st = stream[w] /\ dest[w] = r
      BY <2>2 DEF OwnStream, ResponseInv, WritersExclusive
    <2>4. p.body \in Seq(Pieces)  BY <1>1 DEF Responses
    <2>. DEFINE z == Zipped(w, "tail", r)
                q == LogWrite(m, z)
    <2>5. z \in Seq(Pieces) /\ Whole(p.body \o z, r)
      <3>. HIDE DEF p, w, st
      <3>1. CASE st = "fresh" /\ p.body = <<>>
        <4>1. z = <<<<"head", r>>>> \o <<<<"tail", r>>>>  BY <2>3, <3>1 DEF Zipped
        <4>2. /\ <<<<"head", r>>>> \o <<<<"tail", r>>>> \in Seq(Pieces)
              /\ Whole(<<>> \o (<<<<"head", r>>>> \o <<<<"tail", r>>>>), r)
          BY <2>4, Appended
        <4>. QED  BY <3>1, <4>1, <4>2
      <3>2. CASE st = "open" /\ Partial(p.body, r)
        <4>1. z = <<>> \o <<<<"tail", r>>>>  BY <2>3, <3>2 DEF Zipped
        <4>2. <<>> \o <<<<"tail", r>>>> \in Seq(Pieces)
          <5>1. <<<<"tail", r>>>> \in Seq(Pieces)  BY <2>4, Appended
          <5>. QED  BY <5>1
        <4>3. Whole(p.body \o (<<>> \o <<<<"tail", r>>>>), r)
          BY <2>4, <3>2, Appended
        <4>. QED  BY <4>1, <4>2, <4>3
      <3>. QED  BY <2>2, <3>1, <3>2
    <2>6. /\ resp' = [resp EXCEPT ![r] = q]
          /\ stream' = [stream EXCEPT ![w] = "closed"]
      <3>1. stream[w] # "closed" /\ dest[w] = r  BY <2>2, <2>3
      <3>2. /\ resp' = [[resp EXCEPT ![r] = m] EXCEPT ![r] = LogWrite(@, z)]
            /\ stream' = [stream EXCEPT ![w] = "closed"]
        BY <1>9, <1>10, <3>1
      <3>. HIDE DEF z, m
      <3>. QED  BY <1>7, <3>2
    <2>. HIDE DEF p, m, z
    <2>7. /\ q \in Responses /\ Wire(q)
          /\ q.wrote /\ q.body = m.body \o z
          /\ q.at = m.at /\ q.accepts = m.accepts /\ q.gz = m.gz
          /\ q.compressing = m.compressing /\ q.panicked = m.panicked
      BY <1>5, <2>5, LogWriteDoes
    <2>. HIDE DEF q, w, st
    <2>8. Script(q)  BY <1>5, <2>7 DEF Script
    <2>9. Zips(q, r, "closed")
      BY <1>5, <1>10, <2>1, <2>2, <2>5, <2>7 DEF Zips, Holds
    <2>10. stream \in [Writers -> Streams]  BY DEF ResponseInv, PoolOK
    <2>11. /\ stream' \in [Writers -> Streams] /\ stream'[w] = "closed"
           /\ \A v \in Writers : v # w => stream'[v] = stream[v]
      BY <2>2, <2>6, <2>10 DEF Streams
    <2>12. q.gz = w /\ q.gz = resp[r].gz  BY <1>5, <2>7 DEF w, p
    <2>13. "closed" = IF q.gz = NoWriter THEN "closed" ELSE stream'[q.gz]
      BY <2>11, <2>12
    <2>. QED
      BY <1>2, <2>6, <2>7, <2>8, <2>9, <2>11, <2>12, <2>13, OneResponse DEF Good
  <1>11. CASE ~p.compressing
    <2>1. resp' = [resp EXCEPT ![r] = m] /\ UNCHANGED <<pool, dest, stream>> /\ m.gz = resp[r].gz
      BY <1>2, <1>5, <1>9, <1>11
    <2>. HIDE DEF p, m, w, st
    <2>2. Script(m)  BY <1>5, <1>6 DEF Script
    <2>3. Zips(m, r, st)  BY <1>1, <1>2, <1>5, <1>11 DEF Zips, Holds, w
    <2>. QED  BY <1>5, <2>1, <2>2, <2>3, OneCall DEF Good, st
  <1>. QED  BY <1>10, <1>11

\* The 500 of recoverPanic is the first answer, and is not to be cached.
LEMMA RecoverInv ==
  ASSUME ResponseInv, NEW r \in Requests, Recover(r)
  PROVE  ResponseInv'
  <1>. DEFINE p == resp[r]
              c == clearLongCacheHeaders(p)
              d == [c EXCEPT !.header.type = "text", !.header.length = ""]
              l == LogStatus(d, 500)
              m == LogWrite(l, Plain(r))
  <1>1. p \in Responses /\ Wire(p) /\ Script(p) /\ Zips(p, r, OwnStream(r))
    BY Now
  <1>2. p.at = "recover" /\ UNCHANGED <<pool, dest, stream>>
    BY DEF Recover, Goto
  <1>3. p.gz = NoWriter /\ "log" \in Places
    BY <1>1, <1>2 DEF Zips, Holds, Places
  <1>4. CASE ~p.panicked \/ p.wrote
    <2>. DEFINE q == Moved(p, "log", p.panicked, p.gz)
    <2>1. c.panicked = p.panicked /\ c.wrote = p.wrote  BY <1>1, ClearDoes
    <2>2. resp' = [resp EXCEPT ![r] = [p EXCEPT !.at = "log"]]
      BY <1>4, <2>1 DEF Recover, Goto
    <2>3. [p EXCEPT !.at = "log"] = q  BY <1>1 DEF Responses, Moved
    <2>4. p.gz \in Writers \union {NoWriter} /\ p.panicked \in BOOLEAN
      BY <1>1 DEF Responses
    <2>5. /\ q \in Responses /\ Wire(q) /\ q.at = "log" /\ q.gz = p.gz
          /\ q.accepts = p.accepts /\ q.compressing = p.compressing
          /\ q.wrote = p.wrote /\ q.body = p.body
      BY <1>1, <1>3, <2>4, MovedDoes
    <2>6. resp' = [resp EXCEPT ![r] = q] /\ q.gz = resp[r].gz  BY <2>2, <2>3, <2>5
    <2>7. p.wrote  BY <1>1, <1>2, <1>4 DEF Script
    <2>. HIDE DEF p, q
    <2>8. Script(q)  BY <2>5, <2>7 DEF Script
    <2>9. Zips(q, r, OwnStream(r))  BY <1>1, <1>2, <1>3, <2>5 DEF Zips, Holds
    <2>. QED  BY <1>2, <2>5, <2>6, <2>8, <2>9, OneCall DEF Good
  <1>5. CASE p.panicked /\ ~p.wrote
    <2>1. /\ c \in Responses /\ c.at = p.at /\ c.gz = p.gz /\ c.accepts = p.accepts
          /\ c.compressing = p.compressing /\ c.panicked = p.panicked
          /\ c.wrote = p.wrote /\ c.body = p.body /\ c.lines = p.lines
      BY <1>1, ClearDoes
    <2>2. c.header.enc = "" /\ ~Cached(c.header)  BY <1>1, ClearDoes
    <2>3. resp' = [resp EXCEPT ![r] = [m EXCEPT !.at = "log"]]
      BY <1>5, <2>1 DEF Recover, Goto
    <2>4. p.lines = 0 /\ p.body = <<>> /\ ~p.compressing  BY <1>1, <1>5 DEF Wire
    <2>. HIDE DEF p, c
    <2>. DEFINE g == [c.header EXCEPT !.type = "text", !.length = ""]
    <2>5. c.header \in Headers  BY <2>1 DEF Responses
    <2>6. g \in Headers /\ g.enc = "" /\ g.cache = c.header.cache /\ g.etag = c.header.etag
      BY <2>2, <2>5 DEF Headers
    <2>7. ~Cached(g)  BY <2>2, <2>6 DEF Cached
    <2>8. d = [c EXCEPT !.header = g]  BY <2>1, <2>5 DEF Responses, Headers
    <2>. HIDE DEF g, d
    <2>9. d \in Responses  BY <2>1, <2>6, <2>8 DEF Responses
    <2>10. /\ d.header = g /\ d.at = p.at /\ d.gz = p.gz /\ d.accepts = p.accepts
           /\ ~d.compressing /\ ~d.wrote /\ d.body = <<>> /\ d.lines = 0
      BY <1>5, <2>1, <2>4, <2>8 DEF Responses
    <2>11. 500 \in Codes  BY StatusKinds
    <2>. HIDE DEF l
    <2>12. l = LogStatus(d, 500)  BY DEF l
    <2>13. l \in Responses  BY <2>9, <2>10, <2>11, <2>12, LogStatusDoes
    <2>14. /\ l.wrote /\ l.status = 500 /\ l.line = 500 /\ l.sent = g /\ l.lines = 1
           /\ l.at = p.at /\ l.accepts = p.accepts /\ l.gz = p.gz
           /\ ~l.compressing /\ l.body = <<>>
      BY <2>9, <2>10, <2>11, <2>12, LogStatusDoes
    <2>15. Wire(l)  BY <2>6, <2>7, <2>14 DEF Wire
    <2>16. <<>> \in Seq(Pieces) /\ AllPlain(<<>>, r)  BY DEF AllPlain
    <2>17. Plain(r) \in Seq(Pieces) /\ AllPlain(<<>> \o Plain(r), r)
      BY <2>16, Appended
    <2>18. /\ m \in Responses /\ Wire(m)
           /\ m.wrote /\ m.body = l.body \o Plain(r)
           /\ m.at = l.at /\ m.accepts = l.accepts /\ m.gz = l.gz
           /\ m.compressing = l.compressing
      BY <2>13, <2>15, <2>17, LogWriteDoes
    <2>. HIDE DEF m
    <2>. DEFINE q == Moved(m, "log", m.panicked, m.gz)
    <2>19. [m EXCEPT !.at = "log"] = q  BY <2>18 DEF Responses, Moved
    <2>20. m.gz \in Writers \union {NoWriter} /\ m.panicked \in BOOLEAN
      BY <2>18 DEF Responses
    <2>21. /\ q \in Responses /\ Wire(q) /\ q.at = "log" /\ q.gz = m.gz
           /\ q.accepts = m.accepts /\ q.compressing = m.compressing
           /\ q.wrote = m.wrote /\ q.body = m.body
      <3>1. m \in Responses /\ Wire(m) /\ "log" \in Places  BY <1>3, <2>18
      <3>. QED  BY <2>20, <3>1, MovedDoes
    <2>22. resp' = [resp EXCEPT ![r] = q]  BY <2>3, <2>19
    <2>. HIDE DEF q
    <2>23. Script(q)  BY <2>18, <2>21 DEF Script
    <2>24. Zips(q, r, OwnStream(r))
      BY <1>3, <2>14, <2>17, <2>18, <2>21 DEF Zips, Holds
    <2>25. q.gz = resp[r].gz  BY <2>14, <2>18, <2>21 DEF p
    <2>. QED  BY <1>2, <2>21, <2>22, <2>23, <2>24, <2>25, OneCall DEF Good
  <1>. QED  BY <1>4, <1>5

\* A response before its first call, and between two requests.
LEMMA NewDoes ==
  ASSUME NEW s \in Seq(Call), NEW gzip \in BOOLEAN
  PROVE  LET p == NewResponse(s, gzip)
         IN  /\ p \in Responses /\ Wire(p)
             /\ p.at = "gzip" /\ p.todo = s /\ p.accepts = gzip /\ p.gz = NoWriter
             /\ ~p.panicked /\ ~p.wrote /\ ~p.headerSet /\ ~p.compressing
             /\ p.body = <<>> /\ ~Cached(p.header)
  <1>. DEFINE p == NewResponse(s, gzip)
  <1>1. NoHeader \in Headers /\ NoHeader.enc = ""  BY DEF NoHeader, Headers
  <1>2. ~Cached(NoHeader)  BY DEF NoHeader, Cached
  <1>3. 200 \in Codes /\ 0 \in Codes \union {0} /\ 0 \in Nat  BY StatusKinds
  <1>4. <<>> \in Seq(Pieces) /\ "gzip" \in Places /\ FALSE \in BOOLEAN
        /\ NoWriter \in Writers \union {NoWriter}
    BY DEF Places
  <1>5. p \in Responses  BY <1>1, <1>3, <1>4 DEF NewResponse, Responses
  <1>6. /\ p.at = "gzip" /\ p.todo = s /\ p.accepts = gzip /\ p.gz = NoWriter
        /\ ~p.panicked /\ ~p.wrote /\ ~p.headerSet /\ ~p.compressing
        /\ p.body = <<>> /\ p.header = NoHeader
        /\ p.sent = NoHeader /\ p.line = 0 /\ p.lines = 0
    BY DEF NewResponse
  <1>. HIDE DEF p
  <1>7. Wire(p)  BY <1>1, <1>2, <1>6 DEF Wire
  <1>. QED  BY <1>2, <1>5, <1>6, <1>7 DEF p

LEMMA IdleDoes ==
  ASSUME NEW r
  PROVE  /\ NoResponse \in Responses /\ NoResponse.gz = NoWriter
         /\ NoResponse.at = "done" /\ Good(NoResponse, r, "closed")
  <1>. DEFINE n == NewResponse(<<>>, FALSE)
              p == NoResponse
  <1>1. /\ n \in Responses /\ Wire(n) /\ n.gz = NoWriter /\ ~n.accepts /\ ~n.compressing
        /\ ~n.wrote /\ ~n.panicked /\ n.body = <<>>
    <2>1. <<>> \in Seq(Call) /\ FALSE \in BOOLEAN  OBVIOUS
    <2>. QED  BY <2>1, NewDoes
  <1>2. n.panicked \in BOOLEAN /\ n.gz \in Writers \union {NoWriter} /\ "done" \in Places
    BY <1>1 DEF Responses, Places
  <1>3. p = Moved(n, "done", n.panicked, n.gz)
    BY <1>1 DEF NoResponse, Moved, Responses
  <1>. HIDE DEF n, p
  <1>4. /\ p \in Responses /\ Wire(p) /\ p.at = "done" /\ p.gz = NoWriter
        /\ ~p.accepts /\ ~p.compressing /\ p.body = <<>>
    BY <1>1, <1>2, <1>3, MovedDoes
  <1>5. Script(p)  BY <1>4 DEF Script
  <1>6. AllPlain(<<>>, r)  BY DEF AllPlain
  <1>7. Zips(p, r, "closed")  BY <1>4, <1>6 DEF Zips, Holds
  <1>. QED  BY <1>4, <1>5, <1>7 DEF Good, p

LEMMA LogInv ==
  ASSUME ResponseInv, NEW r \in Requests, Log(r)
  PROVE  ResponseInv'
  <1>1. resp[r].at = "log" /\ resp' = [resp EXCEPT ![r] = NoResponse]
        /\ UNCHANGED <<pool, dest, stream>>
    BY DEF Log, Goto
  <1>2. resp[r].gz = NoWriter  BY <1>1, Now DEF Zips, Holds
  <1>3. OwnStream(r) = "closed"  BY <1>2 DEF OwnStream
  <1>. QED  BY <1>1, <1>2, <1>3, IdleDoes, OneCall

\* Every request starts with a script that answers it.
LEMMA ArriveInv ==
  ASSUME ResponseInv, NEW r \in Requests, Arrive(r)
  PROVE  ResponseInv'
  <1>1. PICK s \in Scripts(r), gzip \in BOOLEAN :
           resp[r].at = "done" /\ resp' = [resp EXCEPT ![r] = NewResponse(s, gzip)]
    BY DEF Arrive, Goto
  <1>2. UNCHANGED <<pool, dest, stream>>  BY DEF Arrive
  <1>3. Complete(s)  BY ScriptsComplete
  <1>4. Sound(s) /\ Answered(s) /\ s \in Seq(Call)  BY <1>3 DEF Complete, Sound
  <1>. DEFINE p == NewResponse(s, gzip)
  <1>5. /\ p \in Responses /\ Wire(p)
        /\ p.at = "gzip" /\ p.todo = s /\ p.accepts = gzip /\ p.gz = NoWriter
        /\ ~p.panicked /\ ~p.wrote /\ ~p.headerSet /\ ~p.compressing
        /\ p.body = <<>> /\ ~Cached(p.header)
    BY <1>4, NewDoes
  <1>. HIDE DEF p
  <1>6. Script(p)  BY <1>4, <1>5 DEF Script
  <1>7. AllPlain(<<>>, r)  BY DEF AllPlain
  <1>8. Zips(p, r, OwnStream(r))  BY <1>5, <1>7 DEF Zips, Holds
  <1>9. resp[r].gz = NoWriter  BY <1>1, Now DEF Zips, Holds
  <1>10. resp' = [resp EXCEPT ![r] = p]  BY <1>1 DEF p
  <1>. QED  BY <1>2, <1>5, <1>6, <1>8, <1>9, <1>10, OneCall DEF Good

-----------------------------------------------------------------------------
(* Invariance *)

LEMMA ResponseInvInit == Init => ResponseInv
  <1>. SUFFICES ASSUME Init PROVE ResponseInv
    OBVIOUS
  <1>1. PoolOK  BY DEF Init, PoolOK, Streams
  <1>2. DOMAIN resp = Requests /\ \A r \in Requests : resp[r] = NoResponse
    BY DEF Init
  <1>3. ASSUME NEW r \in Requests
        PROVE  resp[r].gz = NoWriter /\ resp[r] \in Responses /\ Good(resp[r], r, OwnStream(r))
    BY <1>2, IdleDoes DEF OwnStream
  <1>4. WritersExclusive  BY <1>3 DEF WritersExclusive
  <1>. QED  BY <1>1, <1>2, <1>3, <1>4 DEF ResponseInv, ResponsesOK

LEMMA ResponseInvNext == ResponseInv /\ [Next]_vars => ResponseInv'
  <1>. SUFFICES ASSUME ResponseInv, [Next]_vars PROVE ResponseInv'
    OBVIOUS
  <1>1. CASE UNCHANGED vars
    BY <1>1 DEF vars, ResponseInv, PoolOK, ResponsesOK, WritersExclusive, OwnStream
  <1>2. ASSUME NEW r \in Requests, Arrive(r) \/ Serve(r)  PROVE ResponseInv'
    BY <1>2, ArriveInv, GetWriterInv, PassThroughInv, SetHeaderInv, ClearHeadersInv,
       WriteHeaderInv, WriteInv, ReturnInv, CloseWriterInv, PutWriterInv, RecoverInv,
       LogInv DEF Serve
  <1>. QED  BY <1>1, <1>2 DEF Next

LEMMA Invariance == Spec => []ResponseInv
  BY ResponseInvInit, ResponseInvNext, PTL DEF Spec

-----------------------------------------------------------------------------
(* What follows from it *)

\* Every value stays in its type: the headers are those the code reads or sets, and
\* at most one status line has reached each connection.
THEOREM ResponseTypeCorrect == Spec => []TypeOK
  <1>1. ResponseInv => TypeOK
    <2>. SUFFICES ASSUME ResponseInv PROVE TypeOK
      OBVIOUS
    <2>1. /\ pool \subseteq Writers
          /\ dest \in [Writers -> Requests]
          /\ stream \in [Writers -> {"fresh", "open", "closed"}]
          /\ DOMAIN resp = Requests
      BY DEF ResponseInv, PoolOK, ResponsesOK, Streams
    <2>2. ASSUME NEW r \in Requests
          PROVE  /\ resp[r].at \in {"done", "gzip", "serve", "close", "put", "recover", "log"}
                 /\ resp[r].gz \in Writers \union {NoWriter}
                 /\ resp[r].header \in Headers
                 /\ resp[r].sent \in Headers
      <3>1. resp[r] \in Responses  BY Now
      <3>. QED  BY <3>1 DEF Responses, Places
    <2>3. ASSUME NEW r \in Requests  PROVE resp[r].lines \in {0, 1}
      <3>1. Wire(resp[r])  BY Now
      <3>. QED  BY <3>1 DEF Wire
    <2>. QED  BY <2>1, <2>2, <2>3 DEF TypeOK
  <1>. QED  BY <1>1, Invariance, PTL

\* gzipWriterPool never hands a gzip.Writer to two responses, nor keeps one that a
\* response still holds, and a held Writer writes to its holder.
THEOREM PoolIsExclusive == Spec => []WritersExclusive
  <1>1. ResponseInv => WritersExclusive  BY DEF ResponseInv
  <1>. QED  BY <1>1, Invariance, PTL

\* serveError, noDirListing and recoverPanic: no failure leaves with the caching
\* headers of a success, whatever panics where, but for the 412 of net/http.
THEOREM FailuresAreNotCached == Spec => []FailureNotCached
  <1>1. ResponseInv => FailureNotCached
    BY Now DEF Wire, Failed, FailureNotCached
  <1>. QED  BY <1>1, Invariance, PTL

\* logRequests reports the one status line that was sent, for every request.
THEOREM LogIsTrue == Spec => []LogTellsWire
  <1>1. ResponseInv => LogTellsWire
    BY Now DEF Wire, Script, LogTellsWire
  <1>. QED  BY <1>1, Invariance, PTL

\* gzipMiddleware: what the client receives decodes as its headers say.
THEOREM BodiesDecode == Spec => []BodyDecodes
  <1>1. ResponseInv => BodyDecodes
    <2>. SUFFICES ASSUME ResponseInv, NEW r \in Requests, resp[r].at = "log"
                  PROVE  LET p == resp[r]
                             n == Len(p.body)
                         IN  IF p.sent.enc = "gzip"
                                THEN /\ p.accepts /\ p.sent.vary = "enc" /\ p.sent.length = ""
                                     /\ n >= 2
                                     /\ p.body[1] = <<"head", r>> /\ p.body[n] = <<"tail", r>>
                                     /\ \A i \in 2 .. n - 1 : p.body[i] = <<"zip", r>>
                                ELSE \A i \in 1 .. n : p.body[i] = <<"plain", r>>
      BY DEF BodyDecodes
    <2>1. Wire(resp[r]) /\ Zips(resp[r], r, OwnStream(r))  BY Now
    <2>2. CASE resp[r].compressing
      BY <2>1, <2>2 DEF Wire, Zips, Whole
    <2>3. CASE ~resp[r].compressing
      BY <2>1, <2>3 DEF Wire, Zips, AllPlain
    <2>. QED  BY <2>2, <2>3
  <1>. QED  BY <1>1, Invariance, PTL
=============================================================================
