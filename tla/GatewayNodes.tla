---------------------------- MODULE GatewayNodes ----------------------------
(* Two small machines of the gateway: the node list of an endpoint that names    *)
(* several backends (client/factory.go, client/node.go, client/target.go), and   *)
(* the reader over a recorded stream (middleware/streamrecorder/recorder.go).    *)
EXTENDS Integers, Sequences, FiniteSets, SequencesExt

CONSTANTS BackendLists,   \* the lists of backends under check: [scheme, name, tls, tlsName]
          Instances,      \* service -> the instance lists the registry may report
          TLSConfigs,     \* the names NewBuildContext made a TLS configuration of
          Chunks,         \* the recorded streams under check: sequences of sequences of bytes
          MaxReads        \* bound: operations on the reader

VARIABLES backendList,       \* [list, protocol]: the endpoint's backends
          nApplied,        \* backends applied so far; -1 after an error
          picker,         \* the nodes of the picker
          latest,         \* service -> the nodes of the last list it called back with
          chunks, chunk, offset, pos,   \* streamReaderSeeker
          reads, got      \* operations so far; the last Read's bytes, expected and returned

nodeVars == <<backendList, nApplied, picker, latest>>
readVars == <<chunks, chunk, offset, pos, reads, got>>

-----------------------------------------------------------------------------
(* Nodes *)

\* newNode and GetClient: which HTTP client a node uses.
nodeClient(protocol, tls, tlsName) ==
    CASE ~tls -> IF protocol = "GRPC" THEN "h2c" ELSE "plain"
      [] tlsName = "" -> "https"
      [] tlsName \in TLSConfigs -> tlsName
      [] OTHER -> "https"

\* parseEndpoint: the first URL of the protocol that is not marked secure; a URL
\* that does not parse is an error, "" is returned when none fits.
parseEndpoint(urls, scheme) ==
    LET hit == SelectInSeq(urls, LAMBDA u : u.bad \/ (u.scheme = scheme /\ ~u.secure))
    IN  IF hit = 0 \/ urls[hit].bad THEN "" ELSE urls[hit].host

nodeWeight(w) == IF w <= 0 THEN 10 ELSE w

NodesOf(instances, protocol) ==
    {[addr |-> parseEndpoint(s.urls, protocol), client |-> nodeClient(protocol, FALSE, ""),
      weight |-> nodeWeight(s.weight)]
        : s \in {x \in instances : parseEndpoint(x.urls, protocol) # ""}}

DirectNodes(n) ==
    {[addr |-> backendList.list[k].name, weight |-> backendList.list[k].weight,
      client |-> nodeClient(backendList.protocol, backendList.list[k].tls, backendList.list[k].tlsName)]
        : k \in {j \in 1..n : backendList.list[j].scheme = "direct"}}

\* apply: the backends in order; a direct one replaces the picker's nodes by the
\* direct ones so far, an unknown scheme is an error.
applyBackend ==
    /\ nApplied \in 0..(Len(backendList.list) - 1)
    /\ LET b == backendList.list[nApplied + 1]
       IN  CASE b.scheme = "direct" -> picker' = DirectNodes(nApplied + 1) /\ nApplied' = nApplied + 1
             [] b.scheme = "discovery" -> picker' = picker /\ nApplied' = nApplied + 1
             [] OTHER -> picker' = picker /\ nApplied' = -1
    /\ UNCHANGED <<backendList, latest>>

\* Callback, from AddWatch or later: an empty list is ignored, any other one
\* replaces the picker's nodes.
applierCallback(s, instances) ==
    /\ \E k \in 1..nApplied : backendList.list[k].scheme = "discovery" /\ backendList.list[k].name = s
    /\ instances # {}
    /\ picker' = NodesOf(instances, backendList.protocol)
    /\ latest' = [latest EXCEPT ![s] = picker']
    /\ UNCHANGED <<backendList, nApplied>>

NodesInit ==
    /\ backendList \in BackendLists /\ nApplied = 0 /\ picker = {}
    /\ latest = [s \in DOMAIN Instances |-> {}]
NodesNext == applyBackend \/ \E s \in DOMAIN Instances : \E l \in Instances[s] : applierCallback(s, l)

-----------------------------------------------------------------------------
(* The recorded stream *)

Bytes == FlattenSeq(chunks)

\* Read of n bytes: the position after skipping what is exhausted, then copying.
RECURSIVE ReadFrom(_, _, _, _)
ReadFrom(c, o, n, out) ==
    IF n = 0 \/ c > Len(chunks) THEN [chunk |-> c, offset |-> o, out |-> out]
    ELSE LET remaining == Len(chunks[c]) - o
             k == IF n > remaining THEN remaining ELSE n
         IN  IF remaining <= 0 THEN ReadFrom(c + 1, 0, n, out)
             ELSE ReadFrom(c, o + k, n - k, out \o SubSeq(chunks[c], o + 1, o + k))

Read(n) ==
    /\ reads < MaxReads /\ reads' = reads + 1
    /\ LET r == ReadFrom(chunk, offset, n, <<>>)
       IN  /\ chunk' = r.chunk /\ offset' = r.offset /\ pos' = pos + Len(r.out)
           /\ got' = [want |-> SubSeq(Bytes, pos + 1, IF pos + n > Len(Bytes) THEN Len(Bytes) ELSE pos + n),
                      is |-> r.out]
    /\ UNCHANGED chunks

\* Seek: from the start, the position or the end; never before the start.
ChunkEnd(c) == Len(FlattenSeq(SubSeq(chunks, 1, c)))

Seek(off, whence) ==
    /\ reads < MaxReads /\ reads' = reads + 1
    /\ LET new == off + CASE whence = "start" -> 0 [] whence = "current" -> pos [] OTHER -> Len(Bytes)
           in == SelectInSeq([c \in 1..Len(chunks) |-> c], LAMBDA c : ChunkEnd(c) > new)
       IN  IF new < 0 THEN UNCHANGED <<chunk, offset, pos>>
           ELSE /\ pos' = new
                /\ chunk' = IF in = 0 THEN Len(chunks) + 1 ELSE in
                /\ offset' = IF in = 0 THEN 0 ELSE new - ChunkEnd(in - 1)
    /\ UNCHANGED <<chunks, got>>

ReaderInit ==
    /\ chunks \in Chunks /\ chunk = 1 /\ offset = 0 /\ pos = 0 /\ reads = 0
    /\ got = [want |-> <<>>, is |-> <<>>]
ReaderNext == (\E n \in 0..2 : Read(n)) \/ \E off \in -2..2, w \in {"start", "current", "end"} : Seek(off, w)

-----------------------------------------------------------------------------
\* The picker offers the nodes of every backend of the endpoint.  This holds while
\* the endpoint has direct backends only, or one discovered service only: each
\* Apply replaces the whole list (factory.go:119, 164), so of several services the
\* last one to call back is the only one left.
Discovered == {backendList.list[k].name : k \in {j \in 1..nApplied : backendList.list[j].scheme = "discovery"}}
OneKind == Discovered = {} \/ (Cardinality(Discovered) = 1 /\ DirectNodes(nApplied) = {})
NodesOfAllBackends ==
    nApplied >= 0 /\ OneKind => picker = DirectNodes(nApplied) \cup UNION {latest[s] : s \in Discovered}

\* A Read returns the bytes of the recording from the position on, whatever
\* sequence of reads and seeks led there, empty chunks and positions behind the
\* end included (recorder.go:104-183).
ReadsFromPosition ==
    /\ got.is = got.want
    /\ pos <= Len(Bytes) => ChunkEnd(chunk - 1) + offset = pos
=============================================================================
