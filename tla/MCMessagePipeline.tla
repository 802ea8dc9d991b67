-------------------------- MODULE MCMessagePipeline --------------------------
(* Instances of MessagePipeline for TLC.                                   *)
EXTENDS MessagePipeline

ann == <<Text("ann")>>
bob == <<Text("bob")>>
zoe == <<Text("zoe")>>
annsOldKey == <<Text("ann, before")>>
ChatName == <<Text("chat")>>
GarbageText == <<Text("garbage")>>
Id(n) == UuidBytes(n)

Post(sender, signer, id, key, text) ==
    [sender |-> sender, signer |-> signer, id |-> id, key |-> key, text |-> <<Text(text)>>,
     type |-> 1, sent |-> 3, uploaded |-> 4]

(* A message of ann whose chat key shares its id with another; a good one; *)
(* two of zoe, whose key and whose chat key the server may come to have;   *)
(* and between them one ann signed with an older key.                      *)
SomePosts == <<Post(ann, ann, Id(4), <<Text("k4")>>, "first"),
               Post(ann, ann, Id(1), <<Text("k1")>>, "second"),
               Post(zoe, zoe, Id(2), <<Text("k2")>>, "third"),
               Post(ann, annsOldKey, Id(1), <<Text("k1")>>, "fourth"),
               Post(zoe, zoe, Id(2), <<Text("k2")>>, "fifth")>>
SomeSignKeys == ann :> ann @@ zoe :> zoe
SomeChatKeys == Id(1) :> <<Text("k1")>> @@ Id(2) :> <<Text("k2")>> @@ Id(4) :> <<Text("k5")>>
SomeLate == {zoe, <<ChatName, Id(2)>>}
(* Parts that overlap, and the whole chat.                                *)
SomeRanges == {[first |-> 1, count |-> n] : n \in {2, 5}}
                \cup {[first |-> n, count |-> 2] : n \in {2, 4}}
-----------------------------------------------------------------------------
(* Every format is read back as it was written, whatever follows it in the *)
(* queue, over strings with nothing in them, with a name, with two, and    *)
(* with what looks like a length.                                          *)
Strings == {<<>>, ann, ann \o bob, <<Num(2), Text("ann")>>}
Maps == UNION {[names -> Strings] : names \in SUBSET {ann, bob}}
SignedKeys == [key : {ann, <<>>}, signatures : Maps]
ReadsBack(Write(_), ReadIt(_), values) ==
    \A v \in values, rest \in Strings : ReadIt(Write(v) \o rest) = Read(v, rest)

ListOfBlocks(qs) == List([n \in DOMAIN qs |-> Block(qs[n])])
BlocksIn(q) == toIterable(q, extractDynamicLengthQueue)
ListOfPairs(ps) == List([n \in DOMAIN ps |-> Pair(Block(ps[n][1]), Block(ps[n][2]))])
PairsIn(q) == toIterable(q, toStringQueuePair)
ListOfEntries(es) ==
    List([n \in DOMAIN es |-> Pair(Pair(Block(es[n][1][1]), Block(es[n][1][2])), Block(es[n][2]))])
EntriesIn(q) == toIterable(q, toChatKeyEntry)
UpTo2(S) == {<<>>} \cup {<<x>> : x \in S} \cup {<<x, y>> : x, y \in S}

ASSUME StringsReadBack == ReadsBack(Block, extractDynamicLengthQueue, Strings)
ASSUME ListsReadBack ==
    /\ ReadsBack(ListOfBlocks, BlocksIn, UpTo2(Strings))
    /\ ReadsBack(ListOfPairs, PairsIn, UpTo2(Strings \X {ann, <<>>}))
    /\ ReadsBack(ListOfEntries, EntriesIn, UpTo2(({ann} \X Strings) \X {bob, <<>>}))
ASSUME KeysReadBack ==
    /\ ReadsBack(SignedKeyToQueue, SignedKey, SignedKeys)
    /\ ReadsBack(PublicClientKeyToQueue, PublicClientKey,
                 [id : {ann}, data_key : SignedKeys, sign_key : [key : {bob}, signatures : Maps]])
    /\ ReadsBack(PrivateClientKeyToQueue, PrivateClientKey,
                 [sign_key : Strings, data_key : {ann}, server_key : {<<>>, bob},
                  ca_keys : Maps, uid : Strings])

(* A map is read whatever order its entries were written in.               *)
ASSUME MapsInAnyOrder ==
    \A map \in Maps : \A order \in SetToSeqs(DOMAIN map) :
        toMap(ListOfPairs([n \in DOMAIN order |-> <<order[n], map[order[n]]>>])) = Read(map, <<>>)

(* The answer to read_messages is read back as the messages it lists.      *)
AnswerOf(ids) == List([n \in DOMAIN ids |-> Pair(<<Num(ids[n])>>, Block(Log[ids[n]]))])
ASSUME AnswersReadBack ==
    \A ids \in UpTo2(DOMAIN Log) :
        toIterable(AnswerOf(ids), get_base_message).val = [n \in DOMAIN ids |-> BaseMessage(ids[n])]
=============================================================================
