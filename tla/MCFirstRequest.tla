---------------------------- MODULE MCFirstRequest ----------------------------
(* Requests of every kind, for what there is and for what there is not.    *)
EXTENDS FirstRequest, Bitwise

CONSTANTS Host, POST, Live, Demo, Index, Seven, Eight, Key, Agent

Ask(method, dirs, name, type) ==
  [method |-> method, dirs |-> dirs, name |-> name, type |-> type, query |-> <<>>,
   headers |-> << <<Host, <<Agent, Colon, Seven>>>> >>, frames |-> <<>>, written |-> TRUE]

Upgraded(written, frames) ==
  [Ask(GET, <<>>, <<Index>>, HTML) EXCEPT
     !.headers = << <<Host, <<Agent>>>>, <<SecWebSocketKey, <<Key, Space, Key>>>> >>,
     !.frames = frames, !.written = written]

MCFrame(len, mask) == [message |-> [i \in 1 .. len |-> (i * 37) % 256], mask |-> mask]
Mask == <<7, 129, 255, 64>>

MCXor(a, b) == a ^^ b
MCTimes == {3, k24 + 3}
MCWords == {HTTP, One, FLV, HTML, TS, M3U8, M4S, MP4, MPD, Audio, Video, Underscore,
            SecWebSocketKey, Host, POST, Live, Demo, Index, Seven, Eight, Key, Agent}
MCStreams == { <<<<Live>>, <<Demo>>>> }
MCFiles == { <<Index>> }
MCHeld ==
  { << <<TS>>, <<Seven>> >>, << <<M3U8>>, <<>> >>, << <<MPD>>, <<>> >>,
    << <<M4S>>, <<Video, Seven>> >>, << <<MP4>>, <<Video>> >>, << <<MP4>>, <<Audio>> >> }

MCRequests ==
  [flv |-> UNION {{Ask(m, d, n, t), [Ask(m, d, n, t) EXCEPT !.query = <<Query, Key>>]} :
             m \in {GET, POST}, d \in {<<>>, <<Live>>, <<Live, Demo>>},
             n \in {<<Demo>>, <<Index>>}, t \in {FLV, HTML}}
           \cup {[Ask(GET, <<Live>>, <<Demo>>, FLV) EXCEPT !.headers = <<>>]},
   file |-> {Ask(m, d, n, t) : m \in {GET, POST}, d \in {<<>>, <<Live>>},
             n \in {<<Demo>>, <<Index>>}, t \in {FLV, HTML}},
   websocket |-> {Ask(GET, <<>>, <<Index>>, HTML), Upgraded(TRUE, <<>>),
                  Upgraded(TRUE, <<MCFrame(6, Mask)>>), Upgraded(FALSE, <<MCFrame(131, Mask)>>),
                  Upgraded(TRUE, <<MCFrame(3, <<>>), MCFrame(4, Mask)>>),
                  Upgraded(FALSE, <<MCFrame(126, <<>>)>>)},
   hls |-> {Ask(m, d, n, t) : m \in {GET, HEAD}, d \in {<<Live>>, <<Live, Demo>>, <<Demo, Live>>},
             n \in {<<Seven>>, <<Eight>>}, t \in {TS, M3U8, HTML}},
   dash |-> {Ask(m, d, n, t) : m \in {GET, HEAD, POST}, d \in {<<Live>>, <<Live, Demo>>},
             n \in {<<Video, Underscore, Seven>>, <<Audio, Underscore, Seven>>, <<Video>>,
                    <<Audio>>, <<Index, Underscore, Seven>>},
             t \in {M4S, MP4, MPD, HTML}}]
=============================================================================
