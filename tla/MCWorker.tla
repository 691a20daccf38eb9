------------------------------- MODULE MCWorker -------------------------------
EXTENDS Worker

Line(key, value) == [key |-> key, value |-> value]
MCTexts == {
  <<Line("device_port", 0), Line("codec", "h264"), Line("max_bitrate_kbps", 300)>>,
  <<Line("device_port", 17), Line("target_bitrate_kbps", 90), Line("fps", 0), Line("fps", Junk)>>,
  <<Line("device_port", 6), Line("target_bitrate_kbps", 70), Line("max_bitrate_kbps", 20),
    Line("other", 1), Line("fps", 200)>>}

MCModes == {[width |-> 12, height |-> 8], [width |-> 9, height |-> 15]}

MCSamples == {
  [type |-> "KEYFRAME_REQUEST", fields |-> [reason |-> 1, last_good_seq |-> 255], rest |-> <<>>],
  [type |-> "PING", fields |-> [token |-> 65535], rest |-> <<>>],
  [type |-> "PONG", fields |-> [token |-> 6 * 4096], rest |-> <<>>],
  [type |-> "DISCONNECT", fields |-> [code |-> 4, reason_len |-> 0], rest |-> <<1, 2, 3>>],
  [type |-> "ERROR", fields |-> [code |-> 1, reason_len |-> 0], rest |-> [i \in 1..17 |-> 2]],
  [type |-> "FORMAT_CHANGE",
   fields |-> [protocol_version |-> 2, codec_id |-> 2, width |-> 9, height |-> 15,
               bitrate_kbps |-> 80, fps |-> 7, session_flags |-> 3], rest |-> <<>>],
  [type |-> "VIDEO_FRAME",
   fields |-> [codec_id |-> 1, frame_type |-> 1, vflags |-> 0, pts_us |-> 40000, seq |-> 255],
   rest |-> <<>>],
  [type |-> "VIDEO_FRAME",
   fields |-> [codec_id |-> 1, frame_type |-> 0, vflags |-> 0, pts_us |-> 40001, seq |-> 0],
   rest |-> <<3, 1>>]}
===============================================================================
