---------------------------- MODULE InfoProviders ----------------------------
(***************************************************************************)
(* The device and stream info providers (DeviceInfoProvider.c,             *)
(* StreamInfoProvider.c): defaults, validation and the two directions of   *)
(* sizing, from a buffer duration to a storage size and back.              *)
(*                                                                         *)
(* A duration is counted in ticks, Second of them per second; 20 makes the *)
(* factors 0.85 and 0.5 exact for whole seconds, as they are for hundreds  *)
(* of nanoseconds.  A conversion to UINT64 truncates: \div.                *)
(***************************************************************************)
EXTENDS Integers

Second == 20

MAX_STORAGE_ALLOCATION_SIZE == 1500000      \* scaled down; what matters is the test
DEFAULT_STREAM_COUNT        == 100

NoInfo == [tracks |-> 0, bufferDuration |-> 0, replayDuration |-> 0, maxLatency |-> 0]

----------------------------------------------------------------------------
(* Device info: storage size in bytes, number of streams.                   *)

createDefaultDeviceInfo(defaultSize) ==
  [storageSize |-> defaultSize, streamCount |-> DEFAULT_STREAM_COUNT]

setDeviceInfoStorageSize(device, size) ==
  IF size <= MAX_STORAGE_ALLOCATION_SIZE
    THEN [device EXCEPT !.storageSize = size]
    ELSE device

\* streamCount * bitrate / 8 * seconds * 1.2, truncated once, at the end
\* (1.2 / 8 = 3 / 20).
EstimatedStorageSize(streamCount, bitrate, bufferDuration) ==
  (streamCount * bitrate * bufferDuration * 3) \div (20 * Second)

setDeviceInfoStorageSizeBasedOnBitrateAndBufferDuration(device, bitrate, bufferDuration) ==
  IF bitrate > 0 /\ bufferDuration > 0
    THEN setDeviceInfoStorageSize(device,
           EstimatedStorageSize(device.streamCount, bitrate, bufferDuration))
    ELSE device

----------------------------------------------------------------------------
(* Stream info.                                                             *)

Durations(info, bufferDuration) ==
  [info EXCEPT !.bufferDuration = bufferDuration,
               !.replayDuration = bufferDuration \div 2,
               !.maxLatency = (bufferDuration * 85) \div 100]

setStreamInfoDefaults(bufferDuration, trackCount) ==
  [Durations(NoInfo, bufferDuration) EXCEPT !.tracks = trackCount]

\* The tests in front of the allocation.
ValidStreamInfo(streamingType, retention, bufferDuration) ==
  bufferDuration # 0 /\ (streamingType # "offline" \/ retention # 0)

CreateStreamInfo(streamingType, retention, bufferDuration, trackCount) ==
  IF ValidStreamInfo(streamingType, retention, bufferDuration)
    THEN setStreamInfoDefaults(bufferDuration, trackCount)
    ELSE NoInfo

createVideoStreamInfo(streamingType, retention, bufferDuration) ==
  CreateStreamInfo(streamingType, retention, bufferDuration, 1)

createAudioVideoStreamInfo(streamingType, retention, bufferDuration) ==
  CreateStreamInfo(streamingType, retention, bufferDuration, 2)

createAudioStreamInfo(streamingType, retention, bufferDuration) ==
  CreateStreamInfo(streamingType, retention, bufferDuration, 1)

SecondsUnscaled(storageSize, bitrate, streamCount) ==    \* mutant: 1.2 for 0.85
  (storageSize * 48) \div (bitrate * streamCount * 5)

\* Whole seconds of media of all the streams that fit into the storage, with
\* 0.85 of it usable (8 * 0.85 = 34 / 5): truncated before it is scaled to ticks.
WholeSeconds(storageSize, bitrate, streamCount) ==
  (storageSize * 34) \div (bitrate * streamCount * 5)

setStreamInfoBasedOnStorageSize(storageSize, bitrate, streamCount, info) ==
  IF storageSize > 0 /\ bitrate > 0 /\ streamCount > 0
    THEN Durations(info, WholeSeconds(storageSize, bitrate, streamCount) * Second)
    ELSE info

----------------------------------------------------------------------------
(* A buffer that was sized by the storage, for streams of that bitrate,     *)
(* fits into it; the replay and the latency threshold lie within the buffer; *)
(* and a device sized for this buffer and all its streams, unless that is    *)
(* more than PIC can allocate, is large enough for the stream sizing to give *)
(* the buffer back (1.2 * 0.85 > 1).                                        *)
FitsStorage(storageSize, bitrate, streamCount, info) ==
  LET device == createDefaultDeviceInfo(storageSize)
      sized  == setDeviceInfoStorageSizeBasedOnBitrateAndBufferDuration(
                  device, bitrate, info.bufferDuration)
  IN  /\ info.bufferDuration * bitrate * streamCount <= storageSize * 8 * Second
      /\ info.replayDuration <= info.maxLatency
      /\ info.maxLatency <= info.bufferDuration
      /\ sized # device =>
           WholeSeconds(sized.storageSize, bitrate, sized.streamCount) * Second
             >= info.bufferDuration
=============================================================================
