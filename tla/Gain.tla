-------------------------------- MODULE Gain --------------------------------
(***************************************************************************)
(* Soft volume and replay gain (core/player.c). The consumer scales what it *)
(* is about to write where it lies, in the ring; the device may take less,  *)
(* and scale_pos tells how far the rest is scaled already. The frames of    *)
(* one chunk are modelled: how often each was scaled, and whether it had    *)
(* to be when it was written. Gains are in decibels, whole ones; 0 is 1.0.  *)
(***************************************************************************)
EXTENDS Integers, Sequences, FiniteSets

CONSTANTS
    ChunkFrames,    \* frames of a chunk
    MaxPos,         \* bound: of consumer_pos, in frames
    Infos,          \* the gains and peaks that tracks have
    Factor          \* SOFT_VOL_SCALE * pow(10, db / 20), for the gains that there can be

VARIABLES
    frames, l,          \* the chunk that is read, and its l
    consumer_pos, scale_pos,
    soft_vol, replaygain, replaygain_limit, replaygain_preamp,
    ti, alone,          \* the track; RG_SMART takes it by itself
    replaygain_scale,
    again, moved        \* for the properties: see TurnedOn and SwitchMode

vars == <<frames, l, consumer_pos, scale_pos, soft_vol, replaygain, replaygain_limit,
          replaygain_preamp, ti, alone, replaygain_scale, again, moved>>

Modes == {"disabled", "track", "album", "track-preferred", "album-preferred", "smart"}
None == -1000   \* NAN

-----------------------------------------------------------------------------
(* Samples. *)

Scale == 65536
Wrapped(n) == ((n + 32768) % Scale) - 32768

\* scale_sample_int16_t and, with a product of 64 bits, scale_sample_int32_t and the one
\* for 24 bits: sample * vol, half of the scale added away from zero, divided by the
\* scale towards zero, and no further than the largest sample. With 16 bits the product
\* has 32, and is wrapped around before it is compared with the largest sample (C leaves
\* the overflow undefined). vol is split in two, as TLC has 32 bits as well.
ScaleSample(sample, vol, wide) ==
    LET low == sample * (vol % Scale) + IF sample < 0 THEN -32768 ELSE 32768
        high == sample * (vol \div Scale) + low \div Scale
        kept == IF wide THEN high ELSE Wrapped(high)
        scaled == IF kept < 0 /\ low % Scale # 0 THEN kept + 1 ELSE kept
    IN  IF scaled > 32767 THEN 32767 ELSE IF scaled < -32768 THEN -32768 ELSE scaled

\* faulty: the right sample is scaled with the left one's volume
ScaleFrameLeft(frame, lv, rv, wide) ==
    [i \in {1, 2} |-> IF lv = Scale THEN frame[i] ELSE ScaleSample(frame[i], lv, wide)]

\* SCALE_SAMPLES leaves a channel alone whose scale is 1
ScaleFrame(frame, lv, rv, wide) ==
    [i \in {1, 2} |-> LET vol == IF i = 1 THEN lv ELSE rv
                      IN  IF vol = Scale THEN frame[i] ELSE ScaleSample(frame[i], vol, wide)]

\* update_rg_scale
UpdatedRgScale(info, mode, byItself, limit, preamp) ==
    LET avoid == mode = "smart" /\ byItself
        track == <<info.track_gain, info.track_peak>>
        album == <<info.album_gain, info.album_peak>>
        first == IF mode \in {"track", "track-preferred"} \/ avoid THEN track ELSE album
        found == IF first[1] # None THEN first
                 ELSE IF mode = "track-preferred" \/ avoid THEN album
                 ELSE IF mode = "album-preferred" THEN track ELSE first
        peak == IF found[2] = None THEN info.output_gain ELSE found[2]
    IN  IF mode = "disabled" \/ found[1] = None \/ peak < -26 THEN 0
        ELSE IF limit /\ preamp + found[1] > -peak THEN -peak ELSE preamp + found[1]

-----------------------------------------------------------------------------
Twice(n) == IF n = 2 THEN 2 ELSE n + 1   \* bound: no more than twice is told apart
Fresh == [i \in 1..ChunkFrames |-> [scaled |-> 0, due |-> FALSE]]

Init ==
    /\ frames = Fresh /\ l = 0 /\ consumer_pos = 0 /\ scale_pos = 0
    /\ soft_vol = FALSE /\ replaygain = "disabled" /\ replaygain_limit = TRUE
    /\ replaygain_preamp = 0 /\ ti \in Infos /\ alone \in BOOLEAN
    /\ replaygain_scale = 0 /\ again = FALSE /\ moved = FALSE

On == soft_vol \/ replaygain # "disabled"
Settings == <<soft_vol, replaygain, replaygain_limit, replaygain_preamp, ti, alone, replaygain_scale, moved>>

\* faulty: what the device left over is scaled again
ScaledAlways(size) ==
    /\ scale_pos' = consumer_pos + size
    /\ frames' = [i \in DOMAIN frames |->
          IF i \in l + 1..l + size THEN [scaled |-> Twice(frames[i].scaled), due |-> TRUE] ELSE frames[i]]

\* scale_samples
Scaled(size) ==
    LET offs == scale_pos - consumer_pos
    IN  /\ scale_pos' = IF offs >= size THEN scale_pos ELSE consumer_pos + size
        /\ frames' = [i \in DOMAIN frames |->
              IF i \in l + 1..l + size
              THEN [scaled |-> IF i > l + offs THEN Twice(frames[i].scaled) ELSE frames[i].scaled,
                    due |-> TRUE]
              ELSE frames[i]]

\* The consumer has room for size frames in the device, which takes rc of them. What is
\* not written has to be as before, hence due is for what is written only.
Write ==
    /\ consumer_pos < MaxPos
    /\ \E size \in 1..ChunkFrames - l : \E rc \in 0..size :
          /\ IF On THEN Scaled(size) ELSE UNCHANGED <<frames, scale_pos>>
          /\ consumer_pos' = consumer_pos + rc /\ l' = l + rc
    /\ UNCHANGED <<again, Settings>>
\* the next chunk of the ring
NextChunk ==
    /\ l = ChunkFrames /\ l' = 0 /\ frames' = Fresh /\ again' = FALSE
    /\ UNCHANGED <<consumer_pos, scale_pos, Settings>>

\* player_set_soft_vol and player_set_rg: scale_pos is left alone while it is in use.
\* again: the gain is turned on while frames that were scaled before still lie there.
TurnedOn == /\ scale_pos' = IF On THEN scale_pos ELSE consumer_pos
            /\ again' = (again \/ (~On /\ consumer_pos < scale_pos))
SetSoftVol ==
    /\ \E soft \in BOOLEAN : soft_vol' = soft
    /\ TurnedOn /\ UNCHANGED <<frames, l, consumer_pos, replaygain, replaygain_limit,
                               replaygain_preamp, ti, alone, replaygain_scale, moved>>

\* faulty: the scale stays that of the mode before
RgSetOnly(mode, limit, preamp, info) ==
    /\ replaygain' = mode /\ replaygain_limit' = limit /\ replaygain_preamp' = preamp /\ ti' = info
    /\ replaygain_scale' = IF info = ti THEN replaygain_scale
                           ELSE UpdatedRgScale(info, mode, alone, limit, preamp)
    /\ moved' = FALSE /\ UNCHANGED <<soft_vol, alone>>

\* the scale is computed again
RgSet(mode, limit, preamp, info) ==
    /\ replaygain' = mode /\ replaygain_limit' = limit /\ replaygain_preamp' = preamp /\ ti' = info
    /\ replaygain_scale' = UpdatedRgScale(info, mode, alone, limit, preamp)
    /\ moved' = FALSE /\ UNCHANGED <<soft_vol, alone>>

SetRg ==
    /\ \E mode \in Modes : RgSet(mode, replaygain_limit, replaygain_preamp, ti)
    /\ TurnedOn /\ UNCHANGED <<frames, l, consumer_pos>>
SetRgLimit ==
    /\ \E limit \in BOOLEAN : RgSet(replaygain, limit, replaygain_preamp, ti)
    /\ UNCHANGED <<frames, l, consumer_pos, scale_pos, again>>
SetRgPreamp ==
    /\ \E db \in {0, 6} : RgSet(replaygain, replaygain_limit, db, ti)
    /\ UNCHANGED <<frames, l, consumer_pos, scale_pos, again>>
\* file_changed, where the next track is played without a gap
FileChanged ==
    /\ \E info \in Infos : RgSet(replaygain, replaygain_limit, replaygain_preamp, info)
    /\ UNCHANGED <<frames, l, consumer_pos, scale_pos, again>>
\* shuffle, play_library or the queue: the scale stays until the next of the above
SwitchMode ==
    /\ alone' = ~alone /\ moved' = TRUE
    /\ UNCHANGED <<frames, l, consumer_pos, scale_pos, again, soft_vol, replaygain, replaygain_limit,
                   replaygain_preamp, ti, replaygain_scale>>

\* reset_buffer; player_seek then counts from the new position on
Reset ==
    /\ frames' = Fresh /\ l' = 0 /\ again' = FALSE
    /\ \E pos \in {0, 1, MaxPos - 1} : consumer_pos' = pos /\ scale_pos' = pos
    /\ UNCHANGED Settings

Next ==
    \/ Write \/ NextChunk \/ SetSoftVol \/ SetRg \/ SetRgLimit \/ SetRgPreamp
    \/ FileChanged \/ SwitchMode \/ Reset

-----------------------------------------------------------------------------
\* scale_samples: its assertion holds, and however little the device takes, every frame
\* is scaled exactly once if the gain is on. That is not so of frames that were scaled
\* before the gain was turned off and on again, of which scale_pos tells nothing any more.
ScaledOnce ==
    /\ On => scale_pos >= consumer_pos
    /\ ~again => \A i \in DOMAIN frames :
          /\ frames[i].scaled <= 1
          /\ frames[i].due => frames[i].scaled = 1
          /\ (On /\ i > l) => (frames[i].scaled = 1 <=> i - l <= scale_pos - consumer_pos)

\* update_rg_scale: the gain in use is the one of the track and the settings, of those that
\* the mode allows, and with the limit on a peak that is known is not taken over the top.
GainIsCurrent ==
    /\ (moved /\ replaygain = "smart")
       \/ replaygain_scale = UpdatedRgScale(ti, replaygain, alone, replaygain_limit, replaygain_preamp)
    /\ (replaygain_limit /\ replaygain_scale > 0) =>
          \E peak \in {ti.track_peak, ti.album_peak, ti.output_gain} :
             peak # None /\ peak + replaygain_scale <= 0

Samples == {-32768, -32767, -20000, -3, -1, 0, 1, 2, 3, 255, 20000, 32766, 32767}
Volumes == {0, 272, 32768, 61395, 65535, 65536, 98304, 131072, 262144}
Mag(n) == IF n < 0 THEN -n ELSE n

\* scale_sample_*: loud stays loud and silence silent; what a volume up to 1 makes of a
\* sample is no louder. With 24 and 32 bits, of which the products have 64, what is amplified
\* too much is cut off. With 16 bits it is the same as long as it is not too loud; what is
\* wraps around before it is compared, and may change its sign.
ScalingIsSound ==
    \A lv \in Volumes, rv \in {0, 65536, 131072} : \A s \in Samples :
        LET f == ScaleFrame(<<s, s>>, lv, rv, TRUE)
        IN  /\ \A i \in {1, 2} : s >= 0 => f[i] >= 0
            /\ \A i \in {1, 2} : s <= 0 => f[i] <= 0
            /\ \A t \in Samples : s <= t => f[1] <= ScaleFrame(<<t, t>>, lv, rv, TRUE)[1]
            /\ lv <= Scale => Mag(f[1]) <= Mag(s)
            /\ (lv <= Scale \/ Mag(f[1]) < 32767) => f[1] = ScaleFrame(<<s, s>>, lv, rv, FALSE)[1]
            /\ lv >= Scale => Mag(f[1]) >= Mag(s)
            /\ f[2] = CASE rv = 0 -> 0 [] rv = 65536 -> s
                        [] OTHER -> IF s > 16383 THEN 32767 ELSE IF s < -16384 THEN -32768 ELSE 2 * s
=============================================================================
