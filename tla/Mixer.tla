------------------------------- MODULE Mixer -------------------------------
(***************************************************************************)
(* The output plugins, of which one is in use, and their mixers             *)
(* (core/output.c, player_set_op, the options that concern them, :vol and   *)
(* :mute). Whether the mixer is open depends on softvol and on              *)
(* pause_on_output_change, which are looked at before and after a change.   *)
(* What a plugin returns is any outcome.                                    *)
(***************************************************************************)
EXTENDS Integers, Sequences, FiniteSets

CONSTANTS
    OpHead,     \* the plugins, sorted by priority
    WithMixer,  \* those that have mixer_ops
    NoPlugin,
    MixerMax,   \* volume_max of an open mixer
    SoftMax     \* 100 in the code

VARIABLES
    running,            \* ui_initialized
    op, pcm_initialized, mixer_initialized,
    mixer_is_open,      \* the plugins whose mixer_open flag is set
    volume_max,
    device,             \* the plugins whose pcm is open
    soft_vol, pause_on_output_change,
    volume, soft, mute, \* left and right: volume_l and volume_r, soft_vol_l and _r, mute_vol_l and _r
    told,               \* for the properties: what the mixer was last told to be
    failed,             \* the assertion of mixer_open failed
    mixed               \* for the properties: pause_on_output_change was set in soft volume

vars == <<running, op, pcm_initialized, mixer_initialized, mixer_is_open, volume_max, device,
          soft_vol, pause_on_output_change, volume, soft, mute, told, failed, mixed>>

Plugins == {OpHead[i] : i \in DOMAIN OpHead}
Wanted(softvol, pause) == ~softvol \/ pause

\* what the calls that are below change, as a record
Out == [op |-> op, pcm |-> pcm_initialized, mixers |-> mixer_initialized, open |-> mixer_is_open,
        max |-> volume_max, device |-> device, volume |-> volume, failed |-> failed]
Becomes(o) ==
    /\ op' = o.op /\ pcm_initialized' = o.pcm /\ mixer_initialized' = o.mixers
    /\ mixer_is_open' = o.open /\ volume_max' = o.max /\ device' = o.device
    /\ volume' = o.volume /\ failed' = o.failed

\* faulty: volume_max stays
ClosedOnly(o) == [o EXCEPT !.open = @ \ {o.op}]
\* mixer_close
Closed(o) == [o EXCEPT !.max = 0, !.open = @ \ {o.op}]

\* mixer_read_volume of an open mixer: if it fails the volume stays what it was, even
\* that of the plugin before
Unread == <<-2, -2>>
Read(o, level) == IF level = Unread THEN o ELSE [o EXCEPT !.volume = level]

\* mixer_open; opens is what the mixer answers, level what it reads then
Opened(o, opens, level) ==
    IF o.op = NoPlugin THEN o
    ELSE IF o.op \in o.open THEN [o EXCEPT !.failed = TRUE]
    ELSE IF o.op \notin o.mixers THEN o
    ELSE IF opens THEN Read([o EXCEPT !.open = @ \cup {o.op}, !.max = MixerMax], level)
    ELSE [o EXCEPT !.max = 0]

\* init_plugin: what is initialised stays so; inits and minits are those that can be now
Inited(o, p, inits, minits) ==
    [o EXCEPT !.mixers = @ \cup ({p} \cap minits \cap WithMixer), !.pcm = @ \cup ({p} \cap inits)]
\* select_plugin
Selected(o, p, inits, minits) ==
    LET i == Inited(o, p, inits, minits) IN IF p \in i.pcm THEN [i EXCEPT !.op = p] ELSE i

\* op_select_any: the first that can be opened, and otherwise the last that can be selected
RECURSIVE SelectedAny(_, _, _, _, _)
SelectedAny(o, i, inits, minits, opens) ==
    IF i > Len(OpHead) THEN o
    ELSE LET s == Selected(o, OpHead[i], inits, minits)
         IN  IF OpHead[i] \in s.pcm \cap opens THEN s ELSE SelectedAny(s, i + 1, inits, minits, opens)

\* faulty: the device of the plugin before stays open
SetOpKept(o, name, inits, minits, opens) ==
    LET s == IF name \in Plugins THEN Selected(o, name, inits, minits) ELSE o
    IN  IF name \in s.pcm /\ o.device # {} /\ name \in opens THEN [s EXCEPT !.device = @ \cup {name}] ELSE s

\* player_set_op while the program runs; the track goes on if the device can be opened
SetOp(o, name, inits, minits, opens) ==
    LET closed == [o EXCEPT !.device = {}]
        s == IF name \in Plugins THEN Selected(closed, name, inits, minits) ELSE closed
    IN  IF name \in s.pcm /\ o.device # {} /\ name \in opens THEN [s EXCEPT !.device = {name}] ELSE s

\* the same at the start, where there is no plugin yet and nothing plays
SetFirstOp(o, name, inits, minits, opens) ==
    LET s == IF name \in Plugins THEN Selected(o, name, inits, minits) ELSE o
    IN  IF s.op = NoPlugin THEN SelectedAny(s, 1, inits, minits, opens) ELSE s

-----------------------------------------------------------------------------
Init ==
    /\ running = FALSE /\ op = NoPlugin /\ pcm_initialized = {} /\ mixer_initialized = {}
    /\ mixer_is_open = {} /\ volume_max = 0 /\ device = {}
    /\ soft_vol \in BOOLEAN /\ pause_on_output_change \in BOOLEAN
    /\ volume = <<-1, -1>> /\ soft = <<SoftMax, SoftMax>> /\ mute = <<0, 0>> /\ told = <<0, 0>>
    /\ failed = FALSE /\ mixed = FALSE

Levels == {<<0, 0>>, <<MixerMax, MixerMax>>, Unread}
Options == <<soft_vol, pause_on_output_change, mixed>>
Softs == <<soft, mute, told>>

\* init_all, after the options were loaded
Start ==
    /\ ~running /\ running' = TRUE
    /\ \E name \in Plugins \cup {NoPlugin}, inits, minits, opens \in SUBSET Plugins, level \in Levels :
          LET s == SetFirstOp(Out, name, inits, minits, opens)
          IN  \E mopens \in BOOLEAN :
                 Becomes(IF Wanted(soft_vol, pause_on_output_change) THEN Opened(s, mopens, level) ELSE s)
    /\ UNCHANGED <<Options, Softs>>

\* options_hooks_switch_output_plugin
SwitchOutput ==
    /\ running
    /\ \E name \in Plugins \cup {NoPlugin}, inits, minits, opens \in {{}, Plugins}, mopens \in BOOLEAN,
          level \in Levels :
          LET wanted == Wanted(soft_vol, pause_on_output_change)
              s == SetOp(IF wanted THEN Closed(Out) ELSE Out, name, inits, minits, opens)
          IN  Becomes(IF wanted THEN Opened(s, mopens, level) ELSE s)
    /\ UNCHANGED <<running, Options, Softs>>

\* options_hooks_set_softvol
SetSoftvol ==
    /\ running
    /\ \E mopens, on \in BOOLEAN, level \in Levels :
          LET c == IF Wanted(soft_vol, pause_on_output_change) THEN Closed(Out) ELSE Out
          IN  /\ soft_vol' = on
              /\ Becomes(IF Wanted(on, pause_on_output_change) THEN Opened(c, mopens, level) ELSE c)
    /\ UNCHANGED <<running, pause_on_output_change, mixed, Softs>>

\* the mixer is neither opened nor closed
SetPause ==
    /\ running
    /\ \E on \in BOOLEAN :
          /\ pause_on_output_change' = on
          /\ mixed' = (mixed \/ (soft_vol /\ on # pause_on_output_change))
    /\ UNCHANGED <<running, op, pcm_initialized, mixer_initialized, mixer_is_open, volume_max, device,
                   volume, failed, soft_vol, Softs>>

\* set_mixer_option of the plugin in use
SetMixerOption ==
    /\ running /\ op \in WithMixer
    /\ \E mopens \in BOOLEAN, level \in Levels :
          Becomes(IF Wanted(soft_vol, pause_on_output_change) THEN Opened(Closed(Out), mopens, level)
                  ELSE Closed(Out))
    /\ UNCHANGED <<running, Options, Softs>>

\* the player opens and closes the device
OpenDevice ==
    /\ running /\ op # NoPlugin /\ device = {}
    /\ Becomes([Out EXCEPT !.device = {op}]) /\ UNCHANGED <<running, Options, Softs>>
CloseDevice ==
    /\ running /\ device # {}
    /\ Becomes([Out EXCEPT !.device = {}]) /\ UNCHANGED <<running, Options, Softs>>

\* the volume was changed outside, and the event loop reads it
ReadVolume ==
    /\ running /\ ~soft_vol /\ op \in mixer_is_open
    /\ \E level \in Levels : Becomes(Read(Out, level))
    /\ UNCHANGED <<running, Options, Softs>>

Clamped(val, max) == IF val < 0 THEN 0 ELSE IF val > max THEN max ELSE val
\* truncated towards zero, as C does
FromPercentage(val, max) == IF val < 0 THEN -((-(val * max) + 50) \div 100) ELSE (val * max + 50) \div 100
\* faulty: only what is relative is clamped
CalcVolRelative(val, old, max, relative, percent) ==
    LET v == IF percent THEN FromPercentage(val, max) ELSE val
    IN  IF relative THEN Clamped(v + old, max) ELSE v
\* calc_vol
CalcVol(val, old, max, relative, percent) ==
    LET v == IF percent THEN FromPercentage(val, max) ELSE val
    IN  Clamped(IF relative THEN v + old ELSE v, max)

\* player_set_vol; without an open mixer nothing changes. The volume is read, set, and read
\* again; each may fail by itself, and the volume that is kept is what was read last.
SetVol(l, r, relative, percent) ==
    IF soft_vol
    THEN /\ soft' = <<CalcVol(l, soft[1], SoftMax, relative, percent),
                      CalcVol(r, soft[2], SoftMax, relative, percent)>>
         /\ UNCHANGED <<volume, told>>
    ELSE /\ IF op \notin mixer_is_open THEN UNCHANGED <<volume, told>>
            ELSE \E level \in Levels :
                    LET was == Read(Out, level).volume
                        new == <<CalcVol(l, was[1], volume_max, relative, percent),
                                 CalcVol(r, was[2], volume_max, relative, percent)>>
                    IN  told' = new /\ volume' \in {was, new}
         /\ UNCHANGED soft

RestOfVolume == UNCHANGED <<running, op, pcm_initialized, mixer_initialized, mixer_is_open, volume_max,
                            device, failed, Options>>
\* :vol
Vol ==
    /\ running
    /\ \E val \in {<<1, 1>>, <<34, 0>>, <<-120, 120>>}, relative, percent \in BOOLEAN :
          (relative \/ (val[1] >= 0 /\ val[2] >= 0)) /\ SetVol(val[1], val[2], relative, percent)
    /\ UNCHANGED mute /\ RestOfVolume
\* :mute, which keeps one volume to return to, whichever control it is of
Mute ==
    /\ running
    /\ LET now == IF soft_vol THEN soft ELSE volume
       IN  IF now = <<0, 0>> THEN SetVol(mute[1], mute[2], FALSE, FALSE) /\ UNCHANGED mute
           ELSE SetVol(0, 0, FALSE, FALSE) /\ mute' = now
    /\ RestOfVolume

\* the program ends where the assertion fails
Next ==
    /\ ~failed
    /\ \/ Start \/ SwitchOutput \/ SetSoftvol \/ SetPause \/ SetMixerOption
       \/ OpenDevice \/ CloseDevice \/ ReadVolume \/ Vol \/ Mute

-----------------------------------------------------------------------------
\* options_hooks_switch_output_plugin, options_hooks_set_softvol and player_set_op: whatever
\* fails, the device that is open is that of the plugin in use, an open mixer is of that
\* plugin, is wanted, and its range is known, and without one no volume is offered. The
\* mixer's part, that it is not opened twice (mixer_open, BUG_ON(op->mixer_open)) among it, is
\* said only of a program in which pause_on_output_change was never changed in soft volume:
\* no other code takes notice of it, and turning softvol off may then open what is open.
MixerFollows ==
    /\ device \subseteq {op} /\ (device # {} => op \in pcm_initialized)
    /\ running /\ ~mixed =>
          /\ ~failed /\ mixer_is_open \subseteq {op} \cap mixer_initialized
          /\ (mixer_is_open # {} => Wanted(soft_vol, pause_on_output_change))
          /\ (volume_max > 0 <=> mixer_is_open # {})

\* player_set_vol: whatever is asked for, in whatever unit, and whatever could be read before,
\* the soft volume and what the mixer is told are in range; and what is shown is a volume
\* or, as long as none could be read, -1.
VolumeInRange == \A i \in {1, 2} :
    soft[i] \in 0..SoftMax /\ told[i] \in 0..MixerMax /\ volume[i] \in -1..MixerMax
=============================================================================
