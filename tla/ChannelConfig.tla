---------------------------- MODULE ChannelConfig ----------------------------
(***************************************************************************)
(* The page of the runtime configuration,                                  *)
(* src/web/src/views/HuoyuanConfigView.vue, with the calls of              *)
(* src/web/src/api/huoyuan-config.ts and the handlers of                   *)
(* src/admin_huoyuan_config.go: one form for the global configuration, and *)
(* a dialog for the configuration of one channel (a "hid").                *)
(*                                                                         *)
(* A configuration gives each key a value or leaves it unset.  What holds  *)
(* for a channel is its own value, else the global one, else the default.  *)
(* Both forms are filled with what holds and are saved as a whole.         *)
(***************************************************************************)
EXTENDS Naturals

CONSTANTS Channels, CfgKeys, CfgValues,
          DefaultCfg,    \* defaultRuntimeConfigBase()
          CfgSlots       \* bound: so many calls does the page send

ASSUME ChannelAssumption ==
    /\ DefaultCfg \in [CfgKeys -> CfgValues]
    /\ "unset" \notin CfgValues /\ "none" \notin Channels
    /\ CfgSlots \in Nat \ {0}

VARIABLES global,        \* the global override
          own,           \* the overrides of the channels
          gform,         \* globalForm
          gtyped,        \* it was changed since an answer filled it
          listed,        \* huoyuanList: the channels shown with has_config
          dialog,        \* the dialog of a channel
          cbusy,         \* loading
          asks,          \* the calls in flight
          stale          \* how far the page may be behind, see below

channelVars == <<global, own, gform, gtyped, listed, dialog, cbusy, asks, stale>>

-----------------------------------------------------------------------------

Unset == "unset"
NoChannel == "none"
Config == [CfgKeys -> CfgValues \cup {Unset}]
EmptyConfig == [k \in CfgKeys |-> Unset]

\* mergeRuntimeConfig
Merge(base, over) == [k \in CfgKeys |-> IF over[k] = Unset THEN base[k] ELSE over[k]]
GlobalView == Merge(DefaultCfg, global)
Effective(h) == Merge(GlobalView, own[h])
HasConfig == {h \in Channels : own[h] # EmptyConfig}

\* "clean" says that the form is as the answer for this channel filled it.
Dialog == [shown: BOOLEAN, hid: Channels \cup {NoChannel}, form: Config, clean: BOOLEAN,
           ask: {"none", "global", "hid"}]

CfgOps == {"load", "save global", "reset global", "get", "save hid", "reset hid"}
CfgWrites == {"save global", "reset global", "save hid", "reset hid"}
CfgCall == [op: CfgOps, hid: Channels \cup {NoChannel}, cfg: Config,
            list: SUBSET Channels, served: BOOLEAN, clean: BOOLEAN]
NoAsk == [op |-> "unused"]
AskOver == [op |-> "over"]
CfgSlot == 1..CfgSlots
Asked(i) == asks[i].op \in CfgOps

ACfgCall(op, h, cfg, clean) ==
    [op |-> op, hid |-> h, cfg |-> cfg, list |-> {}, served |-> FALSE, clean |-> clean]
LoadAll == ACfgCall("load", NoChannel, EmptyConfig, FALSE)

\* "mixed": the values of a channel were asked for, or waited for, while
\* another call was under way.  "missed": a call on the lists failed.
SendCfg(c) ==
    /\ \E i \in CfgSlot :
          /\ asks[i] = NoAsk /\ \A j \in CfgSlot : asks[j] = NoAsk => i <= j
          /\ asks' = [asks EXCEPT ![i] = c]
    /\ stale' = [stale EXCEPT !.mixed = \/ @
          \/ \E i \in CfgSlot : Asked(i) /\ "get" \in {c.op, asks[i].op}]

SendLoading(c) == "loading" \notin cbusy /\ SendCfg(c) /\ cbusy' = {"loading"}

-----------------------------------------------------------------------------
(* The handlers.  An empty configuration removes the override.             *)

\* Mutant of Answered: the values of a channel are those of all channels.
AnsweredGlobal(c) ==
    CASE c.op \in {"load", "get"} -> GlobalView
      [] c.op = "save global" -> Merge(DefaultCfg, c.cfg)
      [] OTHER -> EmptyConfig

Answered(c) ==
    CASE c.op = "load" -> GlobalView
      [] c.op = "save global" -> Merge(DefaultCfg, c.cfg)
      [] c.op = "get" -> Effective(c.hid)
      [] OTHER -> EmptyConfig

ServeCfg(i) ==
    /\ Asked(i) /\ ~asks[i].served
    /\ LET c == asks[i] IN
       /\ global' = CASE c.op = "save global" -> c.cfg
                      [] c.op = "reset global" -> EmptyConfig
                      [] OTHER -> global
       /\ own' = CASE c.op = "save hid" -> [own EXCEPT ![c.hid] = c.cfg]
                   [] c.op = "reset hid" -> [own EXCEPT ![c.hid] = EmptyConfig]
                   [] OTHER -> own
       /\ asks' = [asks EXCEPT ![i] =
             [c EXCEPT !.served = TRUE, !.list = HasConfig, !.cfg = Answered(c)]]
    /\ UNCHANGED <<gform, gtyped, listed, dialog, cbusy, stale>>

-----------------------------------------------------------------------------
(* The global form.                                                        *)

AtPage == ~dialog.shown /\ dialog.ask = "none"

RefreshCfg ==
    /\ AtPage /\ SendLoading(LoadAll)
    /\ UNCHANGED <<global, own, gform, gtyped, listed, dialog>>

\* The fields stay open while the page loads.  setNum: an emptied field is
\* unset.
EditGlobal ==
    /\ AtPage
    /\ \E k \in CfgKeys, v \in CfgValues \cup {Unset} :
          v # gform[k] /\ gform' = [gform EXCEPT ![k] = v]
    /\ gtyped' = TRUE
    /\ UNCHANGED <<global, own, listed, dialog, cbusy, asks, stale>>

\* buildPayloadFromForm leaves out what is unset.
SaveGlobal ==
    /\ AtPage /\ SendLoading(ACfgCall("save global", NoChannel, gform, FALSE))
    /\ UNCHANGED <<global, own, gform, gtyped, listed, dialog>>

AskReset(what) ==
    /\ "loading" \notin cbusy /\ dialog.ask = "none"
    /\ IF what = "hid" THEN dialog.shown /\ dialog.hid \in listed ELSE ~dialog.shown
    /\ dialog' = [dialog EXCEPT !.ask = what]
    /\ UNCHANGED <<global, own, gform, gtyped, listed, cbusy, asks, stale>>

CancelReset ==
    /\ dialog.ask # "none"
    /\ dialog' = [dialog EXCEPT !.ask = "none"]
    /\ UNCHANGED <<global, own, gform, gtyped, listed, cbusy, asks, stale>>

ConfirmReset ==
    /\ dialog.ask # "none"
    /\ dialog' = [dialog EXCEPT !.ask = "none"]
    /\ SendLoading(IF dialog.ask = "global"
                   THEN ACfgCall("reset global", NoChannel, EmptyConfig, FALSE)
                   ELSE ACfgCall("reset hid", dialog.hid, EmptyConfig, FALSE))
    /\ UNCHANGED <<global, own, gform, gtyped, listed>>

\* fillGlobalFormFromView
FillGlobal(view) == gform' = view /\ gtyped' = FALSE

AnswerGlobal(i) ==
    /\ Asked(i) /\ asks[i].served /\ asks[i].op \in {"load", "save global"}
    /\ FillGlobal(asks[i].cfg)
    /\ listed' = IF asks[i].op = "load" THEN asks[i].list ELSE listed
    /\ cbusy' = {}
    /\ asks' = [asks EXCEPT ![i] = AskOver]
    /\ stale' = [stale EXCEPT !.missed = @ /\ asks[i].op # "load"]
    /\ UNCHANGED <<global, own, dialog>>

-----------------------------------------------------------------------------
(* The dialog of a channel.                                                *)

\* openHIDEdit: neither the flag nor a call under way keeps it from opening.
\* The form is empty until the answer is there.
OpenChannel(h) ==
    /\ AtPage
    /\ dialog' = [shown |-> TRUE, hid |-> h, form |-> EmptyConfig, clean |-> FALSE,
                  ask |-> "none"]
    /\ SendCfg(ACfgCall("get", h, EmptyConfig, FALSE))
    /\ UNCHANGED <<global, own, gform, gtyped, listed, cbusy>>

\* Whichever channel the dialog shows by now.
AnswerChannel(i) ==
    /\ Asked(i) /\ asks[i].served /\ asks[i].op = "get"
    /\ dialog' = [dialog EXCEPT !.form = asks[i].cfg, !.clean = (asks[i].hid = dialog.hid)]
    /\ asks' = [asks EXCEPT ![i] = AskOver]
    /\ UNCHANGED <<global, own, gform, gtyped, listed, cbusy, stale>>

EditChannel ==
    /\ dialog.shown /\ dialog.ask = "none"
    /\ \E k \in CfgKeys, v \in CfgValues \cup {Unset} :
          v # dialog.form[k] /\ dialog' = [dialog EXCEPT !.form[k] = v, !.clean = FALSE]
    /\ UNCHANGED <<global, own, gform, gtyped, listed, cbusy, asks, stale>>

CloseChannel ==
    /\ dialog.shown /\ dialog.ask = "none"
    /\ dialog' = [dialog EXCEPT !.shown = FALSE]
    /\ UNCHANGED <<global, own, gform, gtyped, listed, cbusy, asks, stale>>

SaveHID ==
    /\ dialog.shown /\ dialog.ask = "none"
    /\ SendLoading(ACfgCall("save hid", dialog.hid, dialog.form, dialog.clean))
    /\ UNCHANGED <<global, own, gform, gtyped, listed, dialog>>

\* Mutant of AnswerChange: nothing is loaded again.
AnswerChangeUnloaded(i) ==
    /\ Asked(i) /\ asks[i].served
    /\ asks[i].op \in {"save hid", "reset hid", "reset global"}
    /\ dialog' = [dialog EXCEPT !.shown = FALSE]
    /\ cbusy' = {}
    /\ asks' = [asks EXCEPT ![i] = AskOver]
    /\ UNCHANGED <<global, own, gform, gtyped, listed, stale>>

\* The dialog closes and everything is loaded again: what was typed into
\* the global form is lost.
AnswerChange(i) ==
    /\ Asked(i) /\ asks[i].served
    /\ asks[i].op \in {"save hid", "reset hid", "reset global"}
    /\ dialog' = IF asks[i].op = "reset global" THEN dialog
                 ELSE [dialog EXCEPT !.shown = FALSE]
    /\ asks' = [asks EXCEPT ![i] = LoadAll]
    /\ UNCHANGED <<global, own, gform, gtyped, listed, cbusy, stale>>

\* Refused or unanswered.  A failed "get" leaves the form empty.
FailCfg(i) ==
    /\ Asked(i)
    /\ asks' = [asks EXCEPT ![i] = AskOver]
    /\ cbusy' = IF asks[i].op = "get" THEN cbusy ELSE {}
    /\ stale' = [stale EXCEPT !.missed = @ \/ asks[i].op # "get"]
    /\ UNCHANGED <<global, own, gform, gtyped, listed, dialog>>

-----------------------------------------------------------------------------

\* onMounted(loadAll).  One channel may have a configuration of its own.
ChannelInit ==
    /\ global = EmptyConfig
    /\ own \in {o \in [Channels -> Config] :
                   \A g, h \in Channels : o[g] # EmptyConfig /\ o[h] # EmptyConfig => g = h}
    /\ gform = EmptyConfig /\ gtyped = FALSE
    /\ listed = {}
    /\ dialog = [shown |-> FALSE, hid |-> NoChannel, form |-> EmptyConfig,
                 clean |-> FALSE, ask |-> "none"]
    /\ cbusy = {"loading"}
    /\ asks = [i \in CfgSlot |-> IF i = 1 THEN LoadAll ELSE NoAsk]
    /\ stale = [mixed |-> FALSE, missed |-> TRUE]

ChannelNext ==
    \/ RefreshCfg \/ EditGlobal \/ SaveGlobal
    \/ CancelReset \/ ConfirmReset
    \/ \E what \in {"global", "hid"} : AskReset(what)
    \/ \E h \in Channels : OpenChannel(h)
    \/ EditChannel \/ CloseChannel \/ SaveHID
    \/ \E i \in CfgSlot : \/ ServeCfg(i) \/ AnswerGlobal(i) \/ AnswerChannel(i)
                          \/ AnswerChange(i) \/ FailCfg(i)

ChannelSpec == ChannelInit /\ [][ChannelNext]_channelVars

-----------------------------------------------------------------------------
(* Properties.                                                             *)

ChannelTypeOK ==
    /\ global \in Config /\ own \in [Channels -> Config]
    /\ gform \in Config /\ gtyped \in BOOLEAN /\ listed \subseteq Channels
    /\ dialog \in Dialog /\ cbusy \subseteq {"loading"}
    /\ asks \in [CfgSlot -> CfgCall \cup {NoAsk, AskOver}]
    /\ stale \in [mixed: BOOLEAN, missed: BOOLEAN]

\* At rest the global form and the list show what holds, unless a call
\* failed or the administrator has typed since: every change, of a channel
\* too, is followed by a load under the same flag.
GlobalIsShown ==
    "loading" \notin cbusy /\ ~stale.missed =>
        /\ ~gtyped => gform = GlobalView
        /\ listed = HasConfig

\* To open a channel and save it untouched changes nothing of what holds for
\* any channel, although it turns every inherited value into one of its own:
\* the form is filled with the merged configuration, emptied before and
\* merged again on the server.  It does not hold when the values of the
\* channel were under way together with another call ("mixed"), or when the
\* answer to a change was lost ("missed").
UntouchedSaveKeeps ==
    [][\A i \in CfgSlot :
          (Asked(i) /\ asks[i].op = "save hid" /\ ~asks[i].served /\ asks[i].clean
              /\ asks'[i] # asks[i] /\ asks'[i] # AskOver
              /\ ~stale.mixed /\ ~stale.missed)
          => \A h \in Channels : Effective(h)' = Effective(h)]_channelVars

=============================================================================
