------------------------------ MODULE Channel -------------------------------
(***************************************************************************)
(* The trade channel: the link to the broker, and what the SDK's callbacks *)
(* (callbacks.py) tell the program of it through trade_channel_up and      *)
(* trade_channel_up_at (state.py). While the link is down, and until the   *)
(* replay after a reconnect has settled, broker queries may come back      *)
(* empty (GM_SDK.md). The program's only protection is the flag and the    *)
(* grace. Times are kept as ages that stop at the bound they are compared  *)
(* with; a stamp of 0.0, "no event yet", is an age at its bound.           *)
(***************************************************************************)
EXTENDS Domain

VARIABLES
    link,      \* is the link to the broker up?
    linkAge,   \* ticks since it came up, stops at Settle
    told,      \* what the last connection callback told the program
    up,        \* trade_channel_up
    upAge      \* ticks since trade_channel_up_at, stops at Grace

channelVars == <<link, linkAge, told, up, upAge>>

ChannelTypeOK ==
    /\ link \in BOOLEAN
    /\ linkAge \in 0..Settle
    /\ told \in {"up", "set", "down"}
    /\ up \in BOOLEAN
    /\ upAge \in 0..Grace

ChannelInit ==
    /\ link = TRUE /\ linkAge = Settle
    /\ told = "up"
    /\ up = TRUE /\ upAge = Grace

(* Do queries answer in full?                                              *)
Answers == link /\ linkAge = Settle

(* The callbacks for the last change of the link have all returned.        *)
Announced == told = IF link THEN "up" ELSE "down"

(* May the worker look at the flag before they have? "late": while         *)
(* on_trade_data_connected is between its two statements; "gap": at any    *)
(* moment.                                                                 *)
Late == "gap" \in Faults \/ ("late" \in Faults /\ told = "set")

LinkDrops ==
    /\ link /\ told = "up"
    /\ link' = FALSE
    /\ UNCHANGED <<linkAge, told, up, upAge>>

LinkReturns ==
    /\ ~link /\ told = "down"
    /\ link' = TRUE /\ linkAge' = 0
    /\ UNCHANGED <<told, up, upAge>>

(* on_trade_data_disconnected, and on_account_status with a state of       *)
(* teardown or error.                                                      *)
OnDisconnected ==
    /\ ~link /\ told = "up"
    /\ told' = "down" /\ up' = FALSE
    /\ UNCHANGED <<link, linkAge, upAge>>

(* on_trade_data_connected sets the flag, then stamps the time. Nothing    *)
(* keeps the worker from reading both in between.                          *)
OnConnectedSet ==
    /\ link /\ told = "down"
    /\ told' = "set" /\ up' = TRUE
    /\ UNCHANGED <<link, linkAge, upAge>>

OnConnectedStamp ==
    /\ told = "set"
    /\ told' = "up" /\ upAge' = 0
    /\ UNCHANGED <<link, linkAge, up>>

(* on_account_status with State_LOGGEDIN sets the flag and stamps nothing. *)
(* Where the SDK is prompt it comes after on_trade_data_connected.         *)
OnLoggedIn ==
    /\ link
    /\ told = "down" => "gap" \in Faults
    /\ told # "set"
    /\ up' = TRUE
    /\ UNCHANGED <<link, linkAge, told, upAge>>

ChannelTick ==
    /\ linkAge' = Older(linkAge, Settle)
    /\ upAge' = Older(upAge, Grace)
    /\ UNCHANGED <<link, told, up>>

(* The module-level values of state.py after a restart: the flag is set    *)
(* optimistically and no stamp exists. gm.api.run() has connected before   *)
(* it calls init(); only under "gap" may the replay still be going on.     *)
ChannelRestart ==
    /\ link' = TRUE /\ told' = "up" /\ up' = TRUE /\ upAge' = Grace
    /\ linkAge' \in IF "gap" \in Faults THEN {0, Settle} ELSE {Settle}
=============================================================================
