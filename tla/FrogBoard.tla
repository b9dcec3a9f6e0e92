----------------------------- MODULE FrogBoard -----------------------------
(***************************************************************************)
(* The FrogBoard server (frogboard_server/server.py, protocol.py): phones  *)
(* connect by WebSocket and drive the chassis through the server, which    *)
(* shares the serial line between them and ROS.  Two threads share the     *)
(* phone state without a lock: the asyncio loop, which runs the WebSocket  *)
(* handlers, and serial_proxy_thread.                                      *)
(*                                                                         *)
(* CPython switches threads at calls and backward jumps: set_enabled and   *)
(* sync_from_chassis run as one step, build_command may be interrupted     *)
(* between the speed and the en code.  The proxy thread goes round at      *)
(* least once per tick (PHONE_SEND_PERIOD_S) and MIN_TX_GAP_S leaves room  *)
(* for one frame per tick.  Topic subscriptions, launch tasks and the      *)
(* monitor of the running mode are left out.                               *)
(***************************************************************************)
EXTENDS Integers, FiniteSets

CONSTANTS
  Phones,          \* WebSocket clients
  MaxClients,      \* 8 in the code
  ArmWindow,       \* ARM_WINDOW_S in ticks
  DisableWindow,   \* DISABLE_WINDOW_S
  SyncGrace,       \* CHASSIS_SYNC_GRACE_S
  PhoneTimeout,    \* PHONE_ACTIVE_TIMEOUT_S
  IdlePeriod,      \* IDLE_SEND_PERIOD_S
  McuTimeout,      \* external: the serial watchdog of the lower controller
  MaxDrops         \* UART frames lost per press of a button

ASSUME FrogBoardConstants ==
  /\ MaxClients \in Nat \ {0}
  /\ {ArmWindow, DisableWindow, PhoneTimeout, IdlePeriod, McuTimeout} \subseteq Nat \ {0}
  /\ {SyncGrace, MaxDrops} \subseteq Nat

(* The first tick of a window may be half over, and of the others one must *)
(* not lose its frame.  At ten ticks, 0.5 s at 20 Hz, eight may be lost.   *)
ASSUME FrogBoardWindows ==
  ArmWindow >= MaxDrops + 2 /\ DisableWindow >= MaxDrops + 2

EN_DISABLE == 0
EN_NORMAL  == 1
EN_ARM     == 2

VARIABLES
  clients,         \* connected_clients
  shown,           \* what each client was last told of motor_enable
  broadcastDue,    \* broadcast_state() handed to the loop by the proxy thread
  enabled, armLeft, disableLeft,   \* PhoneControlState; the ticks its windows still run
  armEnded,        \* ticks since the arm window ended, up to SyncGrace
  moving,          \* phone_vcx, phone_wc are not zero
  joyAge,          \* ticks since last_phone_cmd_time
  pc,              \* proxy thread: "select", "telemetry", "multiplex", "en_code", "reopen"
  looped,          \* the proxy thread went round in this tick
  phone_active,    \* its local of that name
  frameMoves,      \* the frame being built has a speed
  sent,            \* a frame was written in this tick
  idleAge,         \* ticks since last_idle_send
  rosAge,          \* ticks since last_ros_cmd_time
  rosWaiting,      \* ROS wrote a command to the TX PTY
  armed, mcuAge,           \* external: the lower controller
  telemetry,       \* external: it reports CTRL_MODE_DISABLED
  press,           \* history: the last request, "none", "enable" or "disable"
  spoiled,         \* history: since then the line failed or the operator took over
  cut,             \* history: since then the last client left too early in the window
  drops            \* history: frames lost since then

web      == <<clients, shown>>
state    == <<enabled, armLeft, disableLeft, armEnded>>
joystick == <<moving, joyAge>>
proxy    == <<pc, looped, phone_active, frameMoves, sent, idleAge, rosAge, rosWaiting>>
mcu      == <<armed, mcuAge, telemetry>>
history  == <<press, spoiled, cut, drops>>
boardVars == <<web, broadcastDue, state, joystick, proxy, mcu, history>>

BoardInit ==
  /\ clients = {} /\ shown = [c \in Phones |-> FALSE] /\ broadcastDue = FALSE
  /\ enabled = FALSE /\ armLeft = 0 /\ disableLeft = 0 /\ armEnded = SyncGrace
  /\ moving = FALSE /\ joyAge = PhoneTimeout + 1
  /\ pc = "select" /\ looped = FALSE /\ phone_active = FALSE /\ frameMoves = FALSE
  /\ sent = FALSE /\ idleAge = IdlePeriod /\ rosAge = PhoneTimeout + 1 /\ rosWaiting = FALSE
  /\ armed = FALSE /\ mcuAge = 0 /\ telemetry = TRUE
  /\ press = "none" /\ spoiled = FALSE /\ cut = FALSE /\ drops = 0

----------------------------------------------------------------------------
(* protocol.py *)

SetEnabled(on) ==
  /\ enabled' = on
  /\ armLeft' = IF on THEN ArmWindow ELSE 0
  /\ disableLeft' = IF on THEN 0 ELSE DisableWindow
  /\ armEnded' = 0

InArmWindow == enabled /\ armLeft > 0
OverrideActive == armLeft > 0 \/ disableLeft > 0

EnCode ==
  IF ~enabled THEN EN_DISABLE ELSE IF InArmWindow THEN EN_ARM ELSE EN_NORMAL

(* sync_from_chassis clears the flag on this condition.                    *)
ChassisSaysDisabled ==
  /\ enabled /\ telemetry
  /\ armLeft = 0 /\ armEnded >= SyncGrace

Pressed(on) ==
  /\ press' = IF on THEN "enable" ELSE "disable"
  /\ spoiled' = (pc = "reopen")
  /\ cut' = FALSE
  /\ drops' = 0

(* broadcast_state: every client is told the flag as it is after the step. *)
Broadcast == shown' = [c \in Phones |-> IF c \in clients' THEN enabled' ELSE shown[c]]

----------------------------------------------------------------------------
(* WebSocket handlers *)

Connect(c) ==
  /\ c \notin clients
  /\ Cardinality(clients) < MaxClients
  /\ clients' = clients \cup {c}
  /\ UNCHANGED state
  /\ Broadcast
  /\ UNCHANGED <<broadcastDue, joystick, proxy, mcu, history>>

Joystick(c, moves) ==
  /\ c \in clients
  /\ moving' = moves
  /\ joyAge' = 0
  /\ UNCHANGED <<web, broadcastDue, state, proxy, mcu, history>>

MotorState(c, on) ==
  /\ c \in clients
  /\ SetEnabled(on)
  /\ Pressed(on)
  /\ UNCHANGED clients
  /\ Broadcast
  /\ UNCHANGED <<broadcastDue, joystick, proxy, mcu>>

DisconnectOther(c) ==
  /\ c \in clients /\ clients # {c}
  /\ clients' = clients \ {c}
  /\ UNCHANGED state
  /\ Broadcast
  /\ UNCHANGED <<broadcastDue, joystick, proxy, mcu, history>>

DisconnectLast_keepsArmed(c) ==     \* mutant: the flag is cleared, nothing is sent
  /\ clients = {c}
  /\ clients' = {}
  /\ enabled' = FALSE /\ armLeft' = 0 /\ disableLeft' = 0 /\ UNCHANGED armEnded
  /\ IF enabled THEN Pressed(FALSE) ELSE UNCHANGED history
  /\ moving' = FALSE
  /\ joyAge' = PhoneTimeout + 1
  /\ Broadcast
  /\ UNCHANGED <<broadcastDue, proxy, mcu>>

(* A press that has been repeated for so many ticks outlasts the lost      *)
(* frames; with more of its window left it may not have got through.       *)
Undecided == DisableWindow - (MaxDrops + 2)

(* reset: an explicit Disable if the phone was enabled; otherwise a window *)
(* that still runs is cut short.                                           *)
DisconnectLast(c) ==
  /\ clients = {c}
  /\ clients' = {}
  /\ IF enabled
     THEN SetEnabled(FALSE) /\ Pressed(FALSE)
     ELSE /\ armLeft' = 0 /\ disableLeft' = 0
          /\ cut' = (cut \/ disableLeft > Undecided)
          /\ UNCHANGED <<enabled, armEnded, press, spoiled, drops>>
  /\ moving' = FALSE
  /\ joyAge' = PhoneTimeout + 1
  /\ Broadcast
  /\ UNCHANGED <<broadcastDue, proxy, mcu>>

BroadcastState ==
  /\ broadcastDue
  /\ broadcastDue' = FALSE
  /\ UNCHANGED <<clients, state>>
  /\ Broadcast
  /\ UNCHANGED <<joystick, proxy, mcu, history>>

----------------------------------------------------------------------------
(* External: the lower controller takes a frame, unless the line drops it. *)
Frame(en, moves, dropped) ==
  /\ sent' = TRUE
  /\ dropped => drops < MaxDrops
  /\ UNCHANGED <<press, spoiled, cut, telemetry>>
  /\ IF dropped
     THEN drops' = drops + 1 /\ UNCHANGED <<armed, mcuAge>>
     ELSE /\ UNCHANGED drops
          /\ mcuAge' = 0
          /\ armed' = \/ armed /\ en # EN_DISABLE
                      \/ en = EN_ARM /\ ~moves

(* serial_proxy_thread *)

Select ==
  /\ pc = "select"
  /\ phone_active' = (joyAge <= PhoneTimeout \/ OverrideActive)
  /\ looped' = TRUE
  /\ pc' = "telemetry"
  /\ UNCHANGED <<web, broadcastDue, state, joystick, frameMoves, sent, idleAge, rosAge, rosWaiting, mcu, history>>

(* A telemetry line arrived, or none did.                                  *)
ReadTelemetry ==
  /\ pc = "telemetry"
  /\ \/ UNCHANGED <<enabled, broadcastDue>>
     \/ /\ ChassisSaysDisabled
        /\ enabled' = FALSE
        /\ broadcastDue' = TRUE
  /\ pc' = "multiplex"
  /\ UNCHANGED <<web, armLeft, disableLeft, armEnded, joystick, looped, phone_active,
                 frameMoves, sent, idleAge, rosAge, rosWaiting, mcu, history>>

PhoneFrame_drives ==         \* mutant: the speed is not held back while arming
  /\ pc = "multiplex" /\ phone_active
  /\ rosWaiting' = FALSE
  /\ IF sent
     THEN pc' = "select" /\ UNCHANGED frameMoves
     ELSE frameMoves' = (enabled /\ moving) /\ pc' = "en_code"
  /\ UNCHANGED <<web, broadcastDue, state, joystick, looped, phone_active, sent, idleAge, rosAge, mcu, history>>

(* The phone has the line: build_command works out the speed; what ROS     *)
(* wrote is discarded.                                                     *)
PhoneFrame ==
  /\ pc = "multiplex" /\ phone_active
  /\ rosWaiting' = FALSE
  /\ IF sent
     THEN pc' = "select" /\ UNCHANGED frameMoves
     ELSE /\ frameMoves' = (enabled /\ ~InArmWindow /\ moving)
          /\ pc' = "en_code"
  /\ UNCHANGED <<web, broadcastDue, state, joystick, looped, phone_active, sent, idleAge, rosAge, mcu, history>>

(* build_command works out the en code; the frame is written.              *)
SendPhoneFrame(dropped) ==
  /\ pc = "en_code"
  /\ Frame(EnCode, frameMoves, dropped)
  /\ idleAge' = 0
  /\ pc' = "select"
  /\ UNCHANGED <<web, broadcastDue, state, joystick, looped, phone_active, frameMoves, rosAge, rosWaiting>>

(* The phone does not have the line: ROS's command, or else the neutral    *)
(* heartbeat once ROS has been silent for PHONE_ACTIVE_TIMEOUT_S.          *)
ForwardRos(dropped) ==
  /\ pc = "multiplex" /\ ~phone_active
  /\ rosWaiting
  /\ rosWaiting' = FALSE
  /\ IF sent
     THEN UNCHANGED <<rosAge, sent, mcu, history>>
     ELSE rosAge' = 0 /\ Frame(EN_NORMAL, TRUE, dropped)
  /\ pc' = "select"
  /\ UNCHANGED <<web, broadcastDue, state, joystick, looped, phone_active, frameMoves, idleAge>>

HeartbeatDue == ~sent /\ rosAge > PhoneTimeout /\ idleAge >= IdlePeriod

Heartbeat(dropped) ==
  /\ pc = "multiplex" /\ ~phone_active
  /\ ~rosWaiting
  /\ IF HeartbeatDue
     THEN idleAge' = 0 /\ Frame(EN_NORMAL, FALSE, dropped)
     ELSE UNCHANGED <<idleAge, sent, mcu, history>>
  /\ pc' = "select"
  /\ UNCHANGED <<web, broadcastDue, state, joystick, looped, phone_active, frameMoves, rosAge, rosWaiting>>

(* A SerialException: the port is closed and opened again.                 *)
SerialError ==
  /\ pc = "select"
  /\ pc' = "reopen"
  /\ spoiled' = TRUE
  /\ UNCHANGED <<web, broadcastDue, state, joystick, looped, phone_active, frameMoves, sent, idleAge,
                 rosAge, rosWaiting, mcu, press, cut, drops>>

Reopen ==
  /\ pc = "reopen"
  /\ pc' = "select"
  /\ UNCHANGED <<web, broadcastDue, state, joystick, looped, phone_active, frameMoves, sent, idleAge,
                 rosAge, rosWaiting, mcu, history>>

----------------------------------------------------------------------------
(* The environment *)

RosCommand ==
  /\ ~rosWaiting
  /\ rosWaiting' = TRUE
  /\ UNCHANGED <<web, broadcastDue, state, joystick, pc, looped, phone_active, frameMoves, sent, idleAge,
                 rosAge, mcu, history>>

(* The PS2 brake, an e-stop or a takeover by the gamepad.                  *)
Takeover ==
  /\ armed
  /\ armed' = FALSE
  /\ spoiled' = TRUE
  /\ UNCHANGED <<web, broadcastDue, state, joystick, proxy, mcuAge, telemetry, press, cut, drops>>

Older(age, most) == IF age < most THEN age + 1 ELSE age
Shorter(left) == IF left > 0 THEN left - 1 ELSE 0

Tick ==
  /\ pc = "reopen" \/ (pc = "select" /\ looped)
  /\ ~broadcastDue
  /\ looped' = FALSE
  /\ sent' = FALSE
  /\ armLeft' = Shorter(armLeft)
  /\ disableLeft' = Shorter(disableLeft)
  /\ armEnded' = IF armLeft > 0 THEN 0 ELSE Older(armEnded, SyncGrace)
  /\ joyAge' = Older(joyAge, PhoneTimeout + 1)
  /\ idleAge' = Older(idleAge, IdlePeriod)
  /\ rosAge' = Older(rosAge, PhoneTimeout + 1)
  /\ mcuAge' = Older(mcuAge, McuTimeout)
  /\ armed' = (armed /\ mcuAge' < McuTimeout)
  /\ spoiled' = (spoiled \/ (armed /\ mcuAge' = McuTimeout))
  /\ telemetry' = ~armed
  /\ UNCHANGED <<web, broadcastDue, enabled, moving, pc, phone_active, frameMoves, rosWaiting, press, cut, drops>>

BoardNext ==
  \/ \E c \in Phones : Connect(c) \/ DisconnectOther(c) \/ DisconnectLast(c)
  \/ \E c \in Phones, on \in BOOLEAN : MotorState(c, on) \/ Joystick(c, on)
  \/ BroadcastState
  \/ Select \/ ReadTelemetry \/ PhoneFrame
  \/ \E dropped \in BOOLEAN : SendPhoneFrame(dropped) \/ ForwardRos(dropped) \/ Heartbeat(dropped)
  \/ SerialError \/ Reopen
  \/ RosCommand \/ Takeover \/ Tick

BoardSpec == BoardInit /\ [][BoardNext]_boardVars

----------------------------------------------------------------------------
(* protocol.py: the request is repeated for a short window so that a lost  *)
(* frame cannot lose it.  An Enable has armed the chassis when its window  *)
(* ends, whatever the stick, ROS and the other phones did meanwhile; only  *)
(* a failing line or the operator's gamepad may prevent it.                *)
EnableReachesChassis ==
  press = "enable" /\ ~spoiled /\ armLeft = 0 /\ pc = "select" => armed

(* A Disable, and the last enabled phone leaving, has disarmed it in the   *)
(* same way, also when the press meets a frame that is being built.  One   *)
(* case is excepted, in which the code does not keep this: the phone that  *)
(* pressed Disable is the last and leaves within MaxDrops + 2 ticks.       *)
(* server.py:309 promises an explicit Disable when the last phone leaves,  *)
(* but reset finds the flag already false and ends the window of the press *)
(* (protocol.py:64), and the chassis may stay armed.  A phone that stays   *)
(* those ticks may leave before the window ends, and the press holds.      *)
DisableReachesChassis ==
  press = "disable" /\ ~spoiled /\ ~cut /\ disableLeft = 0 /\ pc = "select" => ~armed

=============================================================================
