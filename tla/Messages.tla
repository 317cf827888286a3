------------------------------- MODULE Messages -------------------------------
(***************************************************************************)
(* The wire protocol (protocol.rs) and what each message requires of its    *)
(* connection before its handler asks the broker (server.rs).               *)
(***************************************************************************)
EXTENDS Naturals, Sequences, FiniteSets

CURRENT_PROTOCOL_VERSION == 2

\* Messages about one session name it; the others must not.
Sessional == {"session.open", "session.close", "context.changed", "suggest.request",
              "suggest.cancel", "commit.result", "revision.request",
              "suggestion.show", "suggestion.clear", "suggestion.list",
              "commit.prepare", "revision.show", "revision.clear"}

\* Controls of the whole broker; the others act on a session.
Global == {"pause", "resume", "pause_toggle", "snooze", "snooze_end"}

NoSid == "no session"

\* validate_shape, of an envelope's type, coordinates, id and version.
WellShaped(m) ==
    /\ m.v = CURRENT_PROTOCOL_VERSION
    /\ m.type \in {"authority.changed", "authority.ack"} => m.id = 0
    /\ IF m.type = "control.request"
       THEN (m.action \in Global) = (m.sid = NoSid)
       ELSE (m.type \in Sessional) = (m.sid # NoSid)

\* HelloPayload::validate.  Capabilities come as a list.
Distinct(caps) == \A i, j \in DOMAIN caps : caps[i] = caps[j] => i = j
Has(caps, cap) == \E i \in DOMAIN caps : caps[i] = cap

MayNegotiate(kind) ==
    [cap \in {"editor_focus", "selection_revision", "alternative_list"} |->
        CASE cap = "editor_focus" -> kind = "neovim"
          [] cap = "selection_revision" -> kind \in {"fcitx", "test", "cli"}
          [] OTHER -> kind \in {"fcitx", "test", "obsidian", "neovim"}]

HelloValid(h) ==
    /\ h.min = CURRENT_PROTOCOL_VERSION /\ h.max = CURRENT_PROTOCOL_VERSION
    /\ h.caps # <<>> /\ Distinct(h.caps)
    /\ \A cap \in DOMAIN MayNegotiate(h.kind) :
           Has(h.caps, cap) => MayNegotiate(h.kind)[cap]

-----------------------------------------------------------------------------
(* The handlers' table                                                     *)

\* Only for a client that acknowledged the current epoch.
Gated(m) ==
    \/ m.type \in {"session.open", "context.changed", "suggest.request",
                   "revision.request"}
    \/ m.type = "control.request" /\ m.action \notin Global

\* Only about a session this connection opened.
NeedsOwned == {"session.close", "context.changed", "suggest.request",
               "suggest.cancel", "revision.request", "commit.result"}

\* Only for a CLI that negotiated settings.
NeedsSettings == {"settings.get", "settings.replace", "memory.clear", "probe.request",
                  "style.query", "style.forget", "style.export", "context.query",
                  "context.forget", "stats.query", "stats.forget"}

Needs == [type \in {"session.open", "context.changed", "suggest.request",
                    "suggest.cancel", "revision.request", "control.request",
                    "health.request", "style.key", "desktop.state", "editor.focus",
                    "policy.query", "authority.ack"} |->
    CASE type = "session.open" -> {"context", "suggestion", "policy"}
      [] type = "context.changed" -> {"context"}
      [] type \in {"suggest.request", "suggest.cancel"} -> {"suggestion"}
      [] type = "revision.request" -> {"selection_revision"}
      [] type = "control.request" -> {"control"}
      [] type = "health.request" -> {"health"}
      [] type = "style.key" -> {"style_key"}
      [] type = "desktop.state" -> {"desktop_signals"}
      [] type = "editor.focus" -> {"editor_focus"}
      [] OTHER -> {"policy"}]

\* What a peer may send once its hello is over.
Inbound == DOMAIN Needs \cup NeedsOwned \cup NeedsSettings

\* Handlers that answer with a message of their own; the others are silent,
\* or answered by the broker's events.
Replying == NeedsSettings \cup {"control.request", "health.request", "style.key",
                                "desktop.state", "editor.focus", "policy.query"}

Permitted(terms, m) ==
    /\ m.type \in DOMAIN Needs => \A cap \in Needs[m.type] : Has(terms.caps, cap)
    /\ m.type \in NeedsSettings => Has(terms.caps, "settings") /\ terms.kind = "cli"

\* A failure of the broker is answered and the connection goes on; any other
\* is answered and ends it.  The epoch is asked for first, except by a control,
\* which needs its capability before.
Verdict(terms, current, owned, cap, m) ==
    CASE m.type \notin Inbound -> "fatal"
      [] /\ m.type \in Inbound /\ Gated(m) /\ ~current
         /\ m.type = "control.request" => Has(terms.caps, "control") -> "refused"
      [] OTHER ->
            IF /\ Permitted(terms, m)
               /\ m.type = "session.open" => Cardinality(owned) < cap
               /\ m.type \in NeedsOwned => m.sid \in owned
               /\ m.sound
            THEN "run" ELSE "fatal"
=============================================================================
