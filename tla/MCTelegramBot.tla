---------------------------- MODULE MCTelegramBot ----------------------------
(* A small instance of TelegramBot. *)
EXTENDS TelegramBot

CONSTANTS h1, h2

Chat(text, active, plans) == [text |-> text, active |-> active, plans |-> plans]

\* The dialogue that leads to an order; two orders after a consent; what ends
\* early.
MCChats ==
    {Chat(<<"/start", "accept", "/buy">>, TRUE, TRUE),
     Chat(<<"/buy", "accept", "/buy">>, TRUE, TRUE),
     Chat(<<"/plans", "accept", "none">>, TRUE, FALSE),
     Chat(<<"/buy", "hello", "none">>, FALSE, TRUE)}
=============================================================================
