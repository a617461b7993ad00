SPECIFICATION Spec
CONSTANTS
    ann = ann
    bob = bob
    tab1 = tab1
    tab2 = tab2
    phone = phone
    cam1 = cam1
    cam2 = cam2
    desk = desk
    Users = {ann, bob}
    RoomIds = {ra}
    NoRoom = NoRoom
    ChatSockets = {tab1, tab2, phone}
    ChatOwner <- ChatOwners
    MaxMessages = 1
    MaxEvents = 2
    CallSockets = {cam1, cam2, desk}
    CallOwner <- CallOwners
CONSTRAINT OneGateway
INVARIANTS
    RoomForgotten
CHECK_DEADLOCK FALSE
