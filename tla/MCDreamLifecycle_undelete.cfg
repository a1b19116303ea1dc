\* A user deletes a row that a dream is about to merge.
CONSTANTS
    Memories = {1, 2}
    Unreadable = {}
    Dreamers = {d1}
    Clients = {c1}
    Purgers = {}
    None = None
SPECIFICATION Spec
PROPERTIES DeletionsStick
