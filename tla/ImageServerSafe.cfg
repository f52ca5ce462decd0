\* Three images, one of which is broken; uploads of up to two images.
CONSTANTS
    Names = {i1, i2, i3}
    Broken = {i3}
    Chunks = 2
    MaxUpload = 2
SPECIFICATION Spec
INVARIANTS ThumbnailsHaveImages RepliedIsStored
